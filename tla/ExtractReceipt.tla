--------------------------- MODULE ExtractReceipt ---------------------------
(***************************************************************************)
(* The files of one capture unit (a URL directory and a browser) and the   *)
(* programs that create, verify and delete them: WikiFetcher of            *)
(* wiki_fetcher.py captures a unit and commits its checkpoint marker,      *)
(* extract_one of capture_extraction.py extracts results, records them in  *)
(* a receipt and, when asked to, deletes the PCAP.  Each program may be    *)
(* killed between any two of its writes, any of its writes may fail, and   *)
(* files may be damaged from outside.                                      *)
(*                                                                         *)
(* A capture carries a number, its version; a file is known by the version *)
(* of the capture that wrote it and by what has happened to it since.  Two *)
(* files have the same signature when they are equal, and the same size    *)
(* when both belong to one version and neither is cut.                     *)
(***************************************************************************)
EXTENDS Naturals, FiniteSets

CONSTANTS
    Extractors,     \* processes that run extract_one on the unit
    MaxCaptures,    \* bound: captures of the unit
    MaxRuns,        \* bound: extraction runs
    MaxDamages,     \* bound: files damaged from outside
    NoExtractor

ASSUME ExtractAssumption ==
    /\ NoExtractor \notin Extractors
    /\ MaxCaptures \in Nat
    /\ MaxRuns \in Nat
    /\ MaxDamages \in Nat
-----------------------------------------------------------------------------
VARIABLES
    \* files
    pcap, keylog,   \* capture_<browser>.pcap and tls_keys_<browser>.log
    marker,         \* version in capture_<browser>.complete.json, 0 if absent
    receipt,        \* extraction_<browser>.json
    results,        \* [Steps -> state of the result files the receipt lists]
    \* processes
    cap,            \* next step of the capture of this unit
    lock,           \* holder of the unit lock
    ext,            \* [Extractors -> local state of extract_one]
    \* history and bounds
    damaged,        \* versions some file of which was damaged
    captures, runs, damages

fileVars  == <<pcap, keylog, marker, receipt, results>>
boundVars == <<damaged, captures, runs, damages>>
vars == <<fileVars, cap, lock, ext, boundVars>>

Steps    == {"flow", "tls"}

Files  == [ver : 0..MaxCaptures, state : {"intact", "altered", "cut"}]
Absent == [ver |-> 0, state |-> "intact"]
File(v, s) == [ver |-> v, state |-> s]

\* What a receipt binds: the checkpoint, the source and the keylog it was made
\* from, the steps it covers, and what is to become, or became, of the PCAP.
Receipts(statuses) ==
    [status : statuses, ver : 0..MaxCaptures, source : Files, keylog : Files,
     steps : SUBSET Steps, delete : BOOLEAN, deleted : BOOLEAN]
NoReceipt == [status |-> "none", ver |-> 0, source |-> Absent, keylog |-> Absent,
              steps |-> {}, delete |-> FALSE, deleted |-> FALSE]
\* What else a failed receipt says is read by nobody.
FailedReceipt == [NoReceipt EXCEPT !.status = "failed"]
Saved     == {"none", "failed", "verified", "succeeded"}
Good      == {"verified", "succeeded"}

\* want: --delete-pcap; prev: the earlier receipt holds; mem: the receipt in
\* memory.
ExtractPcs == {"idle", "read", "request", "prepare", "analyze", "publish", "retire",
               "unlink", "finish", "fail"}
Runs == [pc : ExtractPcs,
         steps : SUBSET Steps, want : BOOLEAN, prev : BOOLEAN,
         missing : SUBSET Steps, mem : Receipts(Saved \cup {"running"})]
NoRun == [pc |-> "idle", steps |-> {}, want |-> FALSE, prev |-> FALSE,
          missing |-> {}, mem |-> NoReceipt]

Init ==
    /\ pcap = Absent
    /\ keylog = Absent
    /\ marker = 0
    /\ receipt = NoReceipt
    /\ results = [s \in Steps |-> "none"]
    /\ cap = "idle"
    /\ lock = NoExtractor
    /\ ext = [e \in Extractors |-> NoRun]
    /\ damaged = {}
    /\ captures = 0
    /\ runs = 0
    /\ damages = 0
-----------------------------------------------------------------------------
(* What the files say.                                                     *)

\* verified_receipt: a quick look compares sizes, a full one the contents.
Verified(full) ==
    /\ receipt.status \in Good
    /\ marker # 0
    /\ receipt.ver = marker
    /\ receipt.steps # {}
    /\ \A s \in receipt.steps :
          results[s] \in (IF full THEN {"intact"} ELSE {"intact", "altered"})

\* The file has the size the checkpoint records for it.
Sized(f) == marker # 0 /\ f.ver = marker /\ f.state # "cut"

\* retired_capture
Retired == Verified(FALSE) /\ receipt.delete /\ pcap = Absent

\* _checkpoint_valid
CheckpointValid == Sized(keylog) /\ (Sized(pcap) \/ Retired)
-----------------------------------------------------------------------------
(* The capture of the unit: _run_entry, _clear_incomplete_artifacts,       *)
(* _fetch_with and _mark_complete.                                         *)

Extracting == \E e \in Extractors : ext[e].pc # "idle"

CaptureStep(p) ==
    /\ cap' = p
    /\ UNCHANGED <<receipt, results, lock, ext, damaged, runs, damages>>

\* A unit whose checkpoint holds is skipped.  The Worker never runs a capture
\* and an extraction of the same unit side by side.
CaptureBegin ==
    /\ cap = "idle"
    /\ ~Extracting
    /\ captures < MaxCaptures
    /\ ~CheckpointValid
    /\ captures' = captures + 1
    /\ CaptureStep("keylog")
    /\ UNCHANGED <<pcap, keylog, marker>>

\* The files are removed, or moved to failed_captures when extraction runs in
\* the background, one by one, the marker last.
ClearKeylog ==
    /\ cap = "keylog"
    /\ keylog' = Absent
    /\ CaptureStep("pcap")
    /\ UNCHANGED <<pcap, marker, captures>>

ClearPcap ==
    /\ cap = "pcap"
    /\ pcap' = Absent
    /\ CaptureStep("marker")
    /\ UNCHANGED <<keylog, marker, captures>>

ClearMarker ==
    /\ cap = "marker"
    /\ marker' = 0
    /\ CaptureStep("start")
    /\ UNCHANGED <<pcap, keylog, captures>>

\* TShark writes the PCAP, when it starts ...
CaptureStart ==
    /\ cap = "start"
    /\ pcap' \in {pcap, File(captures, "cut")}
    /\ CaptureStep("stop")
    /\ UNCHANGED <<keylog, marker, captures>>

\* ... and closes it, well or not; the keylog is copied from the profile, if
\* there is one, in full or in part, whatever happened before.
CaptureStop ==
    /\ cap = "stop"
    /\ pcap' \in {pcap, [pcap EXCEPT !.state = "intact"]}
    /\ CaptureStep("copy")
    /\ UNCHANGED <<keylog, marker, captures>>

CaptureKeylog ==
    /\ cap = "copy"
    /\ keylog' \in {keylog, File(captures, "intact"), File(captures, "cut")}
    /\ CaptureStep("mark")
    /\ UNCHANGED <<pcap, marker, captures>>

\* The atomic commit; any error of the session prevents it.
MarkComplete ==
    /\ cap = "mark"
    /\ \/ /\ pcap = File(captures, "intact")
          /\ keylog = File(captures, "intact")
          /\ marker' = captures
       \/ UNCHANGED marker
    /\ CaptureStep("idle")
    /\ UNCHANGED <<pcap, keylog, captures>>

CaptureKilled ==
    /\ cap # "idle"
    /\ CaptureStep("idle")
    /\ UNCHANGED <<pcap, keylog, marker, captures>>
-----------------------------------------------------------------------------
(* extract_one.  Any write may fail, and any step may be the last one.      *)

Step(e, p)   == ext' = [ext EXCEPT ![e].pc = p] /\ UNCHANGED lock
Quit(e)      == ext' = [ext EXCEPT ![e] = NoRun] /\ lock' = NoExtractor
ExtractOnly  == UNCHANGED <<keylog, marker, cap, damaged, captures, damages>>
ReadOnly     == UNCHANGED <<pcap, receipt, results>>

\* An error before the try block, with every step done already, ends the
\* process; inside it the except clause follows.
Raise(e) ==
    IF ext[e].missing = {} THEN Quit(e) ELSE Step(e, "fail")

\* unit_lock does not wait: a second process gives up and leaves no trace.
ExtractBegin(e) ==
    /\ cap = "idle"
    /\ ext[e].pc = "idle"
    /\ lock = NoExtractor
    /\ runs < MaxRuns
    /\ runs' = runs + 1
    /\ lock' = e
    /\ \E S \in (SUBSET Steps) \ {{}}, d \in BOOLEAN :
          ext' = [ext EXCEPT ![e] = [NoRun EXCEPT !.pc = "read", !.steps = S, !.want = d]]
    /\ UNCHANGED <<fileVars, cap, damaged, captures, damages>>

\* Whether the receipt found can be built on for steps S: its results are
\* whole and were made from the PCAP and the keylog that are there now.
Holds(S) ==
    /\ Verified(TRUE)
    /\ pcap = Absent \/ pcap = receipt.source
    /\ "flow" \in S \cap receipt.steps => keylog = receipt.keylog

\* Nothing missing: only what is asked of the PCAP may change.  Otherwise a new
\* receipt that keeps what the one found covers.
ExtractRead(e) ==
    LET S    == ext[e].steps
        prev == Holds(S)
        missing == IF prev THEN S \ receipt.steps ELSE S
    IN
    /\ ext[e].pc = "read"
    /\ ext' = [ext EXCEPT
           ![e].pc = IF missing = {} THEN "request" ELSE "prepare",
           ![e].prev = prev,
           ![e].missing = missing,
           ![e].mem =
               IF missing = {} THEN receipt
               ELSE [NoReceipt EXCEPT
                        !.status = "running",
                        !.keylog = IF prev THEN receipt.keylog ELSE Absent,
                        !.steps  = IF prev THEN S \cup receipt.steps ELSE S,
                        !.delete = ext[e].want]]
    /\ UNCHANGED <<lock, runs>> /\ ReadOnly /\ ExtractOnly

SaveReceipt(e, r) == receipt' = r /\ ext' = [ext EXCEPT ![e].mem = r, ![e].pc = "retire"]

\* Mutant: the record of a PCAP already removed is not kept.
RequestForgets(e) ==
    /\ ext[e].pc = "request"
    /\ \/ SaveReceipt(e, [ext[e].mem EXCEPT !.delete = ext[e].want]) /\ UNCHANGED lock
       \/ Raise(e) /\ UNCHANGED receipt
    /\ UNCHANGED <<pcap, results, runs>> /\ ExtractOnly

\* Mutant: a deletion once requested stays requested.
RequestSticks(e) ==
    /\ ext[e].pc = "request"
    /\ \/ SaveReceipt(e, [ext[e].mem EXCEPT !.delete = ext[e].want \/ @]) /\ UNCHANGED lock
       \/ Raise(e) /\ UNCHANGED receipt
    /\ UNCHANGED <<pcap, results, runs>> /\ ExtractOnly

\* This run decides about a PCAP that is there; the record of one that an
\* earlier run removed is kept.
ExtractRequest(e) ==
    LET mem == ext[e].mem IN
    /\ ext[e].pc = "request"
    /\ \/ /\ SaveReceipt(e, [mem EXCEPT !.delete = ext[e].want \/ (mem.delete /\ pcap = Absent)])
          /\ UNCHANGED lock
       \/ Raise(e) /\ UNCHANGED receipt
    /\ UNCHANGED <<pcap, results, runs>> /\ ExtractOnly

\* Room on the disk, a checkpoint, sources of the size it records: their
\* signatures are taken.
ExtractPrepare(e) ==
    LET mem  == ext[e].mem
        flow == "flow" \in ext[e].missing
    IN
    /\ ext[e].pc = "prepare"
    /\ \/ /\ Sized(pcap)
          /\ flow => Sized(keylog)
          /\ ext' = [ext EXCEPT
                 ![e].mem = [mem EXCEPT !.ver = marker, !.source = pcap,
                                        !.keylog = IF flow THEN keylog ELSE mem.keylog],
                 ![e].pc = "analyze"]
          /\ UNCHANGED lock
       \/ Raise(e)
    /\ UNCHANGED runs /\ ReadOnly /\ ExtractOnly

\* The analysis scripts into a directory of their own, the validation of what
\* they wrote, and the sources once more.
ExtractAnalyze(e) ==
    LET mem == ext[e].mem IN
    /\ ext[e].pc = "analyze"
    /\ \/ /\ mem.ver = marker
          /\ mem.source = pcap
          /\ "flow" \in ext[e].missing => mem.keylog = keylog
          /\ ext' = [ext EXCEPT ![e].mem = [@ EXCEPT !.status = "verified"], ![e].pc = "publish"]
          /\ UNCHANGED lock
       \/ Raise(e)
    /\ UNCHANGED runs /\ ReadOnly /\ ExtractOnly

\* The durable receipt: from now on the results count.
ExtractPublish(e) ==
    /\ ext[e].pc = "publish"
    /\ \/ /\ SaveReceipt(e, ext[e].mem)
          /\ results' = [s \in Steps |->
                 IF s \in ext[e].missing THEN "intact"
                 ELSE IF ext[e].prev THEN results[s] ELSE "none"]
          /\ UNCHANGED lock
       \/ Raise(e) /\ UNCHANGED <<receipt, results>>
    /\ UNCHANGED <<pcap, runs>> /\ ExtractOnly

\* Mutant: the results are not verified again.
RetireUnverified(e) ==
    LET remove == ext[e].mem.delete /\ pcap # Absent IN
    /\ ext[e].pc = "retire"
    /\ \/ /\ remove => pcap = ext[e].mem.source
          /\ Step(e, IF remove THEN "unlink" ELSE "finish")
       \/ Raise(e)
    /\ UNCHANGED runs /\ ReadOnly /\ ExtractOnly

\* retire_pcap: the results in full and the source before anything goes.
ExtractRetire(e) ==
    LET remove == ext[e].mem.delete /\ pcap # Absent IN
    /\ ext[e].pc = "retire"
    /\ \/ /\ Verified(TRUE)
          /\ remove => pcap = ext[e].mem.source
          /\ Step(e, IF remove THEN "unlink" ELSE "finish")
       \/ Raise(e)
    /\ UNCHANGED runs /\ ReadOnly /\ ExtractOnly

ExtractUnlink(e) ==
    /\ ext[e].pc = "unlink"
    /\ \/ pcap' = Absent /\ Step(e, "finish")
       \/ Raise(e) /\ UNCHANGED pcap
    /\ UNCHANGED <<receipt, results, runs>> /\ ExtractOnly

\* The receipt in memory has its final form whether or not it could be saved;
\* what follows a receipt saved, the record of the progress, may fail too.
ExtractFinish(e) ==
    LET r == [ext[e].mem EXCEPT !.status = "succeeded", !.deleted = @ \/ ext[e].mem.delete] IN
    /\ ext[e].pc = "finish"
    /\ receipt' \in {receipt, r}
    /\ \/ Quit(e)
       \/ /\ ext[e].missing # {}
          /\ ext' = [ext EXCEPT ![e].pc = "fail", ![e].mem = r]
          /\ UNCHANGED lock
    /\ UNCHANGED <<pcap, results, runs>> /\ ExtractOnly

\* The except clause: a failed receipt takes the place of one that does not
\* hold, except when the results are verified and the PCAP is gone.
ExtractFail(e) ==
    /\ ext[e].pc = "fail"
    /\ Quit(e)
    /\ \/ /\ ~ext[e].prev
          /\ ~(ext[e].mem.status \in Good /\ pcap = Absent)
          /\ receipt' = FailedReceipt
       \/ UNCHANGED receipt
    /\ UNCHANGED <<pcap, results, runs>> /\ ExtractOnly

ExtractKilled(e) ==
    /\ ext[e].pc # "idle"
    /\ Quit(e)
    /\ UNCHANGED runs /\ ReadOnly /\ ExtractOnly
-----------------------------------------------------------------------------
(* Damage from outside: a file changes, in place or in size.  Nobody touches *)
(* the files between the last check of retire_pcap and the unlink.          *)

Damage(v) ==
    /\ cap = "idle"
    /\ \A e \in Extractors : ext[e].pc # "unlink"
    /\ damages < MaxDamages
    /\ damages' = damages + 1
    /\ damaged' = damaged \cup {v}
    /\ UNCHANGED <<marker, receipt, cap, lock, ext, captures, runs>>

DamagePcap ==
    /\ pcap.state = "intact" /\ pcap # Absent
    /\ \E s \in {"altered", "cut"} : pcap' = [pcap EXCEPT !.state = s]
    /\ Damage(pcap.ver)
    /\ UNCHANGED <<keylog, results>>

DamageKeylog ==
    /\ keylog.state = "intact" /\ keylog # Absent
    /\ \E s \in {"altered", "cut"} : keylog' = [keylog EXCEPT !.state = s]
    /\ Damage(keylog.ver)
    /\ UNCHANGED <<pcap, results>>

DamageResults ==
    /\ receipt.status \in Good
    /\ \E t \in receipt.steps, s \in {"altered", "cut"} :
          results[t] = "intact" /\ results' = [results EXCEPT ![t] = s]
    /\ Damage(receipt.ver)
    /\ UNCHANGED <<pcap, keylog>>
-----------------------------------------------------------------------------
CaptureNext ==
    \/ CaptureBegin \/ ClearKeylog \/ ClearPcap \/ ClearMarker
    \/ CaptureStart \/ CaptureStop \/ CaptureKeylog \/ MarkComplete \/ CaptureKilled

ExtractNext(e) ==
    \/ ExtractBegin(e) \/ ExtractRead(e) \/ ExtractRequest(e) \/ ExtractPrepare(e)
    \/ ExtractAnalyze(e) \/ ExtractPublish(e) \/ ExtractRetire(e) \/ ExtractUnlink(e)
    \/ ExtractFinish(e) \/ ExtractFail(e) \/ ExtractKilled(e)

Next ==
    \/ CaptureNext
    \/ \E e \in Extractors : ExtractNext(e)
    \/ DamagePcap \/ DamageKeylog \/ DamageResults

Spec == Init /\ [][Next]_vars
-----------------------------------------------------------------------------
TypeOK ==
    /\ pcap \in Files
    /\ keylog \in Files
    /\ marker \in 0..MaxCaptures
    /\ receipt \in Receipts(Saved)
    /\ results \in [Steps -> {"none", "intact", "altered", "cut"}]
    /\ cap \in {"idle", "keylog", "pcap", "marker", "start", "stop",
                "copy", "mark"}
    /\ lock \in Extractors \cup {NoExtractor}
    /\ ext \in [Extractors -> Runs]
    /\ damaged \subseteq 0..MaxCaptures
    /\ captures \in 0..MaxCaptures
    /\ runs \in 0..MaxRuns
    /\ damages \in 0..MaxDamages

\* A committed unit is never captured again unless somebody damaged its files:
\* wherever capture, extraction and retirement were killed or failed, what they
\* left behind still satisfies _checkpoint_valid (wiki_fetcher.py), with the
\* PCAP or, once it is retired, with the receipt in its place.
CommittedStaysValid ==
    marker # 0 /\ marker \notin damaged => CheckpointValid

\* A PCAP is deleted only when its results are on disk and whole, in a receipt
\* that covers this very PCAP and says that it may go: the promise of the head
\* of capture_extraction.py, kept over failures, kills and damaged results.
DeletionLeavesResults ==
    [][cap = "idle" /\ pcap # Absent /\ pcap' = Absent =>
          /\ receipt.status \in Good /\ receipt.delete
          /\ receipt.ver = marker /\ receipt.source = pcap
          /\ receipt.steps # {} /\ \A s \in receipt.steps : results[s] = "intact"]_vars

\* A receipt that records the deletion of the PCAP is right: extraction_jobs.py
\* counts the unit as deleted on its word.
DeletedIsGone ==
    receipt.status \in Good /\ receipt.deleted /\ receipt.ver = marker => pcap = Absent

\* A run asked to keep the PCAP does not delete it, although an earlier run may
\* have been killed on its way to deleting it (_extract_one and retire_pcap).
KeepIsHonoured ==
    [][\A e \in Extractors :
          ext[e].pc = "unlink" /\ pcap' # pcap => ext[e].want]_vars
-----------------------------------------------------------------------------
(* The inductive invariant behind CommittedStaysValid and                   *)
(* DeletionLeavesResults.                                                   *)

Undamaged == marker # 0 /\ marker \notin damaged
Whole(f)  == f = File(marker, "intact")
AtStep(e, P) == ext[e].pc \in P

\* The unit lock, and the Worker, let one program at a time at the unit.
OneAtATime ==
    \A e \in Extractors : ext[e].pc # "idle" => lock = e /\ cap = "idle"

\* A capture in progress has a unit to replace: one that was never committed,
\* or damaged; from CaptureStart on there is no marker, and no receipt is about
\* the capture in progress.
CaptureReplaces ==
    /\ marker <= captures /\ receipt.ver <= captures
    /\ cap # "idle" => ~Undamaged
    /\ cap \in {"start", "stop", "copy", "mark"} => marker = 0
    /\ cap # "idle" => receipt.ver < captures

\* The files of an undamaged unit are those of its capture, and a receipt made
\* for it still describes them.
UndamagedFiles ==
    Undamaged =>
        /\ Whole(keylog)
        /\ pcap # Absent => Whole(pcap)
        /\ pcap = Absent => receipt.status \in Good /\ receipt.ver = marker /\ receipt.delete
UndamagedReceipt ==
    receipt.status \in Good =>
        /\ receipt.steps # {}
        /\ Undamaged /\ receipt.ver = marker =>
              /\ \A s \in receipt.steps : results[s] = "intact"
              /\ "flow" \in receipt.steps => Whole(receipt.keylog)

\* What extract_one knows while it works.
\* Steps to do; the earlier receipt, when it builds on one, and the receipt in
\* the making.
MakingKnows(e) ==
    /\ AtStep(e, {"read"}) => ext[e].steps # {}
    /\ AtStep(e, {"prepare", "analyze", "publish"}) =>
          /\ ext[e].missing # {}
          /\ IF ext[e].prev
             THEN /\ receipt.status \in Good /\ receipt.ver = marker
                  /\ ext[e].mem.steps = ext[e].missing \cup receipt.steps
                  /\ "flow" \notin ext[e].missing => ext[e].mem.keylog = receipt.keylog
             ELSE ext[e].mem.steps = ext[e].missing
\* From the signatures on there is a PCAP, and they are those of the unit.
SourcesKnown(e) ==
    AtStep(e, {"analyze", "publish"}) =>
        /\ pcap # Absent
        /\ ext[e].mem.ver = marker
        /\ Undamaged /\ "flow" \in ext[e].missing => Whole(ext[e].mem.keylog)
PublishKnows(e) == AtStep(e, {"publish"}) => ext[e].mem.status = "verified"
\* The receipt in memory is the one on disk, and a good one.
SavedKnows(e) ==
    AtStep(e, {"request", "retire", "unlink", "finish"}) =>
        ext[e].mem = receipt /\ receipt.status \in Good
UnlinkKnows(e) ==
    AtStep(e, {"unlink"}) => Verified(TRUE) /\ receipt.delete /\ receipt.source = pcap
\* No earlier receipt and no PCAP: this very run has retired it.
RetiredHere(e) ==
    AtStep(e, {"prepare", "fail"}) /\ Undamaged /\ ~ext[e].prev /\ pcap = Absent
        => ext[e].mem.status \in Good

ExtractKnows ==
    \A e \in Extractors :
        /\ MakingKnows(e)
        /\ SourcesKnown(e)
        /\ PublishKnows(e)
        /\ SavedKnows(e)
        /\ UnlinkKnows(e)
        /\ RetiredHere(e)

\* Everything together is preserved by every step of every program.
IInv ==
    /\ TypeOK
    /\ OneAtATime
    /\ CaptureReplaces
    /\ UndamagedFiles
    /\ UndamagedReceipt
    /\ ExtractKnows
=============================================================================
