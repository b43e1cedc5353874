---------------------------- MODULE Unit_proofs -----------------------------
(***************************************************************************)
(* Proofs about one unit of a capture, from the page to its receipt.       *)
(* ExtractReceipt: the type invariant, the inductive invariant IInv, that  *)
(* a deletion leaves the results and honours the receipts that keep the    *)
(* capture, and that a committed unit stays valid.  NetworkIdle: that the  *)
(* book of the requests of a page is true, that a page which is loaded has *)
(* its last document and that an idle one is quiet, for any pages,         *)
(* streams, times and bounds.                                              *)
(***************************************************************************)
EXTENDS ExtractReceipt, NetworkIdle, FiniteSetTheorems, WellFoundedInduction, TLAPS

-----------------------------------------------------------------------------
(* ExtractReceipt                                                          *)


\* The version of an absent file is a version.
LEMMA Zero == 0 \in 0..MaxCaptures
BY ExtractAssumption

\* Absent files have the type of files, and so have those of a capture.
LEMMA FilesTyped ==
    /\ Absent \in Files
    /\ \A v \in 0..MaxCaptures : File(v, "intact") \in Files /\ File(v, "cut") \in Files
BY Zero DEF Absent, Files, File

\* A step of extract_one that moves to another program point keeps the type of
\* the local states.
LEMMA StepTyped ==
    ASSUME ext \in [Extractors -> Runs], NEW e \in Extractors, NEW p \in ExtractPcs
    PROVE  [ext EXCEPT ![e].pc = p] \in [Extractors -> Runs]
BY DEF Runs

\* The local state of a process that has ended has its type.
LEMMA NoRunTyped == NoRun \in Runs
BY Zero DEF NoRun, Runs, ExtractPcs, NoReceipt, Receipts, Saved, Absent, Files

\* A receipt on its way to the disk: the local state keeps its type.
LEMMA SaveTyped ==
    ASSUME ext \in [Extractors -> Runs], NEW e \in Extractors, NEW p \in ExtractPcs,
           NEW r \in Receipts(Saved \cup {"running"})
    PROVE  [ext EXCEPT ![e].mem = r, ![e].pc = p] \in [Extractors -> Runs]
BY DEF Runs

\* A counter below its bound may be incremented.
LEMMA CounterBound ==
    ASSUME NEW m \in Nat, NEW n \in 0..m, n < m
    PROVE  n + 1 \in 0..m
OBVIOUS

\* Initially every variable has its type.
LEMMA TypeInit == Init => TypeOK
BY NoRunTyped, Zero, FilesTyped, ExtractAssumption
   DEF Init, TypeOK, NoReceipt, Receipts, Saved

\* The steps of a capture keep the types.
LEMMA TypeCapture ==
    ASSUME TypeOK, CaptureNext
    PROVE  TypeOK'
<1> USE Zero, FilesTyped, ExtractAssumption DEF TypeOK, CaptureStep
<1>1. CASE CaptureBegin
  <2>a. captures \in 0..MaxCaptures /\ captures < MaxCaptures /\ captures' = captures + 1
    BY <1>1 DEF CaptureBegin
  <2>1. captures' \in 0..MaxCaptures
    BY <2>a, CounterBound, ExtractAssumption
  <2> QED
    BY <1>1, <2>1 DEF CaptureBegin
<1>2. CASE ClearKeylog
  BY <1>2 DEF ClearKeylog
<1>3. CASE ClearPcap
  BY <1>3 DEF ClearPcap
<1>4. CASE ClearMarker
  BY <1>4 DEF ClearMarker
<1>5. CASE CaptureStart
  BY <1>5 DEF CaptureStart
<1>6. CASE CaptureStop
  <2>1. [pcap EXCEPT !.state = "intact"] \in Files
    BY DEF Files
  <2> QED
    BY <1>6, <2>1 DEF CaptureStop
<1>7. CASE CaptureKeylog
  BY <1>7 DEF CaptureKeylog
<1>8. CASE MarkComplete
  BY <1>8 DEF MarkComplete
<1>9. CASE CaptureKilled
  BY <1>9 DEF CaptureKilled
<1> QED BY <1>1, <1>2, <1>3, <1>4, <1>5, <1>6, <1>7, <1>8, <1>9 DEF CaptureNext

\* The steps of extract_one keep the types.
LEMMA TypeExtract ==
    ASSUME IInv, NEW e \in Extractors, ExtractNext(e)
    PROVE  TypeOK'
<1> USE DEF TypeOK
<1>t. TypeOK
  BY DEF IInv
<1> USE <1>t
<1>a. ext \in [Extractors -> Runs] /\ ext[e] \in Runs
  OBVIOUS
<1>m. ext[e].mem \in Receipts(Saved \cup {"running"})
  BY <1>a DEF Runs
<1>p. ASSUME NEW p \in ExtractPcs, Step(e, p)
      PROVE  ext' \in [Extractors -> Runs] /\ UNCHANGED lock
  <2>1. [ext EXCEPT ![e].pc = p] \in [Extractors -> Runs]
    BY StepTyped
  <2> QED
    BY <1>p, <2>1 DEF Step
<1>q. Quit(e) => ext' \in [Extractors -> Runs] /\ lock' \in Extractors \cup {NoExtractor}
  BY NoRunTyped DEF Quit
<1>r. Raise(e) => ext' \in [Extractors -> Runs] /\ lock' \in Extractors \cup {NoExtractor}
  BY <1>p, <1>q DEF Raise, ExtractPcs
<1>1. CASE ExtractBegin(e)
  <2>1. runs' \in 0..MaxRuns
    BY <1>1, ExtractAssumption DEF ExtractBegin
  <2>2. PICK S \in SUBSET Steps, d \in BOOLEAN :
            ext' = [ext EXCEPT ![e] = [NoRun EXCEPT !.pc = "read", !.steps = S, !.want = d]]
    BY <1>1 DEF ExtractBegin
  <2>3. [NoRun EXCEPT !.pc = "read", !.steps = S, !.want = d] \in Runs
    BY NoRunTyped DEF Runs, ExtractPcs
  <2> QED
    BY <1>1, <2>1, <2>2, <2>3 DEF ExtractBegin, fileVars
<1>2. CASE ExtractRead(e)
  <2> DEFINE S == ext[e].steps
             prev == Holds(S)
             missing == IF prev THEN S \ receipt.steps ELSE S
             mem == IF missing = {} THEN receipt
                    ELSE [NoReceipt EXCEPT
                             !.status = "running",
                             !.keylog = IF prev THEN receipt.keylog ELSE Absent,
                             !.steps  = IF prev THEN S \cup receipt.steps ELSE S,
                             !.delete = ext[e].want]
             q == IF missing = {} THEN "request" ELSE "prepare"
  <2>1. S \in SUBSET Steps /\ ext[e].want \in BOOLEAN
    BY <1>a DEF Runs
  <2>2. prev \in BOOLEAN
    BY DEF Holds
  <2>3. missing \in SUBSET Steps
    BY <2>1
  <2>4. mem \in Receipts(Saved \cup {"running"})
    BY <2>1, Zero, FilesTyped DEF NoReceipt, Receipts, Saved
  <2>5. q \in ExtractPcs
    BY DEF ExtractPcs
  <2>6. ext' = [ext EXCEPT ![e].pc = q, ![e].prev = prev, ![e].missing = missing, ![e].mem = mem]
    BY <1>2 DEF ExtractRead
  <2> HIDE DEF S, prev, missing, mem, q
  <2>7. ext' \in [Extractors -> Runs]
    BY <1>a, <2>2, <2>3, <2>4, <2>5, <2>6 DEF Runs
  <2> QED
    BY <1>2, <2>7 DEF ExtractRead, ReadOnly, ExtractOnly
<1>3. CASE ExtractRequest(e)
  <2> DEFINE r == [ext[e].mem EXCEPT !.delete = ext[e].want \/ (ext[e].mem.delete /\ pcap = Absent)]
  <2>1. CASE SaveReceipt(e, r) /\ UNCHANGED lock
    <3>1. ext[e].mem = receipt
      BY <1>3 DEF ExtractRequest, IInv, ExtractKnows, SavedKnows, AtStep
    <3>2. r \in Receipts(Saved) /\ r \in Receipts(Saved \cup {"running"})
      BY <1>a, <3>1 DEF Receipts, Saved, Runs
    <3> HIDE DEF r
    <3>3. ext' \in [Extractors -> Runs]
      BY <2>1, <3>2, SaveTyped DEF SaveReceipt, ExtractPcs
    <3> QED
      BY <1>3, <2>1, <3>2, <3>3 DEF ExtractRequest, SaveReceipt, ExtractOnly
  <2>2. CASE Raise(e) /\ UNCHANGED receipt
    BY <1>3, <1>r, <2>2 DEF ExtractRequest, ExtractOnly
  <2> QED
    BY <1>3, <2>1, <2>2 DEF ExtractRequest
<1>4. CASE ExtractPrepare(e)
  <2>1. CASE Raise(e)
    BY <1>4, <1>r, <2>1 DEF ExtractPrepare, ReadOnly, ExtractOnly
  <2>2. CASE ~Raise(e)
    <3> DEFINE k == IF "flow" \in ext[e].missing THEN keylog ELSE ext[e].mem.keylog
               r == [ext[e].mem EXCEPT !.ver = marker, !.source = pcap, !.keylog = k]
    <3>1. k \in Files
      BY <1>m DEF Receipts
    <3>2. r \in Receipts(Saved \cup {"running"})
      BY <1>m, <3>1 DEF Receipts
    <3>3. ext' = [ext EXCEPT ![e].mem = r, ![e].pc = "analyze"]
      BY <1>4, <2>2 DEF ExtractPrepare
    <3> HIDE DEF r
    <3>4. ext' \in [Extractors -> Runs]
      BY <3>2, <3>3, SaveTyped DEF ExtractPcs
    <3> QED
      BY <1>4, <2>2, <3>4 DEF ExtractPrepare, ReadOnly, ExtractOnly
  <2> QED
    BY <2>1, <2>2
<1>5. CASE ExtractAnalyze(e)
  <2>1. CASE Raise(e)
    BY <1>5, <1>r, <2>1 DEF ExtractAnalyze, ReadOnly, ExtractOnly
  <2>2. CASE ~Raise(e)
    <3> DEFINE r == [ext[e].mem EXCEPT !.status = "verified"]
    <3>2. r \in Receipts(Saved \cup {"running"})
      BY <1>m DEF Receipts, Saved
    <3>3. ext' = [ext EXCEPT ![e].mem = r, ![e].pc = "publish"]
      BY <1>5, <1>a, <1>m, <2>2 DEF ExtractAnalyze, Runs, Receipts
    <3> HIDE DEF r
    <3>4. ext' \in [Extractors -> Runs]
      BY <3>2, <3>3, SaveTyped DEF ExtractPcs
    <3> QED
      BY <1>5, <2>2, <3>4 DEF ExtractAnalyze, ReadOnly, ExtractOnly
  <2> QED
    BY <2>1, <2>2
<1>6. CASE ExtractPublish(e)
  <2>1. CASE Raise(e) /\ UNCHANGED <<receipt, results>>
    BY <1>6, <1>r, <2>1 DEF ExtractPublish, ExtractOnly
  <2>2. CASE SaveReceipt(e, ext[e].mem)
    <3> DEFINE r == ext[e].mem
    <3>1. r.status = "verified"
      BY <1>6 DEF ExtractPublish, IInv, ExtractKnows, PublishKnows, AtStep
    <3>2. r \in Receipts(Saved)
      BY <1>m, <3>1 DEF Receipts, Saved
    <3> HIDE DEF r
    <3>3. ext' \in [Extractors -> Runs]
      BY <1>m, <2>2, SaveTyped DEF SaveReceipt, ExtractPcs, r
    <3>4. results' \in [Steps -> {"none", "intact", "altered", "cut"}]
      BY <1>6 DEF ExtractPublish
    <3> QED
      BY <1>6, <1>r, <2>2, <3>2, <3>3, <3>4 DEF ExtractPublish, SaveReceipt, ExtractOnly, r
  <2> QED
    BY <1>6, <2>1, <2>2 DEF ExtractPublish
<1>7. CASE ExtractRetire(e)
  BY <1>7, <1>p, <1>r DEF ExtractRetire, ReadOnly, ExtractOnly, ExtractPcs
<1>8. CASE ExtractUnlink(e)
  BY <1>8, <1>p, <1>r, FilesTyped DEF ExtractUnlink, ExtractOnly, ExtractPcs
<1>9. CASE ExtractFinish(e)
  <2> DEFINE r == [ext[e].mem EXCEPT !.status = "succeeded", !.deleted = @ \/ ext[e].mem.delete]
  <2>1. r \in Receipts(Saved)
    BY <1>m DEF Receipts, Saved
  <2>2. r \in Receipts(Saved \cup {"running"})
    BY <2>1 DEF Receipts
  <2>3. CASE Quit(e)
    BY <1>9, <1>q, <2>1, <2>3 DEF ExtractFinish, ExtractOnly
  <2>4. CASE ~Quit(e)
    <3> HIDE DEF r
    <3>1. [ext EXCEPT ![e].pc = "fail", ![e].mem = r] \in [Extractors -> Runs]
      BY <1>a, <2>2 DEF Runs, ExtractPcs
    <3> QED
      BY <1>9, <2>1, <2>4, <3>1 DEF ExtractFinish, ExtractOnly, r
  <2> QED
    BY <2>3, <2>4
<1>10. CASE ExtractFail(e)
  <2>1. FailedReceipt \in Receipts(Saved)
    BY Zero, FilesTyped DEF FailedReceipt, NoReceipt, Receipts, Saved
  <2> QED
    BY <1>10, <1>q, <2>1 DEF ExtractFail, ExtractOnly
<1>11. CASE ExtractKilled(e)
  BY <1>11, <1>q DEF ExtractKilled, ReadOnly, ExtractOnly
<1> QED
  BY <1>1, <1>2, <1>3, <1>4, <1>5, <1>6, <1>7, <1>8, <1>9, <1>10, <1>11 DEF ExtractNext

\* Damage keeps the types.
LEMMA TypeDamage ==
    ASSUME TypeOK, DamagePcap \/ DamageKeylog \/ DamageResults
    PROVE  TypeOK'
<1> USE DEF TypeOK
<1>1. ASSUME NEW v \in 0..MaxCaptures, Damage(v)
      PROVE  damages' \in 0..MaxDamages /\ damaged' \subseteq 0..MaxCaptures
  <2>1. damages \in 0..MaxDamages /\ damages < MaxDamages /\ damages' = damages + 1
    BY <1>1 DEF Damage
  <2>2. damages' \in 0..MaxDamages
    BY <2>1, CounterBound, ExtractAssumption
  <2> QED
    BY <1>1, <2>2 DEF Damage
<1>2. ASSUME NEW f \in Files, NEW t \in {"altered", "cut"}
      PROVE  [f EXCEPT !.state = t] \in Files /\ f.ver \in 0..MaxCaptures
  BY DEF Files
<1>3. CASE DamagePcap
  <2>1. pcap.ver \in 0..MaxCaptures /\ pcap' \in Files
    BY <1>2, <1>3 DEF DamagePcap
  <2> QED
    BY <1>1, <1>3, <2>1 DEF DamagePcap, Damage
<1>4. CASE DamageKeylog
  <2>1. keylog.ver \in 0..MaxCaptures /\ keylog' \in Files
    BY <1>2, <1>4 DEF DamageKeylog
  <2> QED
    BY <1>1, <1>4, <2>1 DEF DamageKeylog, Damage
<1>5. CASE DamageResults
  <2>1. receipt.ver \in 0..MaxCaptures
    BY DEF Receipts
  <2>2. results' \in [Steps -> {"none", "intact", "altered", "cut"}]
    BY <1>5 DEF DamageResults
  <2> QED
    BY <1>1, <1>5, <2>1, <2>2 DEF DamageResults, Damage
<1> QED
  BY <1>3, <1>4, <1>5

-----------------------------------------------------------------------------
\* An undamaged unit has a valid checkpoint.
LEMMA UndamagedIsValid == IInv /\ Undamaged => CheckpointValid
<1> SUFFICES ASSUME IInv, Undamaged PROVE CheckpointValid
  OBVIOUS
<1>1. Sized(keylog)
  BY DEF IInv, UndamagedFiles, Undamaged, Whole, File, Sized
<1>2. CASE pcap # Absent
  BY <1>1, <1>2 DEF IInv, UndamagedFiles, Undamaged, Whole, File, Sized, CheckpointValid
<1>3. CASE pcap = Absent
  <2>1. receipt.status \in Good /\ receipt.ver = marker /\ receipt.delete
    BY <1>3 DEF IInv, UndamagedFiles
  <2>2. receipt.steps # {} /\ \A s \in receipt.steps : results[s] = "intact"
    BY <2>1 DEF IInv, UndamagedReceipt
  <2> QED
    BY <1>1, <1>3, <2>1, <2>2 DEF CheckpointValid, Retired, Verified, Undamaged
<1> QED
  BY <1>2, <1>3

\* The initial state satisfies the invariant.
LEMMA InvInit == Init => IInv
BY TypeInit
   DEF Init, IInv, OneAtATime, CaptureReplaces, UndamagedFiles, UndamagedReceipt, ExtractKnows,
       Undamaged, NoRun, NoReceipt, Good, MakingKnows, SourcesKnown, PublishKnows, SavedKnows,
       UnlinkKnows, RetiredHere, AtStep

\* A capture keeps the invariant: it starts only when the unit is not valid,
\* and by its commit all its files are in place.
LEMMA InvCapture == ASSUME IInv, CaptureNext PROVE IInv'
<1> DEFINE NoneAtWork == \A e \in Extractors : ext[e].pc = "idle"
<1>1. NoneAtWork /\ ext' = ext /\ receipt' = receipt /\ results' = results /\ damaged' = damaged
  BY DEF CaptureNext, CaptureBegin, ClearKeylog, ClearPcap, ClearMarker, CaptureStart, CaptureStop,
         CaptureKeylog, MarkComplete, CaptureKilled, CaptureStep, Extracting, IInv, OneAtATime
<1>2. TypeOK'
  BY TypeCapture DEF IInv
<1>3. OneAtATime' /\ ExtractKnows'
  BY <1>1 DEF OneAtATime, ExtractKnows, MakingKnows, SourcesKnown, PublishKnows, SavedKnows,
              UnlinkKnows, RetiredHere, AtStep
<1>4. receipt.status \in Good => receipt.steps # {}
  BY DEF IInv, UndamagedReceipt
<1>n. marker \in Nat /\ receipt.ver \in Nat /\ captures \in Nat
  <2>1. receipt.ver \in 0..MaxCaptures
    BY DEF IInv, TypeOK, Receipts
  <2>2. marker \in 0..MaxCaptures /\ captures \in 0..MaxCaptures
    BY DEF IInv, TypeOK
  <2> QED
    BY <2>1, <2>2
<1> HIDE DEF NoneAtWork
<1>5. CASE CaptureBegin
  <2>1. ~Undamaged
    BY <1>5, UndamagedIsValid DEF CaptureBegin
  <2>2. captures' = captures + 1 /\ marker' = marker /\ cap' = "keylog"
    BY <1>5 DEF CaptureBegin, CaptureStep
  <2>3. ~Undamaged'
    BY <1>1, <2>1, <2>2 DEF Undamaged
  <2>a. marker <= captures /\ receipt.ver <= captures
    BY DEF IInv, CaptureReplaces
  <2>4. receipt.ver < captures' /\ marker <= captures' /\ receipt.ver <= captures'
    BY <1>n, <2>2, <2>a
  <2>5. CaptureReplaces'
    BY <1>1, <1>n, <2>2, <2>3, <2>4 DEF CaptureReplaces
  <2> QED
    BY <1>1, <1>2, <1>3, <1>4, <2>3, <2>5 DEF IInv, UndamagedFiles, UndamagedReceipt
<1>6. ASSUME cap # "idle", captures' = captures,
             marker' = marker \/ marker' = 0,
             cap' \in {"start", "stop", "copy", "mark"} => marker' = 0
      PROVE  IInv'
  <2>1. ~Undamaged /\ receipt.ver < captures /\ marker' <= captures
    BY <1>6, <1>n DEF IInv, CaptureReplaces
  <2>2. ~Undamaged'
    BY <1>1, <1>6, <2>1 DEF Undamaged
  <2>3. CaptureReplaces'
    BY <1>1, <1>n, <1>6, <2>1, <2>2 DEF CaptureReplaces
  <2> QED
    BY <1>1, <1>2, <1>3, <1>4, <2>2, <2>3 DEF IInv, UndamagedFiles, UndamagedReceipt
<1>7. CASE ClearKeylog
  BY <1>6, <1>7 DEF ClearKeylog, CaptureStep
<1>8. CASE ClearPcap
  BY <1>6, <1>8 DEF ClearPcap, CaptureStep
<1>9. CASE ClearMarker
  BY <1>6, <1>9 DEF ClearMarker, CaptureStep
<1>10. CASE CaptureStart
  BY <1>6, <1>10 DEF CaptureStart, CaptureStep, IInv, CaptureReplaces
<1>11. CASE CaptureStop
  BY <1>6, <1>11 DEF CaptureStop, CaptureStep, IInv, CaptureReplaces
<1>12. CASE CaptureKeylog
  BY <1>6, <1>12 DEF CaptureKeylog, CaptureStep, IInv, CaptureReplaces
<1>13. CASE CaptureKilled
  BY <1>6, <1>13 DEF CaptureKilled, CaptureStep
<1>14. CASE MarkComplete
  <2>1. CASE UNCHANGED marker
    BY <1>6, <1>14, <2>1 DEF MarkComplete, CaptureStep, IInv, CaptureReplaces
  <2>2. CASE ~UNCHANGED marker
    <3>1. /\ pcap = File(captures, "intact") /\ keylog = File(captures, "intact")
          /\ marker' = captures /\ cap' = "idle" /\ UNCHANGED <<pcap, keylog, captures>>
      BY <1>14, <2>2 DEF MarkComplete, CaptureStep
    <3>2. receipt.ver < captures
      BY <1>14 DEF MarkComplete, IInv, CaptureReplaces
    <3>3. pcap' # Absent
      BY <1>n, <3>1, <3>2 DEF File, Absent
    <3>4. UndamagedFiles'
      BY <3>1, <3>3 DEF UndamagedFiles, Whole, File
    <3>5. UndamagedReceipt'
      BY <1>1, <1>4, <1>n, <3>1, <3>2 DEF UndamagedReceipt
    <3>6. CaptureReplaces'
      BY <1>1, <1>n, <3>1, <3>2 DEF CaptureReplaces
    <3> QED
      BY <1>2, <1>3, <3>4, <3>5, <3>6 DEF IInv
  <2> QED
    BY <2>1, <2>2
<1> QED
  BY <1>5, <1>7, <1>8, <1>9, <1>10, <1>11, <1>12, <1>13, <1>14 DEF CaptureNext

\* Damage keeps the invariant: the unit it hits is no longer undamaged.
LEMMA InvDamage ==
    ASSUME IInv, DamagePcap \/ DamageKeylog \/ DamageResults
    PROVE  IInv'
<1>1. TypeOK'
  BY TypeDamage DEF IInv
<1>2. UNCHANGED <<marker, receipt, cap, lock, ext, captures>> /\ cap = "idle"
  BY DEF DamagePcap, DamageKeylog, DamageResults, Damage
<1>3. OneAtATime' /\ CaptureReplaces'
  BY <1>2 DEF IInv, OneAtATime, CaptureReplaces
<1>4. Undamaged' => Undamaged
  BY <1>2 DEF DamagePcap, DamageKeylog, DamageResults, Damage, Undamaged
<1>5. pcap' = Absent <=> pcap = Absent
  BY DEF DamagePcap, DamageKeylog, DamageResults, Absent
<1>6. Undamaged' => UNCHANGED <<pcap, keylog>>
  <2> SUFFICES ASSUME Undamaged' PROVE UNCHANGED <<pcap, keylog>>
    OBVIOUS
  <2>1. Undamaged /\ marker \notin damaged'
    BY <1>2, <1>4 DEF Undamaged
  <2>2. keylog.ver = marker /\ (pcap # Absent => pcap.ver = marker)
    BY <2>1 DEF IInv, UndamagedFiles, Whole, File
  <2> QED
    BY <2>1, <2>2 DEF DamagePcap, DamageKeylog, DamageResults, Damage
<1>7. Undamaged' /\ receipt.ver = marker => UNCHANGED results
  <2> SUFFICES ASSUME Undamaged', receipt.ver = marker PROVE UNCHANGED results
    OBVIOUS
  <2>1. marker \notin damaged'
    BY <1>2 DEF Undamaged
  <2> QED
    BY <2>1 DEF DamagePcap, DamageKeylog, DamageResults, Damage
<1>8. UndamagedFiles'
  BY <1>2, <1>4, <1>6 DEF IInv, UndamagedFiles, Whole, File
<1>9. UndamagedReceipt'
  BY <1>2, <1>4, <1>7 DEF IInv, UndamagedReceipt, Whole, File
<1>10. ASSUME NEW e \in Extractors
       PROVE  /\ MakingKnows(e)' /\ SourcesKnown(e)' /\ PublishKnows(e)'
              /\ SavedKnows(e)' /\ UnlinkKnows(e)' /\ RetiredHere(e)'
  <2> USE <1>2, <1>4, <1>5 DEF IInv, ExtractKnows, AtStep
  <2>1. MakingKnows(e)'
    BY DEF MakingKnows
  <2>2. SourcesKnown(e)'
    BY DEF SourcesKnown, Whole, File
  <2>3. PublishKnows(e)' /\ SavedKnows(e)'
    BY DEF PublishKnows, SavedKnows
  <2>4. UnlinkKnows(e)'
    BY DEF UnlinkKnows, DamagePcap, DamageKeylog, DamageResults, Damage
  <2>5. RetiredHere(e)'
    BY DEF RetiredHere
  <2> QED
    BY <2>1, <2>2, <2>3, <2>4, <2>5
<1> QED
  BY <1>1, <1>3, <1>8, <1>9, <1>10 DEF IInv, ExtractKnows

-----------------------------------------------------------------------------
\* What extract_one knows at its next program point.
KnowsAll(e) ==
    /\ MakingKnows(e) /\ SourcesKnown(e) /\ PublishKnows(e)
    /\ SavedKnows(e) /\ UnlinkKnows(e) /\ RetiredHere(e)

\* What a step of extract_one makes of its local state.
Moved(e, p, m) ==
    /\ ext'[e].pc = p /\ ext'[e].mem = m
    /\ ext'[e].prev = ext[e].prev /\ ext'[e].missing = ext[e].missing
    /\ lock' = lock
Ended(e)  == ext'[e].pc = "idle" /\ lock' = NoExtractor
Others(e) == \A f \in Extractors : f # e => ext'[f] = ext[f]

\* A step that only moves leaves the receipt in memory and the others alone.
LEMMA StepMoves ==
    ASSUME TypeOK, NEW e \in Extractors, NEW p \in ExtractPcs, Step(e, p)
    PROVE  Moved(e, p, ext[e].mem) /\ Others(e)
BY DEF TypeOK, Runs, Step, Moved, Others

\* The end of a run.
LEMMA QuitEnds ==
    ASSUME TypeOK, NEW e \in Extractors, Quit(e)
    PROVE  Ended(e) /\ Others(e)
BY DEF TypeOK, Quit, NoRun, Ended, Others

\* An error ends the run or leads to the except clause.
LEMMA RaiseMoves ==
    ASSUME TypeOK, NEW e \in Extractors, Raise(e)
    PROVE  (Ended(e) \/ Moved(e, "fail", ext[e].mem)) /\ Others(e)
BY StepMoves, QuitEnds DEF Raise, ExtractPcs

\* A saved receipt is the one in memory, and retire_pcap is next.
LEMMA SaveMoves ==
    ASSUME TypeOK, NEW e \in Extractors, NEW r, SaveReceipt(e, r), UNCHANGED lock
    PROVE  Moved(e, "retire", r) /\ Others(e) /\ receipt' = r
BY DEF TypeOK, Runs, SaveReceipt, Moved, Others

\* The invariant holds after a step of one process at the unit when it holds
\* for that process and for the files: nobody else is at work.
LEMMA OneSteps ==
    ASSUME IInv, TypeOK', NEW e \in Extractors, Others(e), ExtractOnly,
           ext[e].pc # "idle" \/ lock = NoExtractor,
           cap = "idle",
           ext'[e].pc # "idle" => lock' = e,
           receipt'.ver <= captures,
           UndamagedFiles', UndamagedReceipt', KnowsAll(e)'
    PROVE  IInv'
<1>1. ASSUME NEW f \in Extractors, f # e
      PROVE  ext'[f].pc = "idle"
  BY <1>1, ExtractAssumption DEF Others, IInv, OneAtATime
<1>2. OneAtATime'
  BY <1>1 DEF OneAtATime, ExtractOnly
<1>3. CaptureReplaces'
  BY DEF IInv, CaptureReplaces, ExtractOnly
<1>4. ASSUME NEW f \in Extractors
      PROVE  KnowsAll(f)'
  <2>1. CASE f = e
    BY <2>1
  <2>2. CASE f # e
    BY <1>1, <2>2 DEF KnowsAll, MakingKnows, SourcesKnown, PublishKnows, SavedKnows, UnlinkKnows,
                      RetiredHere, AtStep
  <2> QED
    BY <2>1, <2>2
<1> QED
  BY <1>2, <1>3, <1>4 DEF IInv, ExtractKnows, KnowsAll

\* A run that ends, and nothing else, keeps the invariant.
LEMMA EndKeeps ==
    ASSUME IInv, TypeOK', NEW e \in Extractors, ext[e].pc # "idle", Ended(e), Others(e),
           ExtractOnly, ReadOnly
    PROVE  IInv'
<1>1. KnowsAll(e)'
  BY DEF Ended, KnowsAll, MakingKnows, SourcesKnown, PublishKnows, SavedKnows, UnlinkKnows,
         RetiredHere, AtStep
<1>2. UndamagedFiles' /\ UndamagedReceipt'
  BY DEF IInv, UndamagedFiles, UndamagedReceipt, Undamaged, Whole, File, ExtractOnly, ReadOnly
<1>3. cap = "idle" /\ receipt.ver <= captures /\ receipt' = receipt
  BY DEF IInv, OneAtATime, CaptureReplaces, ReadOnly
<1> QED
  BY <1>1, <1>2, <1>3, OneSteps DEF Ended

\* So does an error, from every program point from which one is raised.
LEMMA RaiseKeeps ==
    ASSUME IInv, TypeOK', NEW e \in Extractors, Raise(e), ExtractOnly, ReadOnly,
           ext[e].pc \in {"request", "prepare", "analyze", "publish", "retire", "unlink"}
    PROVE  IInv'
<1>1. TypeOK /\ cap = "idle" /\ lock = e /\ receipt.ver <= captures /\ receipt' = receipt
  BY DEF IInv, OneAtATime, CaptureReplaces, ReadOnly
<1>2. CASE Ended(e)
  BY <1>1, <1>2, RaiseMoves, EndKeeps
<1>3. CASE Moved(e, "fail", ext[e].mem)
  <2>1. UndamagedFiles' /\ UndamagedReceipt'
    BY DEF IInv, UndamagedFiles, UndamagedReceipt, Undamaged, Whole, File, ExtractOnly, ReadOnly
  <2>2. RetiredHere(e) /\ SourcesKnown(e) /\ SavedKnows(e)
    BY DEF IInv, ExtractKnows
  <2>3. RetiredHere(e)'
    BY <1>3, <2>2 DEF RetiredHere, SourcesKnown, SavedKnows, AtStep, Moved, Undamaged,
                      ExtractOnly, ReadOnly
  <2>4. KnowsAll(e)'
    BY <1>3, <2>3 DEF Moved, KnowsAll, MakingKnows, SourcesKnown, PublishKnows, SavedKnows,
                      UnlinkKnows, AtStep
  <2> QED
    BY <1>1, <1>3, <2>1, <2>4, RaiseMoves, OneSteps DEF Moved
<1> QED
  BY <1>1, <1>2, <1>3, RaiseMoves

\* Every step of extract_one keeps the invariant.
LEMMA InvExtract ==
    ASSUME IInv, NEW e \in Extractors, ExtractNext(e)
    PROVE  IInv'
<1>t. TypeOK /\ TypeOK'
  BY TypeExtract DEF IInv
<1>k. KnowsAll(e)
  BY DEF IInv, ExtractKnows, KnowsAll
<1>o. ext[e].pc # "idle" => lock = e /\ cap = "idle"
  BY DEF IInv, OneAtATime
<1>v. receipt.ver <= captures /\ marker <= captures
  BY DEF IInv, CaptureReplaces
<1>f. ReadOnly /\ ExtractOnly => UndamagedFiles' /\ UndamagedReceipt'
  BY DEF IInv, UndamagedFiles, UndamagedReceipt, Undamaged, Whole, File, ReadOnly, ExtractOnly
<1> USE <1>t
<1>1. CASE ExtractBegin(e)
  <2>1. PICK S \in (SUBSET Steps) \ {{}}, d \in BOOLEAN :
            ext' = [ext EXCEPT ![e] = [NoRun EXCEPT !.pc = "read", !.steps = S, !.want = d]]
    BY <1>1 DEF ExtractBegin
  <2> DEFINE r == [NoRun EXCEPT !.pc = "read", !.steps = S, !.want = d]
  <2>a. r.pc = "read" /\ r.steps # {}
    BY <2>1 DEF NoRun
  <2> HIDE DEF r
  <2>b. ext' = [ext EXCEPT ![e] = r]
    BY <2>1 DEF r
  <2>2. ext'[e].pc = "read" /\ ext'[e].steps # {} /\ Others(e)
    BY <2>a, <2>b DEF TypeOK, Others
  <2>3. ExtractOnly /\ ReadOnly /\ lock' = e /\ lock = NoExtractor /\ cap = "idle"
    BY <1>1 DEF ExtractBegin, ExtractOnly, ReadOnly, fileVars
  <2>4. KnowsAll(e)'
    BY <2>2 DEF KnowsAll, MakingKnows, SourcesKnown, PublishKnows, SavedKnows, UnlinkKnows,
                RetiredHere, AtStep
  <2> QED
    BY <1>f, <1>v, <2>2, <2>3, <2>4, OneSteps DEF ReadOnly
<1>2. CASE ExtractRead(e)
  <2> DEFINE S == ext[e].steps
             prev == Holds(S)
             missing == IF prev THEN S \ receipt.steps ELSE S
             mem == IF missing = {} THEN receipt
                    ELSE [NoReceipt EXCEPT
                             !.status = "running",
                             !.keylog = IF prev THEN receipt.keylog ELSE Absent,
                             !.steps  = IF prev THEN S \cup receipt.steps ELSE S,
                             !.delete = ext[e].want]
             q == IF missing = {} THEN "request" ELSE "prepare"
  <2>1. /\ ext' = [ext EXCEPT ![e].pc = q, ![e].prev = prev, ![e].missing = missing, ![e].mem = mem]
        /\ ext[e].pc = "read" /\ UNCHANGED lock /\ ReadOnly /\ ExtractOnly
    BY <1>2 DEF ExtractRead
  <2>2. S # {}
    BY <1>k, <2>1 DEF KnowsAll, MakingKnows, AtStep
  <2>3. prev => receipt.status \in Good /\ receipt.ver = marker
    BY DEF Holds, Verified
  <2>4. missing = {} => prev
    BY <2>2
  <2>5. Undamaged /\ pcap = Absent => prev
    BY DEF IInv, UndamagedFiles, UndamagedReceipt, Holds, Verified, Undamaged, Whole
  <2>6. missing # {} => mem.steps = IF prev THEN missing \cup receipt.steps ELSE missing
    BY DEF NoReceipt
  <2>7. missing # {} /\ prev => mem.keylog = receipt.keylog
    BY DEF NoReceipt
  <2>8. missing = {} => mem = receipt
    OBVIOUS
  <2>9. (q = "request" /\ missing = {}) \/ (q = "prepare" /\ missing # {})
    OBVIOUS
  <2>10. prev \in BOOLEAN
    BY DEF Holds
  <2> HIDE DEF S, prev, missing, mem, q
  <2>11. /\ ext'[e].pc = q /\ ext'[e].prev = prev /\ ext'[e].missing = missing
         /\ ext'[e].mem = mem /\ Others(e)
    BY <2>1, <2>10 DEF TypeOK, Runs, Others
  <2>12. MakingKnows(e)'
    BY <2>1, <2>3, <2>6, <2>7, <2>9, <2>11 DEF MakingKnows, AtStep, ReadOnly, ExtractOnly
  <2>13. SavedKnows(e)'
    BY <2>1, <2>3, <2>4, <2>8, <2>9, <2>11 DEF SavedKnows, AtStep, ReadOnly
  <2>14. RetiredHere(e)'
    BY <2>1, <2>5, <2>9, <2>11 DEF RetiredHere, AtStep, Undamaged, ReadOnly, ExtractOnly
  <2>15. KnowsAll(e)'
    BY <2>9, <2>11, <2>12, <2>13, <2>14 DEF KnowsAll, SourcesKnown, PublishKnows, UnlinkKnows, AtStep
  <2> QED
    BY <1>f, <1>o, <1>v, <2>1, <2>11, <2>15, OneSteps DEF ReadOnly
<1>3. CASE ExtractRequest(e)
  <2> DEFINE mem == ext[e].mem
             r == [mem EXCEPT !.delete = ext[e].want \/ (mem.delete /\ pcap = Absent)]
  <2>1. CASE Raise(e) /\ UNCHANGED receipt
    BY <1>3, <2>1, RaiseKeeps DEF ExtractRequest, ReadOnly
  <2>2. CASE SaveReceipt(e, r) /\ UNCHANGED lock
    <3>1. ext[e].pc = "request" /\ UNCHANGED <<pcap, results>> /\ ExtractOnly
      BY <1>3 DEF ExtractRequest
    <3>2. mem = receipt /\ receipt.status \in Good
      BY <1>k, <3>1 DEF KnowsAll, SavedKnows, AtStep
    <3>3. /\ r.status = receipt.status /\ r.ver = receipt.ver /\ r.steps = receipt.steps
          /\ r.keylog = receipt.keylog
          /\ receipt.delete /\ pcap = Absent => r.delete
      BY <3>2 DEF TypeOK, Receipts
    <3> HIDE DEF mem, r
    <3>4. Moved(e, "retire", r) /\ Others(e) /\ receipt' = r
      BY <2>2, SaveMoves
    <3>5. KnowsAll(e)'
      BY <3>2, <3>3, <3>4 DEF KnowsAll, MakingKnows, SourcesKnown, PublishKnows, SavedKnows,
                              UnlinkKnows, RetiredHere, AtStep, Moved
    <3>6. UndamagedFiles'
      BY <3>1, <3>3, <3>4 DEF IInv, UndamagedFiles, Undamaged, Whole, File, ExtractOnly
    <3>7. UndamagedReceipt'
      BY <3>1, <3>3, <3>4 DEF IInv, UndamagedReceipt, Undamaged, Whole, File, ExtractOnly
    <3> QED
      BY <1>o, <1>v, <3>1, <3>3, <3>4, <3>5, <3>6, <3>7, OneSteps DEF Moved
  <2> QED
    BY <1>3, <2>1, <2>2 DEF ExtractRequest
<1>4. CASE ExtractPrepare(e)
  <2>1. CASE Raise(e)
    BY <1>4, <2>1, RaiseKeeps DEF ExtractPrepare
  <2>2. CASE ~Raise(e)
    <3> DEFINE mem == ext[e].mem
               flow == "flow" \in ext[e].missing
               k == IF flow THEN keylog ELSE mem.keylog
               r == [mem EXCEPT !.ver = marker, !.source = pcap, !.keylog = k]
    <3>1. /\ ext[e].pc = "prepare" /\ Sized(pcap) /\ ext' = [ext EXCEPT ![e].mem = r, ![e].pc = "analyze"]
          /\ UNCHANGED lock /\ ReadOnly /\ ExtractOnly
      BY <1>4, <2>2 DEF ExtractPrepare
    <3>2. mem \in Receipts(Saved \cup {"running"})
      BY DEF TypeOK, Runs
    <3>3. r.ver = marker /\ r.steps = mem.steps /\ r.keylog = k
      BY <3>2 DEF Receipts
    <3>4. pcap # Absent
      BY <3>1 DEF Sized, Absent
    <3>5. Undamaged => Whole(keylog)
      BY DEF IInv, UndamagedFiles
    <3>6. MakingKnows(e)
      BY <1>k DEF KnowsAll
    <3>7. (flow => k = keylog) /\ (~flow => k = mem.keylog)
      OBVIOUS
    <3> HIDE DEF r, k
    <3>8. Moved(e, "analyze", r) /\ Others(e)
      BY <3>1 DEF TypeOK, Runs, Moved, Others
    <3>9. MakingKnows(e)'
      BY <3>1, <3>3, <3>6, <3>7, <3>8 DEF MakingKnows, AtStep, Moved, ReadOnly, ExtractOnly
    <3>10. SourcesKnown(e)'
      BY <3>1, <3>3, <3>4, <3>5, <3>7, <3>8
         DEF SourcesKnown, AtStep, Moved, Undamaged, Whole, File, ReadOnly, ExtractOnly
    <3>11. KnowsAll(e)'
      BY <3>8, <3>9, <3>10 DEF KnowsAll, PublishKnows, SavedKnows, UnlinkKnows, RetiredHere,
                               AtStep, Moved
    <3> QED
      BY <1>f, <1>o, <1>v, <3>1, <3>8, <3>11, OneSteps DEF ReadOnly, Moved
  <2> QED
    BY <2>1, <2>2
<1>5. CASE ExtractAnalyze(e)
  <2>1. CASE Raise(e)
    BY <1>5, <2>1, RaiseKeeps DEF ExtractAnalyze
  <2>2. CASE ~Raise(e)
    <3> DEFINE r == [ext[e].mem EXCEPT !.status = "verified"]
    <3>1. ext[e].mem \in Receipts(Saved \cup {"running"})
      BY DEF TypeOK, Runs
    <3>2. /\ ext[e].pc = "analyze" /\ UNCHANGED lock /\ ReadOnly /\ ExtractOnly
          /\ ext' = [ext EXCEPT ![e].mem = r, ![e].pc = "publish"]
      BY <1>5, <2>2, <3>1 DEF ExtractAnalyze, TypeOK, Runs, Receipts
    <3>3. /\ r.status = "verified" /\ r.ver = ext[e].mem.ver
          /\ r.steps = ext[e].mem.steps /\ r.keylog = ext[e].mem.keylog
      BY <3>1 DEF Receipts
    <3> HIDE DEF r
    <3>4. Moved(e, "publish", r) /\ Others(e)
      BY <3>2 DEF TypeOK, Runs, Moved, Others
    <3>5. MakingKnows(e) /\ SourcesKnown(e)
      BY <1>k DEF KnowsAll
    <3>6. MakingKnows(e)'
      BY <3>2, <3>3, <3>4, <3>5 DEF MakingKnows, AtStep, Moved, ReadOnly, ExtractOnly
    <3>7. SourcesKnown(e)'
      BY <3>2, <3>3, <3>4, <3>5
         DEF SourcesKnown, AtStep, Moved, Undamaged, Whole, File, ReadOnly, ExtractOnly
    <3>8. KnowsAll(e)'
      BY <3>3, <3>4, <3>6, <3>7 DEF KnowsAll, PublishKnows, SavedKnows, UnlinkKnows, RetiredHere,
                                    AtStep, Moved
    <3> QED
      BY <1>f, <1>o, <1>v, <3>2, <3>4, <3>8, OneSteps DEF ReadOnly, Moved
  <2> QED
    BY <2>1, <2>2
<1>6. CASE ExtractPublish(e)
  <2>1. CASE Raise(e) /\ UNCHANGED <<receipt, results>>
    BY <1>6, <2>1, RaiseKeeps DEF ExtractPublish, ReadOnly
  <2>2. CASE ~(Raise(e) /\ UNCHANGED <<receipt, results>>)
    <3> DEFINE mem == ext[e].mem
               missing == ext[e].missing
               prev == ext[e].prev
    <3>1. /\ ext[e].pc = "publish" /\ SaveReceipt(e, mem) /\ UNCHANGED <<lock, pcap>> /\ ExtractOnly
          /\ results' = [s \in Steps |-> IF s \in missing THEN "intact"
                                         ELSE IF prev THEN results[s] ELSE "none"]
      BY <1>6, <2>2 DEF ExtractPublish
    <3>2. /\ mem.status = "verified" /\ mem.ver = marker /\ pcap # Absent /\ missing # {}
          /\ Undamaged /\ "flow" \in missing => Whole(mem.keylog)
      BY <1>k, <3>1 DEF KnowsAll, MakingKnows, SourcesKnown, PublishKnows, AtStep
    <3>3. ASSUME prev
          PROVE  /\ mem.steps # {}
                 /\ Undamaged => \A s \in mem.steps : results'[s] = "intact"
                 /\ Undamaged /\ "flow" \in mem.steps => Whole(mem.keylog)
      <4>1. /\ receipt.status \in Good /\ receipt.ver = marker
            /\ mem.steps = missing \cup receipt.steps
            /\ "flow" \notin missing => mem.keylog = receipt.keylog
        BY <1>k, <3>1, <3>3 DEF KnowsAll, MakingKnows, AtStep
      <4>2. mem.steps # {} /\ mem.steps \subseteq Steps
        BY <3>2, <4>1 DEF TypeOK, Runs, Receipts
      <4>3. Undamaged => \A s \in mem.steps : results'[s] = "intact"
        BY <3>1, <3>3, <4>1, <4>2 DEF IInv, UndamagedReceipt
      <4>4. Undamaged /\ "flow" \in mem.steps => Whole(mem.keylog)
        BY <3>2, <4>1 DEF IInv, UndamagedReceipt
      <4> QED
        BY <4>2, <4>3, <4>4
    <3>4. ASSUME ~prev
          PROVE  /\ mem.steps # {}
                 /\ Undamaged => \A s \in mem.steps : results'[s] = "intact"
                 /\ Undamaged /\ "flow" \in mem.steps => Whole(mem.keylog)
      <4>1. mem.steps = missing
        BY <1>k, <3>1, <3>4 DEF KnowsAll, MakingKnows, AtStep
      <4>2. mem.steps # {} /\ mem.steps \subseteq Steps
        BY <3>2, <4>1 DEF TypeOK, Runs, Receipts
      <4>3. \A s \in mem.steps : results'[s] = "intact"
        BY <3>1, <4>1, <4>2
      <4> QED
        BY <3>2, <4>1, <4>2, <4>3
    <3>5. /\ mem.steps # {}
          /\ Undamaged => \A s \in mem.steps : results'[s] = "intact"
          /\ Undamaged /\ "flow" \in mem.steps => Whole(mem.keylog)
      BY <3>3, <3>4
    <3> HIDE DEF mem, missing, prev
    <3>6. Moved(e, "retire", mem) /\ Others(e) /\ receipt' = mem
      BY <3>1, SaveMoves
    <3>7. UndamagedReceipt'
      BY <3>1, <3>5, <3>6 DEF UndamagedReceipt, Undamaged, Whole, File, ExtractOnly
    <3>8. UndamagedFiles'
      BY <3>1, <3>2, <3>6 DEF IInv, UndamagedFiles, Undamaged, Whole, File, ExtractOnly
    <3>9. KnowsAll(e)'
      BY <3>2, <3>6 DEF KnowsAll, MakingKnows, SourcesKnown, PublishKnows, SavedKnows,
                        UnlinkKnows, RetiredHere, AtStep, Moved, Good
    <3> QED
      BY <1>o, <1>v, <3>1, <3>2, <3>6, <3>7, <3>8, <3>9, OneSteps DEF Moved
  <2> QED
    BY <2>1, <2>2
<1>7. CASE ExtractRetire(e)
  <2>1. CASE Raise(e)
    BY <1>7, <2>1, RaiseKeeps DEF ExtractRetire
  <2>2. CASE ~Raise(e)
    <3> DEFINE remove == ext[e].mem.delete /\ pcap # Absent
               p == IF remove THEN "unlink" ELSE "finish"
    <3>1. Verified(TRUE) /\ Step(e, p) /\ ReadOnly /\ ExtractOnly /\ ext[e].pc = "retire"
      BY <1>7, <2>2 DEF ExtractRetire
    <3>2. /\ p \in {"unlink", "finish"} /\ p \in ExtractPcs
          /\ p = "unlink" => ext[e].mem.delete /\ pcap = ext[e].mem.source
      BY <1>7, <2>2 DEF ExtractRetire, ExtractPcs
    <3> HIDE DEF p, remove
    <3>3. Moved(e, p, ext[e].mem) /\ Others(e)
      BY <3>1, <3>2, StepMoves
    <3>4. ext[e].mem = receipt /\ receipt.status \in Good
      BY <1>k, <3>1 DEF KnowsAll, SavedKnows, AtStep
    <3>5. SavedKnows(e)' /\ UnlinkKnows(e)'
      BY <3>1, <3>2, <3>3, <3>4
         DEF SavedKnows, UnlinkKnows, AtStep, Moved, ReadOnly, ExtractOnly, Verified
    <3>6. KnowsAll(e)'
      BY <3>2, <3>3, <3>5 DEF KnowsAll, MakingKnows, SourcesKnown, PublishKnows, RetiredHere,
                              AtStep, Moved
    <3> QED
      BY <1>f, <1>o, <1>v, <3>1, <3>3, <3>6, OneSteps DEF ReadOnly, Moved
  <2> QED
    BY <2>1, <2>2
<1>8. CASE ExtractUnlink(e)
  <2>1. CASE Raise(e) /\ UNCHANGED pcap
    BY <1>8, <2>1, RaiseKeeps DEF ExtractUnlink, ReadOnly
  <2>2. CASE pcap' = Absent /\ Step(e, "finish")
    <3>1. ext[e].pc = "unlink" /\ UNCHANGED <<receipt, results>> /\ ExtractOnly
      BY <1>8 DEF ExtractUnlink
    <3>2. Moved(e, "finish", ext[e].mem) /\ Others(e)
      BY <2>2, StepMoves DEF ExtractPcs
    <3>3. /\ ext[e].mem = receipt /\ receipt.status \in Good
          /\ receipt.ver = marker /\ receipt.delete
      BY <1>k, <3>1 DEF KnowsAll, SavedKnows, UnlinkKnows, AtStep, Verified
    <3>4. KnowsAll(e)'
      BY <3>1, <3>2, <3>3 DEF KnowsAll, MakingKnows, SourcesKnown, PublishKnows, SavedKnows,
                              UnlinkKnows, RetiredHere, AtStep, Moved
    <3>5. UndamagedFiles'
      BY <2>2, <3>1, <3>3 DEF IInv, UndamagedFiles, Undamaged, Whole, File, ExtractOnly
    <3>6. UndamagedReceipt'
      BY <3>1 DEF IInv, UndamagedReceipt, Undamaged, Whole, File, ExtractOnly
    <3> QED
      BY <1>o, <1>v, <3>1, <3>2, <3>4, <3>5, <3>6, OneSteps DEF Moved
  <2> QED
    BY <1>8, <2>1, <2>2 DEF ExtractUnlink
<1>9. CASE ExtractFinish(e)
  <2> DEFINE r == [ext[e].mem EXCEPT !.status = "succeeded", !.deleted = @ \/ ext[e].mem.delete]
  <2>1. ext[e].pc = "finish" /\ UNCHANGED <<pcap, results>> /\ ExtractOnly
    BY <1>9 DEF ExtractFinish
  <2>2. ext[e].mem = receipt /\ receipt.status \in Good
    BY <1>k, <2>1 DEF KnowsAll, SavedKnows, AtStep
  <2>3. /\ r.status = "succeeded" /\ r.ver = receipt.ver /\ r.steps = receipt.steps
        /\ r.keylog = receipt.keylog /\ r.delete = receipt.delete
    BY <2>2 DEF TypeOK, Receipts
  <2>4. /\ receipt' \in {receipt, r}
        /\ \/ Quit(e)
           \/ UNCHANGED lock /\ ext' = [ext EXCEPT ![e].pc = "fail", ![e].mem = r]
    BY <1>9 DEF ExtractFinish
  <2> HIDE DEF r
  <2>5. /\ receipt'.status \in Good /\ receipt'.ver = receipt.ver
        /\ receipt'.steps = receipt.steps /\ receipt'.keylog = receipt.keylog
        /\ receipt'.delete = receipt.delete
    BY <2>2, <2>3, <2>4 DEF Good
  <2>6. UndamagedFiles'
    BY <2>1, <2>5 DEF IInv, UndamagedFiles, Undamaged, Whole, File, ExtractOnly
  <2>7. UndamagedReceipt'
    BY <2>1, <2>2, <2>5 DEF IInv, UndamagedReceipt, Undamaged, Whole, File, ExtractOnly
  <2>8. CASE Quit(e)
    <3>1. Ended(e) /\ Others(e)
      BY <2>8, QuitEnds
    <3>2. KnowsAll(e)'
      BY <3>1 DEF Ended, KnowsAll, MakingKnows, SourcesKnown, PublishKnows, SavedKnows,
                  UnlinkKnows, RetiredHere, AtStep
    <3> QED
      BY <1>o, <1>v, <2>1, <2>5, <2>6, <2>7, <3>1, <3>2, OneSteps DEF Ended
  <2>9. CASE UNCHANGED lock /\ ext' = [ext EXCEPT ![e].pc = "fail", ![e].mem = r]
    <3>1. Moved(e, "fail", r) /\ Others(e)
      BY <2>9 DEF TypeOK, Runs, Moved, Others
    <3>2. KnowsAll(e)'
      BY <2>3, <3>1 DEF KnowsAll, MakingKnows, SourcesKnown, PublishKnows, SavedKnows,
                        UnlinkKnows, RetiredHere, AtStep, Moved, Good
    <3> QED
      BY <1>o, <1>v, <2>1, <2>5, <2>6, <2>7, <3>1, <3>2, OneSteps DEF Moved
  <2> QED
    BY <2>4, <2>8, <2>9
<1>10. CASE ExtractFail(e)
  <2>1. ext[e].pc = "fail" /\ Ended(e) /\ Others(e) /\ ExtractOnly /\ UNCHANGED <<pcap, results>>
    BY <1>10, QuitEnds DEF ExtractFail
  <2>2. CASE UNCHANGED receipt
    BY <2>1, <2>2, EndKeeps DEF ReadOnly
  <2>3. CASE ~UNCHANGED receipt
    <3>1. /\ receipt' = FailedReceipt /\ ~ext[e].prev
          /\ ~(ext[e].mem.status \in Good /\ pcap = Absent)
      BY <1>10, <2>3 DEF ExtractFail
    <3>2. receipt'.status \notin Good /\ receipt'.ver = 0
      BY <3>1 DEF FailedReceipt, NoReceipt, Good
    <3>3. KnowsAll(e)'
      BY <2>1 DEF Ended, KnowsAll, MakingKnows, SourcesKnown, PublishKnows, SavedKnows,
                  UnlinkKnows, RetiredHere, AtStep
    <3>4. Undamaged => pcap # Absent
      BY <1>k, <2>1, <3>1 DEF KnowsAll, RetiredHere, AtStep
    <3>5. UndamagedFiles'
      BY <2>1, <3>4 DEF IInv, UndamagedFiles, Undamaged, Whole, File, ExtractOnly
    <3>6. UndamagedReceipt'
      BY <3>2 DEF UndamagedReceipt
    <3>7. 0 <= captures
      BY DEF TypeOK
    <3> QED
      BY <1>o, <2>1, <3>2, <3>3, <3>5, <3>6, <3>7, OneSteps DEF Ended
  <2> QED
    BY <2>2, <2>3
<1>11. CASE ExtractKilled(e)
  BY <1>11, QuitEnds, EndKeeps DEF ExtractKilled
<1> QED
  BY <1>1, <1>2, <1>3, <1>4, <1>5, <1>6, <1>7, <1>8, <1>9, <1>10, <1>11 DEF ExtractNext

\* Every step keeps the invariant, one that changes nothing included.
LEMMA InvNext == IInv /\ [Next]_vars => IInv'
<1> SUFFICES ASSUME IInv, [Next]_vars PROVE IInv'
  OBVIOUS
<1>1. CASE UNCHANGED vars
  BY <1>1 DEF vars, fileVars, boundVars, IInv, TypeOK, OneAtATime, CaptureReplaces, UndamagedFiles,
              UndamagedReceipt, Undamaged, Whole, File, ExtractKnows, MakingKnows, SourcesKnown,
              PublishKnows, SavedKnows, UnlinkKnows, RetiredHere, AtStep, Verified
<1>2. CASE Next
  BY <1>2, InvCapture, InvExtract, InvDamage DEF Next
<1> QED
  BY <1>1, <1>2

\* The inductive invariant: the lock and the Worker keep the programs apart,
\* what extract_one knows of the files is true at each of its program points,
\* and an undamaged unit has its files or a receipt in place of the PCAP.
THEOREM InvariantHolds == Spec => []IInv
BY InvInit, InvNext, PTL DEF Spec

\* Every variable keeps its type, for any number of extractors and any bounds.
THEOREM TypeCorrect == Spec => []TypeOK
<1>1. IInv => TypeOK
  BY DEF IInv
<1> QED
  BY <1>1, InvariantHolds, PTL

\* A PCAP is deleted only with its results whole and in a receipt made from it:
\* nothing but the unlink of retire_pcap removes a PCAP outside a capture.
THEOREM DeletionsLeaveResults == Spec => DeletionLeavesResults
<1> DEFINE A == cap = "idle" /\ pcap # Absent /\ pcap' = Absent =>
                   /\ receipt.status \in Good /\ receipt.delete
                   /\ receipt.ver = marker /\ receipt.source = pcap
                   /\ receipt.steps # {} /\ \A s \in receipt.steps : results[s] = "intact"
<1>1. IInv /\ [Next]_vars => [A]_vars
  <2> SUFFICES ASSUME IInv, Next, cap = "idle", pcap # Absent, pcap' = Absent PROVE A
    BY DEF vars
  <2>1. ~CaptureNext
    BY DEF CaptureNext, CaptureBegin, ClearKeylog, ClearPcap, ClearMarker, CaptureStart, CaptureStop,
           CaptureKeylog, MarkComplete, CaptureKilled
  <2>2. ~(DamagePcap \/ DamageKeylog \/ DamageResults)
    BY DEF DamagePcap, DamageKeylog, DamageResults, Absent
  <2>3. PICK e \in Extractors : ExtractNext(e)
    BY <2>1, <2>2 DEF Next
  <2>4. ext[e].pc = "unlink"
    BY <2>3 DEF ExtractNext, ExtractBegin, ExtractRead, ExtractRequest, ExtractPrepare, ExtractAnalyze,
                ExtractPublish, ExtractRetire, ExtractUnlink, ExtractFinish, ExtractFail,
                ExtractKilled, ReadOnly, fileVars
  <2>5. UnlinkKnows(e)
    BY DEF IInv, ExtractKnows
  <2> QED
    BY <2>4, <2>5 DEF UnlinkKnows, AtStep, Verified
<1> QED
  BY <1>1, InvariantHolds, PTL DEF Spec, DeletionLeavesResults

\* A committed unit stays valid over every failure and kill of capture,
\* extraction and retirement, unless its files are damaged.
THEOREM CommittedUnitsStayValid == Spec => []CommittedStaysValid
<1>1. IInv => CommittedStaysValid
  BY UndamagedIsValid DEF CommittedStaysValid, Undamaged
<1> QED
  BY <1>1, InvariantHolds, PTL

-----------------------------------------------------------------------------
\* What extract_one knows of the deletion: what it was asked, and that a PCAP
\* it counts as deleted is gone.
Decides(e) ==
    /\ AtStep(e, {"prepare", "analyze", "publish"}) =>
          ext[e].mem.delete = ext[e].want /\ ~ext[e].mem.deleted
    /\ AtStep(e, {"analyze", "publish"}) => ext[e].mem.ver # 0
    /\ AtStep(e, {"retire"}) /\ pcap # Absent /\ ext[e].mem.delete => ext[e].want
    /\ AtStep(e, {"unlink"}) => ext[e].want
    /\ AtStep(e, {"finish"}) /\ ext[e].mem.delete => pcap = Absent
GoodHasVersion == receipt.status \in Good => receipt.ver # 0
Decided == DeletedIsGone /\ GoodHasVersion /\ \A e \in Extractors : Decides(e)

\* A step to another program point, or to the end, keeps what was asked.
LEMMA WantStays ==
    ASSUME TypeOK, NEW e \in Extractors
    PROVE  /\ \A p \in ExtractPcs : Step(e, p) =>
                 ext'[e].pc = p /\ ext'[e].mem = ext[e].mem /\ ext'[e].want = ext[e].want
           /\ Quit(e) => ext'[e].pc = "idle"
           /\ Raise(e) => ext'[e].pc \in {"idle", "fail"}
           /\ \A r : SaveReceipt(e, r) =>
                 ext'[e].pc = "retire" /\ ext'[e].mem = r /\ ext'[e].want = ext[e].want
BY DEF TypeOK, Runs, Step, Quit, NoRun, Raise, SaveReceipt, ExtractPcs

\* Where a run has ended or failed it claims nothing.
LEMMA DoneDecides ==
    ASSUME NEW e \in Extractors, ext'[e].pc \in {"idle", "fail", "read", "request"}
    PROVE  Decides(e)'
BY DEF Decides, AtStep

\* Each step of a run keeps what it knows of the deletion.
LEMMA ExtractDecides ==
    ASSUME IInv, Decided, NEW e \in Extractors, ExtractNext(e)
    PROVE  Decides(e)' /\ DeletedIsGone' /\ GoodHasVersion'
<1>t. TypeOK /\ ext[e] \in Runs
  BY DEF IInv, TypeOK
<1>k. SavedKnows(e) /\ Decides(e) /\ DeletedIsGone /\ GoodHasVersion /\ PublishKnows(e)
  BY DEF IInv, ExtractKnows, Decided
<1>s. UNCHANGED <<pcap, receipt, marker>> => DeletedIsGone' /\ GoodHasVersion'
  BY <1>k DEF DeletedIsGone, GoodHasVersion
<1>1. CASE ExtractBegin(e)
  <2>1. ext'[e].pc = "read" /\ UNCHANGED <<pcap, receipt, marker>>
    BY <1>t, <1>1 DEF ExtractBegin, TypeOK, fileVars, NoRun
  <2> QED
    BY <1>s, <2>1, DoneDecides
<1>2. CASE ExtractRead(e)
  <2>1. UNCHANGED <<pcap, receipt, marker>>
    BY <1>2 DEF ExtractRead, ReadOnly, ExtractOnly
  <2>2. \/ ext'[e].pc = "request"
        \/ /\ ext'[e].pc = "prepare" /\ ext'[e].want = ext[e].want
           /\ ext'[e].mem.delete = ext[e].want /\ ~ext'[e].mem.deleted
    BY <1>t, <1>2 DEF ExtractRead, TypeOK, Runs, NoReceipt
  <2>3. Decides(e)'
    BY <2>2, DoneDecides DEF Decides, AtStep
  <2> QED
    BY <1>s, <2>1, <2>3
<1>3. CASE ExtractRequest(e)
  <2> DEFINE mem == ext[e].mem
             r == [mem EXCEPT !.delete = ext[e].want \/ (mem.delete /\ pcap = Absent)]
  <2>1. mem = receipt /\ receipt.status \in Good
    BY <1>k, <1>3 DEF ExtractRequest, SavedKnows, AtStep
  <2>2. pcap' = pcap /\ marker' = marker
    BY <1>3 DEF ExtractRequest, ExtractOnly
  <2>3. /\ r.delete = (ext[e].want \/ (mem.delete /\ pcap = Absent))
        /\ r.status = receipt.status /\ r.ver = receipt.ver /\ r.deleted = receipt.deleted
    BY <1>t, <2>1 DEF TypeOK, Receipts
  <2>4. SaveReceipt(e, r) \/ (Raise(e) /\ UNCHANGED receipt)
    BY <1>3 DEF ExtractRequest
  <2> HIDE DEF r
  <2>5. CASE SaveReceipt(e, r)
    <3>1. receipt' = r /\ ext'[e].pc = "retire" /\ ext'[e].mem = r /\ ext'[e].want = ext[e].want
      BY <1>t, <2>5, WantStays DEF SaveReceipt
    <3> QED
      BY <1>k, <2>2, <2>3, <3>1 DEF Decides, AtStep, DeletedIsGone, GoodHasVersion
  <2>6. CASE Raise(e) /\ UNCHANGED receipt
    BY <1>s, <1>t, <2>2, <2>6, WantStays, DoneDecides
  <2> QED
    BY <2>4, <2>5, <2>6
<1>4. CASE ExtractPrepare(e)
  <2>1. UNCHANGED <<pcap, receipt, marker>> /\ ext[e].pc = "prepare"
    BY <1>4 DEF ExtractPrepare, ReadOnly, ExtractOnly
  <2>2. \/ Raise(e)
        \/ /\ ext'[e].pc = "analyze" /\ ext'[e].want = ext[e].want
           /\ ext'[e].mem.delete = ext[e].mem.delete /\ ext'[e].mem.deleted = ext[e].mem.deleted
           /\ ext'[e].mem.ver = marker /\ marker # 0
    BY <1>t, <1>4 DEF ExtractPrepare, TypeOK, Runs, Receipts, Sized
  <2>3. Decides(e)'
    BY <1>k, <1>t, <2>1, <2>2, WantStays, DoneDecides DEF Decides, AtStep
  <2> QED
    BY <1>s, <2>1, <2>3
<1>5. CASE ExtractAnalyze(e)
  <2>1. UNCHANGED <<pcap, receipt, marker>> /\ ext[e].pc = "analyze"
    BY <1>5 DEF ExtractAnalyze, ReadOnly, ExtractOnly
  <2>2. \/ Raise(e)
        \/ /\ ext'[e].pc = "publish" /\ ext'[e].want = ext[e].want
           /\ ext'[e].mem.delete = ext[e].mem.delete /\ ext'[e].mem.deleted = ext[e].mem.deleted
           /\ ext'[e].mem.ver = ext[e].mem.ver
    BY <1>t, <1>5 DEF ExtractAnalyze, TypeOK, Runs, Receipts
  <2>3. Decides(e)'
    BY <1>k, <1>t, <2>1, <2>2, WantStays, DoneDecides DEF Decides, AtStep
  <2> QED
    BY <1>s, <2>1, <2>3
<1>6. CASE ExtractPublish(e)
  <2>1. pcap' = pcap /\ marker' = marker /\ ext[e].pc = "publish"
    BY <1>6 DEF ExtractPublish, ExtractOnly
  <2>2. SaveReceipt(e, ext[e].mem) \/ (Raise(e) /\ UNCHANGED receipt)
    BY <1>6 DEF ExtractPublish
  <2>3. CASE SaveReceipt(e, ext[e].mem)
    <3>1. /\ receipt' = ext[e].mem /\ ext'[e].pc = "retire" /\ ext'[e].mem = ext[e].mem
          /\ ext'[e].want = ext[e].want
      BY <1>t, <2>3, WantStays DEF SaveReceipt
    <3> QED
      BY <1>k, <2>1, <3>1 DEF Decides, AtStep, DeletedIsGone, GoodHasVersion
  <2>4. CASE Raise(e) /\ UNCHANGED receipt
    BY <1>s, <1>t, <2>1, <2>4, WantStays, DoneDecides
  <2> QED
    BY <2>2, <2>3, <2>4
<1>7. CASE ExtractRetire(e)
  <2> DEFINE remove == ext[e].mem.delete /\ pcap # Absent
             p == IF remove THEN "unlink" ELSE "finish"
  <2>1. UNCHANGED <<pcap, receipt, marker>> /\ ext[e].pc = "retire"
    BY <1>7 DEF ExtractRetire, ReadOnly, ExtractOnly
  <2>2. p \in ExtractPcs /\ (Step(e, p) \/ Raise(e))
    BY <1>7 DEF ExtractRetire, ExtractPcs
  <2>3. CASE Step(e, p)
    <3>1. ext'[e].pc = p /\ ext'[e].mem = ext[e].mem /\ ext'[e].want = ext[e].want
      BY <1>t, <2>2, <2>3, WantStays
    <3>2. Decides(e)'
      BY <1>k, <2>1, <3>1 DEF Decides, AtStep
    <3> QED
      BY <1>s, <2>1, <3>2
  <2>4. CASE Raise(e)
    BY <1>s, <1>t, <2>1, <2>4, WantStays, DoneDecides
  <2> QED
    BY <2>2, <2>3, <2>4
<1>8. CASE ExtractUnlink(e)
  <2>1. UNCHANGED <<receipt, marker>> /\ pcap' \in {pcap, Absent}
    BY <1>8 DEF ExtractUnlink, ExtractOnly
  <2>2. DeletedIsGone' /\ GoodHasVersion'
    BY <1>k, <2>1 DEF DeletedIsGone, GoodHasVersion
  <2>3. (pcap' = Absent /\ Step(e, "finish")) \/ Raise(e)
    BY <1>8 DEF ExtractUnlink
  <2>4. CASE pcap' = Absent /\ Step(e, "finish")
    <3>1. ext'[e].pc = "finish"
      BY <1>t, <2>4, WantStays DEF ExtractPcs
    <3>2. Absent' = Absent
      BY DEF Absent
    <3> QED
      BY <2>2, <2>4, <3>1, <3>2 DEF Decides, AtStep
  <2>5. CASE Raise(e)
    BY <1>t, <2>2, <2>5, WantStays, DoneDecides
  <2> QED
    BY <2>3, <2>4, <2>5
<1>9. CASE ExtractFinish(e)
  <2> DEFINE r == [ext[e].mem EXCEPT !.status = "succeeded", !.deleted = @ \/ ext[e].mem.delete]
  <2>1. /\ ext[e].pc = "finish" /\ pcap' = pcap /\ marker' = marker
        /\ receipt' \in {receipt, r}
    BY <1>9 DEF ExtractFinish, ExtractOnly
  <2>2. ext[e].mem = receipt /\ receipt.status \in Good
    BY <1>k, <2>1 DEF SavedKnows, AtStep
  <2>3. r.ver = receipt.ver /\ (r.deleted <=> receipt.deleted \/ receipt.delete)
    BY <1>t, <2>2 DEF TypeOK, Receipts
  <2>4. receipt.delete => pcap = Absent
    BY <1>k, <2>1, <2>2 DEF Decides, AtStep
  <2>q. Quit(e) \/ ext' = [ext EXCEPT ![e].pc = "fail", ![e].mem = r]
    BY <1>9 DEF ExtractFinish
  <2>5. ext'[e].pc \in {"idle", "fail"}
    <3>1. CASE Quit(e)
      BY <1>t, <3>1, WantStays
    <3>2. CASE ext' = [ext EXCEPT ![e].pc = "fail", ![e].mem = r]
      BY <1>t, <3>2 DEF TypeOK, Runs
    <3> QED
      BY <2>q, <3>1, <3>2
  <2> HIDE DEF r
  <2>6. DeletedIsGone' /\ GoodHasVersion'
    BY <1>k, <2>1, <2>2, <2>3, <2>4 DEF DeletedIsGone, GoodHasVersion
  <2> QED
    BY <2>5, <2>6, DoneDecides
<1>10. CASE ExtractFail(e)
  <2>1. pcap' = pcap /\ marker' = marker /\ receipt' \in {receipt, FailedReceipt} /\ Quit(e)
    BY <1>10 DEF ExtractFail, ExtractOnly
  <2>2. FailedReceipt.status \notin Good
    BY DEF FailedReceipt, NoReceipt, Good
  <2>3. DeletedIsGone' /\ GoodHasVersion'
    BY <1>k, <2>1, <2>2 DEF DeletedIsGone, GoodHasVersion
  <2> QED
    BY <1>t, <2>1, <2>3, WantStays, DoneDecides
<1>11. CASE ExtractKilled(e)
  <2>1. UNCHANGED <<pcap, receipt, marker>> /\ Quit(e)
    BY <1>11 DEF ExtractKilled, ReadOnly, ExtractOnly
  <2> QED
    BY <1>s, <1>t, <2>1, WantStays, DoneDecides
<1> QED
  BY <1>1, <1>2, <1>3, <1>4, <1>5, <1>6, <1>7, <1>8, <1>9, <1>10, <1>11 DEF ExtractNext

\* A capture is of a version no receipt is about, and damage leaves a PCAP.
LEMMA OthersDecide ==
    ASSUME IInv, Decided, CaptureNext \/ DamagePcap \/ DamageKeylog \/ DamageResults
    PROVE  Decided'
<1>t. TypeOK
  BY DEF IInv
<1>k. DeletedIsGone /\ GoodHasVersion
  BY DEF Decided
<1>u. UNCHANGED <<receipt, ext>>
  BY DEF CaptureNext, CaptureBegin, ClearKeylog, ClearPcap, ClearMarker, CaptureStart, CaptureStop,
         CaptureKeylog, MarkComplete, CaptureKilled, CaptureStep, DamagePcap, DamageKeylog,
         DamageResults, Damage
<1>1. GoodHasVersion'
  BY <1>k, <1>u DEF GoodHasVersion
<1>2. CASE CaptureNext
  <2>1. DeletedIsGone'
    <3>0. /\ cap \in {"start", "stop", "copy", "mark"} => marker = 0
          /\ cap # "idle" => receipt.ver < captures
          /\ receipt.ver \in Nat /\ captures \in Nat
      BY <1>t DEF IInv, CaptureReplaces, TypeOK, Receipts
    <3>1. CASE CaptureBegin \/ ClearKeylog \/ CaptureKeylog \/ CaptureKilled
      BY <1>k, <1>u, <3>1 DEF DeletedIsGone, CaptureBegin, ClearKeylog, CaptureKeylog, CaptureKilled
    <3>2. CASE ClearPcap
      BY <3>2 DEF DeletedIsGone, ClearPcap, Absent
    <3>3. CASE ClearMarker
      BY <1>k, <1>u, <3>3 DEF DeletedIsGone, GoodHasVersion, ClearMarker
    <3>4. CASE CaptureStart \/ CaptureStop
      BY <1>k, <1>u, <3>0, <3>4 DEF DeletedIsGone, GoodHasVersion, CaptureStart, CaptureStop
    <3>5. CASE MarkComplete
      BY <1>k, <1>u, <3>0, <3>5 DEF DeletedIsGone, MarkComplete
    <3> QED
      BY <1>2, <3>1, <3>2, <3>3, <3>4, <3>5 DEF CaptureNext
  <2>2. cap' # "idle" \/ cap # "idle"
    BY <1>2 DEF CaptureNext, CaptureBegin, ClearKeylog, ClearPcap, ClearMarker, CaptureStart,
                CaptureStop, CaptureKeylog, MarkComplete, CaptureKilled, CaptureStep
  <2>3. \A e \in Extractors : ext[e].pc = "idle"
    BY <1>2 DEF CaptureNext, CaptureBegin, Extracting, ClearKeylog, ClearPcap, ClearMarker,
                CaptureStart, CaptureStop, CaptureKeylog, MarkComplete, CaptureKilled,
                IInv, OneAtATime
  <2>4. \A e \in Extractors : Decides(e)'
    BY <1>u, <2>3, DoneDecides
  <2> QED
    BY <1>1, <2>1, <2>4 DEF Decided
<1>3. CASE DamagePcap \/ DamageKeylog \/ DamageResults
  <2>1. pcap' = pcap \/ (pcap # Absent /\ DamagePcap)
    BY <1>3 DEF DamagePcap, DamageKeylog, DamageResults
  <2>2. marker' = marker
    BY <1>3 DEF DamagePcap, DamageKeylog, DamageResults, Damage
  <2>3. DeletedIsGone'
    BY <1>k, <1>u, <2>1, <2>2 DEF DeletedIsGone
  <2>4. \A e \in Extractors : Decides(e)'
    BY <1>u, <2>1 DEF Decided, Decides, AtStep
  <2> QED
    BY <1>1, <2>3, <2>4 DEF Decided
<1> QED
  BY <1>2, <1>3

\* What is known of the deletion is kept by every step.
LEMMA DecidedNext == IInv /\ Decided /\ [Next]_vars => Decided'
<1> SUFFICES ASSUME IInv, Decided, [Next]_vars PROVE Decided'
  OBVIOUS
<1>1. CASE UNCHANGED vars
  BY <1>1 DEF vars, fileVars, boundVars, Decided, Decides, DeletedIsGone, GoodHasVersion, AtStep
<1>2. ASSUME NEW e \in Extractors, ExtractNext(e)
      PROVE  Decided'
  <2>1. Decides(e)' /\ DeletedIsGone' /\ GoodHasVersion'
    BY <1>2, ExtractDecides
  <2>2. ASSUME NEW f \in Extractors, f # e
        PROVE  ext'[f].pc = "idle"
    <3>1. ext[e].pc # "idle" \/ lock = NoExtractor
      BY <1>2 DEF ExtractNext, ExtractBegin, ExtractRead, ExtractRequest, ExtractPrepare, ExtractAnalyze,
                  ExtractPublish, ExtractRetire, ExtractUnlink, ExtractFinish, ExtractFail, ExtractKilled
    <3>2. ext[f].pc = "idle"
      BY <2>2, <3>1, ExtractAssumption DEF IInv, OneAtATime
    <3>3. ext'[f] = ext[f]
      BY <1>2, <2>2 DEF IInv, TypeOK, ExtractNext, ExtractBegin, ExtractRead, ExtractRequest,
             ExtractPrepare, ExtractAnalyze, ExtractPublish, ExtractRetire, ExtractUnlink,
             ExtractFinish, ExtractFail, ExtractKilled, Raise, Step, Quit, SaveReceipt
    <3> QED
      BY <3>2, <3>3
  <2>3. \A f \in Extractors : Decides(f)'
    BY <2>1, <2>2, DoneDecides
  <2> QED
    BY <2>1, <2>3 DEF Decided
<1> QED
  BY <1>1, <1>2, OthersDecide DEF Next

\* Initially nobody has decided anything.
LEMMA DecidedInit == Init => Decided
BY DEF Init, Decided, Decides, DeletedIsGone, GoodHasVersion, AtStep, NoRun, NoReceipt, Good

\* A receipt that says its PCAP was deleted is right, whatever failed or was
\* killed on the way.
THEOREM DeletedPcapsAreGone == Spec => []DeletedIsGone
<1>1. Decided => DeletedIsGone
  BY DEF Decided
<1> QED
  BY <1>1, InvariantHolds, DecidedInit, DecidedNext, PTL DEF Spec

\* No run deletes the PCAP unless it was itself asked to, whatever an earlier
\* run has left in the receipt.
THEOREM KeepsAreHonoured == Spec => KeepIsHonoured
<1> DEFINE A == \A e \in Extractors : ext[e].pc = "unlink" /\ pcap' # pcap => ext[e].want
<1>1. Decided => A
  BY DEF Decided, Decides, AtStep
<1>2. Spec => [](IInv /\ Decided)
  BY InvariantHolds, DecidedInit, DecidedNext, PTL DEF Spec
<1> QED
  BY <1>1, <1>2, PTL DEF KeepIsHonoured

-----------------------------------------------------------------------------
(* NetworkIdle                                                             *)

\* The types.
IdleAnswers == {"none", "ok", "bad"}
Hops == {0, 1}
IdleTimes == Never .. MaxTime
IdleLoaders == {"none", "first", "second"}
EventKinds == {"start", "finish", "fail", "attach", "detach", "ok", "bad"}
IdleEvents == [kind : EventKinds, r : Requests, hop : Hops, stamp : Nat, time : 0 .. MaxTime]
Happenings == [kind : EventKinds, r : Requests, hop : Hops]
MainDocuments == [r : Documents, hop : Hops, stamp : Nat]
Books ==
    [ledger : [Requests -> States], status : [Documents -> IdleAnswers],
     finishedAt : [Requests -> IdleTimes], seen : SUBSET (Requests \X Hops),
     main : IdleLoaders, initial : IdleLoaders, frame : BOOLEAN,
     navigation : Nat \cup {Never}, last : IdleTimes, documents : Seq(MainDocuments),
     target : Seq(MainDocuments), completedAt : IdleTimes]

BrowserTyped ==
    /\ now \in 0 .. MaxTime /\ active \in 0 .. MaxTime /\ page \in Pages
    /\ truth \in [Requests -> {"no", "run", "done", "failed", "gone"}]
    /\ answer \in [Documents -> IdleAnswers]
    /\ hops \in [Documents -> Hops]
    /\ loader \in IdleLoaders
    /\ iframe \in {"no", "there", "removed"}
    /\ stamp \in Nat

SessionTyped ==
    /\ pc \in {"navigate", "log", "cdp", "read", "loaded", "failed", "timeout"}
    /\ due \in 0 .. Len(log)
    /\ reason \in {"none", "network_idle", "resource_stall", "resource_timeout"}
    /\ waits \in 0 .. Waits
    /\ book \in Books

\* The browser: what must have happened for a request to have started, a
\* document to be committed, a frame to be attached.
Happened(r, h) == IF h = 0 THEN truth[r] # "no" ELSE r \in Documents /\ hops[r] = 1

BrowserTrue ==
    /\ \A d \in Documents : answer[d] # "none" \/ hops[d] = 1 => truth[d] # "no"
    /\ \A r \in Requests \ {"doc", "old"} : truth[r] # "no" => answer["doc"] # "none"
    /\ "img2" \in Requests /\ truth["img2"] # "no" => loader = "second"
    /\ "sub" \in Requests /\ truth["sub"] # "no" => iframe # "no"
    /\ loader # "none" => answer["doc"] # "none"
    /\ loader = "second" => "doc2" \in Documents /\ answer["doc2"] # "none"
    /\ iframe # "no" => loader # "none" /\ "sub" \in Requests

\* An event that tells the end of a request; one that never comes after another
\* in a stream; one that is true of the browser.
Ends(x, r) == x.r = r /\ x.kind \in {"finish", "fail", "detach"}

TooLate(x, y) ==
    \/ y.stamp <= x.stamp
    \/ /\ y.kind = "start"
       /\ \/ Ends(x, y.r)
          \/ y.r = "old"
          \/ y.r = "doc" /\ x.kind = "start" /\ x.r \notin {"doc", "old"}
          \/ y.r = "doc2" /\ x.kind = "start" /\ x.r = "img2"
    \/ y.kind = "attach" /\ x.kind = "start" /\ x.r = "sub"

Real(x) ==
    /\ x.stamp <= stamp
    /\ x.kind = "start" => Happened(x.r, x.hop)
    /\ x.kind \in {"finish", "fail"} => Over(x.r)
    /\ x.kind = "attach" => x.r = "sub"
    /\ x.kind = "detach" => x.r = "sub" /\ iframe = "removed"
    /\ x.kind \in {"ok", "bad"} => x.r \in Documents

\* The streams.
Told(s) == {s[i] : i \in 1 .. Len(s)}
InOrder(s) == \A i, j \in 1 .. Len(s) : i < j => ~TooLate(s[i], s[j])
IsStart(x, r, h) == x.kind = "start" /\ x.r = r /\ x.hop = h

StreamTrue(s) ==
    /\ s \in Seq(IdleEvents)
    /\ InOrder(s)
    /\ \A x \in Told(s) : Real(x)

\* A start that entering would change nothing for, or never make pending.
DocSeen == \A h \in Hops : Happened("doc", h) => <<"doc", h>> \in book.seen
Known(r, h) ==
    \/ r = "feed"
    \/ <<r, h>> \in book.seen
    \/ r = "img" /\ book.main = "second" /\ DocSeen

\* Of what happened each stream has told, or still tells: of the starts, of the
\* iframe, and, the connection of the policy, of the ends.
NothingMissed(s) ==
    /\ \A r \in Requests, h \in Hops :
          Happened(r, h) => Known(r, h) \/ \E x \in Told(s) : IsStart(x, r, h)
    /\ iframe = "there" \/ (<<"sub", 0>> \notin book.seen /\ \E x \in Told(s) : IsStart(x, "sub", 0)) =>
          book.frame \/ \E x \in Told(s) : x.kind = "attach"

EndsTold ==
    \A r \in Requests : Over(r) /\ (\E x \in Told(cdp) : x.kind = "start" /\ x.r = r) =>
        \E x \in Told(cdp) : Ends(x, r)

\* The book of the session.
BookBegun ==
    /\ pc = "navigate" => book = EmptyBook
    /\ pc # "navigate" =>
          /\ loader # "none"
          /\ book.main \in {"first", "second"}
          /\ book.initial \in {"first", "second"}
          /\ book.initial = "first" => truth["doc"] # "no"
          /\ book.initial = "second" => "doc2" \in Documents /\ truth["doc2"] # "no"
    /\ book.navigation = Never =>
          /\ pc \in {"navigate", "log", "cdp"}
          /\ log = cdp
          /\ book.ledger = [r \in Requests |-> "unseen"]
          /\ book.seen = {} /\ book.documents = <<>>

BookAhead ==
    book.navigation # Never =>
        /\ book.navigation <= stamp
        /\ \A x \in Told(log) \cup Told(cdp) : x.kind = "start" =>
              /\ x.r = "old" => x.stamp < book.navigation
              /\ x.r = "doc2" => x.stamp >= book.navigation

SecondSeen ==
    \A h \in Hops : <<"doc2", h>> \in book.seen => book.main = "second" /\ DocSeen

OldLeftOut == "old" \in Requests => book.ledger["old"] \in {"unseen", "prior"}

PendingTold ==
    \A r \in Requests : book.ledger[r] = "pending" /\ Over(r) =>
        \E x \in Told(cdp) : Ends(x, r)

IdleInv ==
    /\ BrowserTyped /\ SessionTyped /\ BrowserTrue
    /\ StreamTrue(log) /\ StreamTrue(cdp)
    /\ NothingMissed(log) /\ NothingMissed(cdp) /\ EndsTold
    /\ BookBegun /\ BookAhead /\ SecondSeen /\ OldLeftOut /\ PendingTold
-----------------------------------------------------------------------------
LEMMA IdleConstants ==
    /\ "doc" \in Requests /\ "doc" \in Documents /\ Documents \subseteq Requests
    /\ MaxTime \in Nat /\ Waits \in Nat \ {0} /\ Never \notin Nat
    /\ \A d \in Documents : d = "doc" \/ d = "doc2"
BY NetworkIdleAssumption DEF Documents, Never

\* A set of numbers has a least one.
LEMMA LeastOfNumbers ==
    ASSUME NEW T, T \subseteq Nat, T # {}
    PROVE  \E n \in T : \A m \in T : n <= m
<1>1. PICK n \in T : \A m \in T : ~(<<m, n>> \in OpToRel(<, Nat))
  BY NatLessThanWellFounded, WFMin
<1>2. \A m \in T : ~(m < n)
  BY <1>1 DEF OpToRel
<1>3. QED
  BY <1>2

\* What a stream loses with its first event, and gets with new ones.
LEMMA StreamTail ==
    ASSUME NEW s \in Seq(IdleEvents), s # <<>>
    PROVE  /\ Head(s) \in IdleEvents /\ Tail(s) \in Seq(IdleEvents)
           /\ Len(Tail(s)) = Len(s) - 1
           /\ Told(s) = {Head(s)} \cup Told(Tail(s))
           /\ InOrder(s) => /\ InOrder(Tail(s))
                            /\ \A y \in Told(Tail(s)) : ~TooLate(Head(s), y)
<1>1. /\ Head(s) = s[1] /\ Len(s) \in Nat \ {0}
      /\ Head(s) \in IdleEvents /\ Tail(s) \in Seq(IdleEvents)
      /\ Len(Tail(s)) = Len(s) - 1
      /\ \A i \in 1 .. Len(Tail(s)) : Tail(s)[i] = s[i + 1]
  OBVIOUS
<1>2. Told(s) = {Head(s)} \cup Told(Tail(s))
  <2>1. ASSUME NEW i \in 1 .. Len(s)
        PROVE  s[i] \in {Head(s)} \cup Told(Tail(s))
    <3>1. CASE i = 1
      BY <1>1, <3>1
    <3>2. CASE i # 1
      <4>1. i - 1 \in 1 .. Len(Tail(s)) /\ Tail(s)[i - 1] = s[i]
        BY <1>1, <3>2
      <4>2. QED
        BY <4>1 DEF Told
    <3>3. QED
      BY <3>1, <3>2
  <2>2. Told(Tail(s)) \subseteq Told(s)
    BY <1>1 DEF Told
  <2>3. Head(s) \in Told(s)
    BY <1>1 DEF Told
  <2>4. QED
    BY <2>1, <2>2, <2>3 DEF Told
<1>3. ASSUME InOrder(s)
      PROVE  InOrder(Tail(s)) /\ \A y \in Told(Tail(s)) : ~TooLate(Head(s), y)
  <2>1. \A i, j \in 1 .. Len(Tail(s)) : i < j => ~TooLate(Tail(s)[i], Tail(s)[j])
    BY <1>1, <1>3 DEF InOrder
  <2>2. \A j \in 1 .. Len(Tail(s)) : ~TooLate(s[1], Tail(s)[j])
    BY <1>1, <1>3 DEF InOrder
  <2>3. QED
    BY <1>1, <2>1, <2>2 DEF InOrder, Told
<1>4. QED
  BY <1>1, <1>2, <1>3

LEMMA ToldConcat ==
    ASSUME NEW S, NEW s \in Seq(S), NEW t \in Seq(S)
    PROVE  /\ s \o t \in Seq(S) /\ Len(s) \in Nat /\ Len(t) \in Nat
           /\ Len(s \o t) = Len(s) + Len(t)
           /\ \A i \in 1 .. Len(s) : (s \o t)[i] = s[i]
           /\ \A i \in 1 .. Len(t) : (s \o t)[Len(s) + i] = t[i]
           /\ \A i \in 1 .. Len(s \o t) :
                 \/ i \in 1 .. Len(s) /\ (s \o t)[i] = s[i]
                 \/ i > Len(s) /\ i - Len(s) \in 1 .. Len(t) /\ (s \o t)[i] = t[i - Len(s)]
           /\ Told(s \o t) = Told(s) \cup Told(t)
<1>1. /\ s \o t \in Seq(S) /\ Len(s) \in Nat /\ Len(t) \in Nat
      /\ Len(s \o t) = Len(s) + Len(t)
      /\ \A i \in 1 .. Len(s) : (s \o t)[i] = s[i]
      /\ \A i \in 1 .. Len(t) : (s \o t)[Len(s) + i] = t[i]
  OBVIOUS
<1>2. \A i \in 1 .. Len(s \o t) :
         \/ i \in 1 .. Len(s) /\ (s \o t)[i] = s[i]
         \/ i > Len(s) /\ i - Len(s) \in 1 .. Len(t) /\ (s \o t)[i] = t[i - Len(s)]
  BY <1>1
<1>3. Told(s \o t) = Told(s) \cup Told(t)
  <2>1. Told(s \o t) \subseteq Told(s) \cup Told(t)
    BY <1>2 DEF Told
  <2>2. Told(s) \subseteq Told(s \o t)
    BY <1>1 DEF Told
  <2>3. ASSUME NEW i \in 1 .. Len(t)
        PROVE  t[i] \in Told(s \o t)
    <3>1. Len(s) + i \in 1 .. Len(s \o t) /\ (s \o t)[Len(s) + i] = t[i]
      BY <1>1
    <3>2. QED
      BY <3>1 DEF Told
  <2>4. QED
    BY <2>1, <2>2, <2>3 DEF Told
<1>4. QED
  BY <1>1, <1>2, <1>3

LEMMA StreamGrows ==
    ASSUME NEW s \in Seq(IdleEvents), NEW t \in Seq(IdleEvents)
    PROVE  /\ s \o t \in Seq(IdleEvents)
           /\ Len(s \o t) = Len(s) + Len(t)
           /\ Told(s \o t) = Told(s) \cup Told(t)
           /\ /\ InOrder(s) /\ InOrder(t)
              /\ \A x \in Told(s), y \in Told(t) : ~TooLate(x, y)
              => InOrder(s \o t)
<1>1. /\ s \o t \in Seq(IdleEvents) /\ Len(s) \in Nat /\ Len(t) \in Nat
      /\ Len(s \o t) = Len(s) + Len(t)
      /\ \A i \in 1 .. Len(s) : (s \o t)[i] = s[i]
      /\ \A i \in 1 .. Len(t) : (s \o t)[Len(s) + i] = t[i]
      /\ \A i \in 1 .. Len(s \o t) :
            \/ i \in 1 .. Len(s) /\ (s \o t)[i] = s[i]
            \/ i > Len(s) /\ i - Len(s) \in 1 .. Len(t) /\ (s \o t)[i] = t[i - Len(s)]
      /\ Told(s \o t) = Told(s) \cup Told(t)
  BY ToldConcat
<1>4. ASSUME InOrder(s), InOrder(t),
             \A x \in Told(s), y \in Told(t) : ~TooLate(x, y)
      PROVE  InOrder(s \o t)
  <2>1. SUFFICES ASSUME NEW i \in 1 .. Len(s \o t), NEW j \in 1 .. Len(s \o t), i < j
                 PROVE  ~TooLate((s \o t)[i], (s \o t)[j])
    BY DEF InOrder
  <2>2. CASE j \in 1 .. Len(s)
    <3>1. i \in 1 .. Len(s) /\ (s \o t)[i] = s[i] /\ (s \o t)[j] = s[j]
      BY <1>1, <2>1, <2>2
    <3>2. QED
      BY <1>4, <2>1, <2>2, <3>1 DEF InOrder
  <2>3. CASE i \notin 1 .. Len(s)
    <3>1. /\ i - Len(s) \in 1 .. Len(t) /\ (s \o t)[i] = t[i - Len(s)]
          /\ j - Len(s) \in 1 .. Len(t) /\ (s \o t)[j] = t[j - Len(s)]
          /\ i - Len(s) < j - Len(s)
      BY <1>1, <2>1, <2>3
    <3>2. QED
      BY <1>4, <3>1 DEF InOrder
  <2>4. CASE i \in 1 .. Len(s) /\ j \notin 1 .. Len(s)
    <3>1. (s \o t)[i] \in Told(s) /\ (s \o t)[j] \in Told(t)
      BY <1>1, <2>4 DEF Told
    <3>2. QED
      BY <1>4, <3>1
  <2>5. QED
    BY <2>2, <2>3, <2>4
<1>5. QED
  BY <1>1, <1>4
-----------------------------------------------------------------------------
\* What an action of the browser does: new events, at the end of both streams.
EmitsNew(t) ==
    /\ t \in Seq(IdleEvents)
    /\ log' = log \o t /\ cdp' = cdp \o t
    /\ stamp' \in Nat /\ stamp <= stamp'
    /\ \A y \in Told(t) : stamp < y.stamp /\ y.stamp <= stamp'
    /\ InOrder(t)

GrowsBy(t) ==
    /\ EmitsNew(t)
    /\ UNCHANGED <<now, page, sessionVars>>
    /\ \A y \in Told(t) : Real(y)' /\ (y.kind = "start" => y.r # "old" /\ ~Over(y.r))
    /\ \A x \in Told(log) \cup Told(cdp), y \in Told(t) : ~TooLate(x, y)
    /\ \A r \in Requests, h \in Hops :
          /\ Happened(r, h) => Happened(r, h)'
          /\ Happened(r, h)' => Happened(r, h) \/ \E y \in Told(t) : IsStart(y, r, h)
    /\ \A r \in Requests :
          /\ Over(r) => Over(r)'
          /\ Over(r)' => Over(r) \/ \E y \in Told(t) : Ends(y, r)
    /\ iframe = "removed" => iframe' = "removed"
    /\ iframe' = "there" => iframe = "there" \/ \E y \in Told(t) : y.kind = "attach"
    /\ (\E y \in Told(t) : IsStart(y, "sub", 0)) => iframe = "there"
    /\ pc # "navigate" =>
          loader' # "none" /\ \A h \in Hops : Happened("doc", h)' => Happened("doc", h)

LEMMA GrowsStreamTrue ==
    ASSUME NEW t, GrowsBy(t), NEW s \in Seq(IdleEvents), StreamTrue(s),
           \A x \in Told(s), y \in Told(t) : ~TooLate(x, y), stamp \in Nat
    PROVE  /\ s \o t \in Seq(IdleEvents) /\ InOrder(s \o t)
           /\ \A x \in Told(s \o t) : Real(x)'
<1>1. s \o t \in Seq(IdleEvents) /\ InOrder(s \o t) /\ Told(s \o t) = Told(s) \cup Told(t)
  BY StreamGrows DEF GrowsBy, EmitsNew, StreamTrue
<1>2. ASSUME NEW x \in Told(s)
      PROVE  Real(x)'
  <2>1. x \in IdleEvents /\ Real(x)
    BY DEF Told, StreamTrue
  <2>2. x.r \in Requests /\ x.hop \in Hops /\ x.stamp \in Nat
    BY <2>1 DEF IdleEvents
  <2>3. x.stamp <= stamp'
    BY <2>1, <2>2 DEF Real, GrowsBy, EmitsNew
  <2>4. QED
    BY <2>1, <2>2, <2>3 DEF Real, GrowsBy
<1>3. \A y \in Told(t) : Real(y)'
  BY DEF GrowsBy
<1>4. \A x \in Told(s \o t) : Real(x)'
  BY <1>1, <1>2, <1>3
<1>5. QED
  BY <1>1, <1>4

LEMMA GrowsNothingMissed ==
    ASSUME NEW t, GrowsBy(t), NEW s \in Seq(IdleEvents), NothingMissed(s), BookBegun
    PROVE  /\ \A r \in Requests, h \in Hops : Happened(r, h)' =>
                 Known(r, h)' \/ \E x \in Told(s \o t) : IsStart(x, r, h)
           /\ \/ iframe' = "there"
              \/ /\ <<"sub", 0>> \notin book'.seen
                 /\ \E x \in Told(s \o t) : IsStart(x, "sub", 0)
              => book'.frame \/ \E x \in Told(s \o t) : x.kind = "attach"
<1>1. Told(s \o t) = Told(s) \cup Told(t)
  BY StreamGrows DEF GrowsBy, EmitsNew
<1>2. book' = book
  BY DEF GrowsBy, sessionVars
<1>3. ASSUME NEW r \in Requests, NEW h \in Hops, Known(r, h)
      PROVE  Known(r, h)'
  <2>1. CASE r = "img" /\ book.main = "second" /\ DocSeen
    <3>1. pc # "navigate"
      BY <2>1 DEF BookBegun, EmptyBook
    <3>2. QED
      BY <1>2, <2>1, <3>1 DEF GrowsBy, Known, DocSeen
  <2>2. QED
    BY <1>2, <1>3, <2>1 DEF Known
<1>4. ASSUME NEW r \in Requests, NEW h \in Hops, Happened(r, h)'
      PROVE  Known(r, h)' \/ \E x \in Told(s \o t) : IsStart(x, r, h)
  <2>1. CASE Happened(r, h)
    BY <1>1, <1>3, <2>1 DEF NothingMissed
  <2>2. CASE ~Happened(r, h)
    BY <1>1, <1>4, <2>2 DEF GrowsBy
  <2>3. QED
    BY <2>1, <2>2
<1>5. ASSUME \/ iframe' = "there"
             \/ <<"sub", 0>> \notin book'.seen /\ \E x \in Told(s \o t) : IsStart(x, "sub", 0)
      PROVE  book'.frame \/ \E x \in Told(s \o t) : x.kind = "attach"
  <2>1. CASE iframe = "there"
    BY <1>1, <1>2, <2>1 DEF NothingMissed
  <2>2. CASE iframe # "there" /\ iframe' = "there"
    BY <1>1, <2>2 DEF GrowsBy
  <2>3. CASE /\ <<"sub", 0>> \notin book'.seen
             /\ \E x \in Told(s \o t) : IsStart(x, "sub", 0)
    <3>1. CASE \E x \in Told(s) : IsStart(x, "sub", 0)
      BY <1>1, <1>2, <2>3, <3>1 DEF NothingMissed
    <3>2. CASE \E x \in Told(t) : IsStart(x, "sub", 0)
      BY <2>1, <3>2 DEF GrowsBy
    <3>3. QED
      BY <1>1, <2>3, <3>1, <3>2
  <2>4. QED
    BY <1>5, <2>1, <2>2, <2>3
<1>6. QED
  BY <1>4, <1>5

LEMMA GrowsEndsTold ==
    ASSUME NEW t, GrowsBy(t), cdp \in Seq(IdleEvents), EndsTold
    PROVE  EndsTold'
<1>1. Told(cdp') = Told(cdp) \cup Told(t)
  BY StreamGrows DEF GrowsBy, EmitsNew
<1>2. ASSUME NEW r \in Requests, Over(r)', NEW x \in Told(cdp'), x.kind = "start", x.r = r
      PROVE  \E y \in Told(cdp') : Ends(y, r)
  <2>1. CASE ~Over(r)
    BY <1>1, <1>2, <2>1 DEF GrowsBy
  <2>2. CASE Over(r)
    <3>1. x \in Told(cdp)
      BY <1>1, <1>2, <2>2 DEF GrowsBy
    <3>2. QED
      BY <1>1, <1>2, <2>2, <3>1 DEF EndsTold
  <2>3. QED
    BY <2>1, <2>2
<1>3. QED
  BY <1>2 DEF EndsTold, Told, Ends

LEMMA GrowsBook ==
    ASSUME NEW t, GrowsBy(t), log \in Seq(IdleEvents), cdp \in Seq(IdleEvents),
           stamp \in Nat, book \in Books,
           BookBegun, BookAhead, SecondSeen, OldLeftOut, PendingTold
    PROVE  BookBegun' /\ BookAhead' /\ SecondSeen' /\ OldLeftOut' /\ PendingTold'
<1>1. /\ Told(cdp') = Told(cdp) \cup Told(t)
      /\ Told(log') = Told(log) \cup Told(t)
  BY StreamGrows DEF GrowsBy, EmitsNew
<1>2. book' = book /\ pc' = pc
  BY DEF GrowsBy, sessionVars
<1>3. BookBegun'
  <2>1. \A r \in Requests : truth[r] # "no" => truth'[r] # "no"
    BY DEF GrowsBy, Happened, Hops
  <2>2. book.navigation = Never => log' = cdp'
    BY DEF BookBegun, GrowsBy, EmitsNew
  <2>3. pc # "navigate" => loader' # "none"
    BY DEF GrowsBy
  <2>4. QED
    BY <1>2, <2>1, <2>2, <2>3, IdleConstants DEF BookBegun
<1>4. BookAhead'
  <2>1. SUFFICES ASSUME book.navigation # Never
                 PROVE  /\ book.navigation <= stamp'
                        /\ \A x \in Told(log') \cup Told(cdp') : x.kind = "start" =>
                             /\ x.r = "old" => x.stamp < book.navigation
                             /\ x.r = "doc2" => x.stamp >= book.navigation
    BY <1>2 DEF BookAhead, Told
  <2>2. book.navigation \in Nat /\ book.navigation <= stamp /\ stamp <= stamp' /\ stamp' \in Nat
    BY <2>1 DEF BookAhead, Books, GrowsBy, EmitsNew
  <2>3. ASSUME NEW x \in Told(t), x.kind = "start"
        PROVE  x.r # "old" /\ x.stamp >= book.navigation
    <3>1. x \in IdleEvents /\ stamp < x.stamp /\ x.r # "old"
      BY <2>3 DEF GrowsBy, EmitsNew, Told
    <3>2. x.stamp \in Nat
      BY <3>1 DEF IdleEvents
    <3>3. QED
      BY <2>2, <3>1, <3>2
  <2>4. QED
    BY <1>1, <2>1, <2>2, <2>3 DEF BookAhead
<1>5. SecondSeen'
  <2>1. ASSUME NEW h \in Hops, <<"doc2", h>> \in book.seen
        PROVE  book.main = "second" /\ DocSeen'
    <3>1. pc # "navigate"
      BY <2>1 DEF BookBegun, EmptyBook
    <3>2. QED
      BY <1>2, <2>1, <3>1 DEF SecondSeen, DocSeen, GrowsBy
  <2>2. QED
    BY <1>2, <2>1 DEF SecondSeen
<1>6. OldLeftOut'
  BY <1>2 DEF OldLeftOut
<1>7. PendingTold'
  <2>1. ASSUME NEW r \in Requests, book.ledger[r] = "pending", Over(r)'
        PROVE  \E x \in Told(cdp') : Ends(x, r)
    BY <1>1, <2>1 DEF PendingTold, GrowsBy
  <2>2. QED
    BY <1>2, <2>1 DEF PendingTold, Ends, Told
<1>8. QED
  BY <1>3, <1>4, <1>5, <1>6, <1>7

\* So what an action of the browser has to show is that it grows the streams,
\* and stays true.
LEMMA GrowsKeeps ==
    ASSUME IdleInv, NEW t, GrowsBy(t), BrowserTyped', BrowserTrue'
    PROVE  IdleInv'
<1>1. log \in Seq(IdleEvents) /\ cdp \in Seq(IdleEvents) /\ stamp \in Nat /\ book \in Books
  BY DEF IdleInv, StreamTrue, BrowserTyped, SessionTyped
<1>2. StreamTrue(log)'
  <2>1. /\ log' \in Seq(IdleEvents) /\ InOrder(log') /\ \A x \in Told(log') : Real(x)'
    BY <1>1, GrowsStreamTrue DEF IdleInv, GrowsBy, EmitsNew
  <2>2. QED
    BY <2>1 DEF StreamTrue, Told, InOrder
<1>3. StreamTrue(cdp)'
  <2>1. /\ cdp' \in Seq(IdleEvents) /\ InOrder(cdp') /\ \A x \in Told(cdp') : Real(x)'
    BY <1>1, GrowsStreamTrue DEF IdleInv, GrowsBy, EmitsNew
  <2>2. QED
    BY <2>1 DEF StreamTrue, Told, InOrder
<1>8. NothingMissed(log)'
  <2>1. /\ \A r \in Requests, h \in Hops : Happened(r, h)' =>
              Known(r, h)' \/ \E x \in Told(log') : IsStart(x, r, h)
        /\ \/ iframe' = "there"
           \/ /\ <<"sub", 0>> \notin book'.seen
              /\ \E x \in Told(log') : IsStart(x, "sub", 0)
           => book'.frame \/ \E x \in Told(log') : x.kind = "attach"
    <3>1. log' = log \o t
      BY DEF GrowsBy, EmitsNew
    <3>2. NothingMissed(log) /\ BookBegun
      BY DEF IdleInv
    <3>3. QED
      BY <1>1, <3>1, <3>2, GrowsNothingMissed
  <2>2. QED
    BY <2>1 DEF NothingMissed, Told, IsStart
<1>9. NothingMissed(cdp)'
  <2>1. /\ \A r \in Requests, h \in Hops : Happened(r, h)' =>
              Known(r, h)' \/ \E x \in Told(cdp') : IsStart(x, r, h)
        /\ \/ iframe' = "there"
           \/ /\ <<"sub", 0>> \notin book'.seen
              /\ \E x \in Told(cdp') : IsStart(x, "sub", 0)
           => book'.frame \/ \E x \in Told(cdp') : x.kind = "attach"
    <3>1. cdp' = cdp \o t
      BY DEF GrowsBy, EmitsNew
    <3>2. NothingMissed(cdp) /\ BookBegun
      BY DEF IdleInv
    <3>3. QED
      BY <1>1, <3>1, <3>2, GrowsNothingMissed
  <2>2. QED
    BY <2>1 DEF NothingMissed, Told, IsStart
<1>4. SessionTyped'
  <2>1. Len(log') = Len(log) + Len(t) /\ Len(t) \in Nat /\ Len(log) \in Nat
    BY <1>1, StreamGrows DEF GrowsBy, EmitsNew
  <2>2. due \in 0 .. Len(log')
    BY <2>1 DEF IdleInv, SessionTyped
  <2>3. QED
    BY <2>2 DEF IdleInv, SessionTyped, GrowsBy, sessionVars
<1>5. EndsTold'
  BY <1>1, GrowsEndsTold DEF IdleInv
<1>6. BookBegun' /\ BookAhead' /\ SecondSeen' /\ OldLeftOut' /\ PendingTold'
  BY <1>1, GrowsBook DEF IdleInv
<1>7. QED
  BY <1>2, <1>3, <1>4, <1>5, <1>6, <1>8, <1>9 DEF IdleInv
-----------------------------------------------------------------------------
(* The browser                                                             *)

\* What Emit puts at the end of the streams.
LEMMA EmitNew ==
    ASSUME IdleInv, NEW busy,
           NEW events \in Seq(Happenings),
           \A i \in 1 .. Len(events) : i > 1 => events[i].kind \notin {"start", "attach"},
           Emit(events, busy)
    PROVE  /\ active' \in 0 .. MaxTime /\ stamp' \in Nat
           /\ \E t : /\ EmitsNew(t) /\ Len(t) = Len(events)
                     /\ \A i \in 1 .. Len(t) : /\ t[i].kind = events[i].kind
                                               /\ t[i].r = events[i].r
                                               /\ t[i].hop = events[i].hop
                                               /\ t[i].time = now
                     /\ \A x \in Told(log) \cup Told(cdp), y \in Told(t) :
                           x.stamp \in Nat /\ x.stamp < y.stamp
<1> DEFINE n == Len(events)
           t == [i \in 1 .. Len(events) |->
                   [kind |-> events[i].kind, r |-> events[i].r, hop |-> events[i].hop,
                    stamp |-> stamp + i, time |-> now]]
<1>1. /\ n \in Nat /\ stamp \in Nat /\ now \in 0 .. MaxTime /\ active \in 0 .. MaxTime
      /\ \A i \in 1 .. n : events[i] \in Happenings
  <2>1. stamp \in Nat /\ now \in 0 .. MaxTime /\ active \in 0 .. MaxTime
    BY DEF IdleInv, BrowserTyped
  <2>2. n \in Nat /\ \A i \in 1 .. n : events[i] \in Happenings
    OBVIOUS
  <2>3. QED
    BY <2>1, <2>2
<1>2. /\ log' = log \o t /\ cdp' = cdp \o t /\ stamp' = stamp + n
      /\ active' = IF busy THEN now ELSE active
  BY DEF Emit
<1>3. \A i \in 1 .. n : /\ t[i] \in IdleEvents /\ t[i].stamp = stamp + i
                        /\ t[i].kind = events[i].kind /\ t[i].r = events[i].r
                        /\ t[i].hop = events[i].hop /\ t[i].time = now
  BY <1>1 DEF IdleEvents, Happenings
<1>4. t \in Seq(IdleEvents) /\ Len(t) = n
  <2>1. t \in [1 .. n -> IdleEvents] /\ n \in Nat
    BY <1>1, <1>3
  <2> HIDE DEF t, n
  <2>2. QED
    BY <2>1
<1> HIDE DEF n, t
<1>5. InOrder(t)
  <2>1. ASSUME NEW i \in 1 .. n, NEW j \in 1 .. n, i < j
        PROVE  ~TooLate(t[i], t[j])
    <3>1. t[j].kind \notin {"start", "attach"} /\ t[i].stamp < t[j].stamp
      BY <1>1, <1>3, <2>1 DEF n
    <3>2. t[i].stamp \in Nat /\ t[j].stamp \in Nat
      BY <1>1, <1>3
    <3>3. QED
      BY <3>1, <3>2 DEF TooLate
  <2>2. QED
    BY <1>4, <2>1 DEF InOrder
<1>6. \A y \in Told(t) : stamp < y.stamp /\ y.stamp <= stamp' /\ y.stamp \in Nat
  <2>1. \A i \in 1 .. n : stamp < t[i].stamp /\ t[i].stamp <= stamp' /\ t[i].stamp \in Nat
    <3>1. stamp' = stamp + n /\ n \in Nat /\ stamp \in Nat
      BY <1>1, <1>2
    <3>2. \A i \in 1 .. n : t[i].stamp = stamp + i
      BY <1>3
    <3>3. QED
      BY <3>1, <3>2
  <2>2. QED
    BY <1>4, <2>1 DEF Told
<1>7. EmitsNew(t)
  BY <1>1, <1>2, <1>4, <1>5, <1>6 DEF EmitsNew
<1>8. \A x \in Told(log) \cup Told(cdp) : x.stamp \in Nat /\ x.stamp <= stamp
  <2>1. ASSUME NEW s \in Seq(IdleEvents), \A x \in Told(s) : Real(x)
        PROVE  \A x \in Told(s) : x.stamp \in Nat /\ x.stamp <= stamp
    <3>1. \A x \in Told(s) : x \in IdleEvents
      BY DEF Told
    <3>2. \A x \in IdleEvents : x.stamp \in Nat
      BY DEF IdleEvents
    <3>3. QED
      BY <2>1, <3>1, <3>2 DEF Real
  <2>2. QED
    BY <2>1 DEF IdleInv, StreamTrue
<1>9. \A x \in Told(log) \cup Told(cdp), y \in Told(t) : x.stamp < y.stamp
  <2>1. SUFFICES ASSUME NEW x \in Told(log) \cup Told(cdp), NEW y \in Told(t)
                 PROVE  x.stamp < y.stamp
    OBVIOUS
  <2>2. QED
    BY <1>1, <1>6, <1>8
<1>10. active' \in 0 .. MaxTime /\ stamp' \in Nat
  BY <1>1, <1>2
<1>11. Len(t) = Len(events)
  BY <1>4 DEF n
<1>12. \A i \in 1 .. Len(t) : /\ t[i].kind = events[i].kind /\ t[i].r = events[i].r
                              /\ t[i].hop = events[i].hop /\ t[i].time = now
  BY <1>3, <1>4
<1>13. QED
  BY <1>7, <1>8, <1>9, <1>10, <1>11, <1>12

\* The same for one event.
LEMMA EmitOne ==
    ASSUME IdleInv, NEW busy, NEW kind \in EventKinds, NEW r \in Requests, NEW hop \in Hops,
           Emit(<<Event(kind, r, hop)>>, busy)
    PROVE  /\ active' \in 0 .. MaxTime /\ stamp' \in Nat
           /\ \E t, y : /\ EmitsNew(t) /\ Told(t) = {y}
                        /\ y.kind = kind /\ y.r = r /\ y.hop = hop /\ y.time = now
                        /\ y.stamp <= stamp'
                        /\ \A x \in Told(log) \cup Told(cdp) : ~(y.stamp <= x.stamp)
<1> DEFINE events == <<Event(kind, r, hop)>>
<1>1. /\ events \in Seq(Happenings)
      /\ Len(events) = 1 /\ events[1].kind = kind /\ events[1].r = r /\ events[1].hop = hop
  <2>1. Event(kind, r, hop) \in Happenings
    BY DEF Event, Happenings
  <2>2. QED
    BY <2>1 DEF Event
<1>2. \A i \in 1 .. Len(events) : i > 1 => events[i].kind \notin {"start", "attach"}
  BY <1>1
<1>3. Emit(events, busy)
  OBVIOUS
<1> HIDE DEF events
<1>4. PICK t : /\ EmitsNew(t) /\ Len(t) = 1
               /\ \A i \in 1 .. Len(t) : /\ t[i].kind = events[i].kind
                                         /\ t[i].r = events[i].r
                                         /\ t[i].hop = events[i].hop
                                         /\ t[i].time = now
               /\ \A x \in Told(log) \cup Told(cdp), y \in Told(t) :
                     x.stamp \in Nat /\ x.stamp < y.stamp
  BY <1>1, <1>2, <1>3, EmitNew
<1>5. Told(t) = {t[1]}
  BY <1>4 DEF Told
<1>6. t[1].stamp \in Nat /\ t[1].stamp <= stamp'
  <2>1. t \in Seq(IdleEvents) /\ t[1] \in Told(t)
    BY <1>4, <1>5 DEF EmitsNew
  <2>2. t[1].stamp <= stamp'
    BY <1>4, <2>1 DEF EmitsNew
  <2>3. t[1] \in IdleEvents
    <3>1. Len(t) = 1
      BY <1>4
    <3>2. QED
      BY <2>1, <3>1
  <2>4. QED
    BY <2>2, <2>3 DEF IdleEvents
<1>7. t[1].kind = kind /\ t[1].r = r /\ t[1].hop = hop /\ t[1].time = now
  BY <1>1, <1>4
<1>8. \A x \in Told(log) \cup Told(cdp) : ~(t[1].stamp <= x.stamp)
  BY <1>4, <1>5, <1>6
<1>9. active' \in 0 .. MaxTime /\ stamp' \in Nat
  BY <1>1, <1>2, <1>3, EmitNew
<1>10. QED
  BY <1>4, <1>5, <1>6, <1>7, <1>8, <1>9

\* What is known of an event in a stream.
LEMMA ToldIsReal ==
    ASSUME IdleInv, NEW x \in Told(log) \cup Told(cdp)
    PROVE  x \in IdleEvents /\ x.r \in Requests /\ x.hop \in Hops /\ x.stamp \in Nat /\ Real(x)
<1>1. ASSUME NEW s, StreamTrue(s), x \in Told(s)
      PROVE  x \in IdleEvents /\ Real(x)
  BY <1>1 DEF StreamTrue, Told
<1>2. x \in IdleEvents /\ Real(x)
  BY <1>1 DEF IdleInv
<1>3. QED
  BY <1>2 DEF IdleEvents

LEMMA StartsTruth ==
    ASSUME IdleInv, NEW x \in Told(log) \cup Told(cdp), x.kind = "start"
    PROVE  truth[x.r] # "no"
BY ToldIsReal DEF Real, Happened, IdleInv, BrowserTrue

LEMMA StartKeeps ==
    ASSUME IdleInv, page' = page, NEW r \in Requests, RequestStarts(r)
    PROVE  IdleInv'
<1>1. /\ truth[r] = "no" /\ r # "old" /\ truth' = [truth EXCEPT ![r] = "run"]
      /\ truth \in [Requests -> {"no", "run", "done", "failed", "gone"}]
      /\ UNCHANGED <<now, page, answer, hops, loader, iframe, sessionVars>>
  BY DEF RequestStarts, MayStart, IdleInv, BrowserTyped
<1>2. /\ r \notin {"doc", "old"} => answer["doc"] # "none"
      /\ r = "doc" => loader = "none"
      /\ r = "img2" => loader = "second"
      /\ r = "sub" => iframe = "there"
  BY DEF RequestStarts, MayStart, Loader, IdleInv, BrowserTrue
<1>3. /\ active' \in 0 .. MaxTime /\ stamp' \in Nat
      /\ \E t, y : /\ EmitsNew(t) /\ Told(t) = {y}
                   /\ y.kind = "start" /\ y.r = r /\ y.hop = 0
                   /\ y.stamp <= stamp'
                   /\ \A x \in Told(log) \cup Told(cdp) : ~(y.stamp <= x.stamp)
  <2>1. Emit(<<Event("start", r, 0)>>, OfThePage(r))
    BY DEF RequestStarts
  <2>2. "start" \in EventKinds /\ 0 \in Hops
    BY DEF EventKinds, Hops
  <2>3. QED
    BY <2>1, <2>2, EmitOne
<1>4. PICK t, y : /\ EmitsNew(t) /\ Told(t) = {y}
                  /\ y.kind = "start" /\ y.r = r /\ y.hop = 0
                  /\ y.stamp <= stamp'
                  /\ \A x \in Told(log) \cup Told(cdp) : ~(y.stamp <= x.stamp)
  BY <1>3
<1>5. BrowserTyped'
  BY <1>1, <1>3 DEF IdleInv, BrowserTyped
<1>6. BrowserTrue'
  BY <1>1, <1>2, IdleConstants DEF IdleInv, BrowserTrue
<1>7. \A x \in Told(log) \cup Told(cdp) : ~TooLate(x, y)
  <2>1. ASSUME NEW x \in Told(log) \cup Told(cdp)
        PROVE  ~TooLate(x, y)
    <3>1. x.r \in Requests /\ Real(x)
      BY ToldIsReal
    <3>2. ~Ends(x, r)
      BY <1>1, <1>2, <3>1 DEF Ends, Real, Over
    <3>3. ASSUME x.kind = "start"
          PROVE  truth[x.r] # "no"
      BY <3>3, StartsTruth
    <3>4. ~(r = "doc" /\ x.kind = "start" /\ x.r \notin {"doc", "old"})
      BY <1>1, <3>1, <3>3, IdleConstants DEF IdleInv, BrowserTrue
    <3>5. ~(r = "doc2" /\ x.kind = "start" /\ x.r = "img2")
      BY <1>1, <3>1, <3>3 DEF IdleInv, BrowserTrue
    <3>6. QED
      BY <1>1, <1>4, <3>2, <3>4, <3>5 DEF TooLate
  <2>2. QED
    BY <2>1
<1>8. \A q \in Requests, h \in Hops :
         /\ Happened(q, h) => Happened(q, h)'
         /\ Happened(q, h)' => Happened(q, h) \/ \E x \in Told(t) : IsStart(x, q, h)
  BY <1>1, <1>4 DEF Happened, Hops, IsStart
<1>9. \A q \in Requests : Over(q)' <=> Over(q)
  BY <1>1 DEF Over
<1>10. Real(y)'
  BY <1>1, <1>4 DEF Real, Happened
<1>11. pc # "navigate" =>
          loader' # "none" /\ \A h \in Hops : Happened("doc", h)' => Happened("doc", h)
  BY <1>1, <1>2 DEF IdleInv, BookBegun, Happened, BrowserTrue
<1>12. GrowsBy(t)
  BY <1>1, <1>2, <1>4, <1>7, <1>8, <1>9, <1>10, <1>11 DEF GrowsBy, Over, IsStart
<1>13. QED
  BY <1>5, <1>6, <1>12, GrowsKeeps

LEMMA RedirectKeeps ==
    ASSUME IdleInv, page' = page, NEW d \in Documents, Redirect(d)
    PROVE  IdleInv'
<1>1. /\ truth[d] = "run" /\ answer[d] = "none" /\ hops' = [hops EXCEPT ![d] = 1]
      /\ hops \in [Documents -> Hops] /\ d \in Requests
      /\ UNCHANGED <<now, page, truth, answer, loader, iframe, sessionVars>>
  BY IdleConstants DEF Redirect, IdleInv, BrowserTyped
<1>3. /\ active' \in 0 .. MaxTime /\ stamp' \in Nat
      /\ \E t, y : /\ EmitsNew(t) /\ Told(t) = {y}
                   /\ y.kind = "start" /\ y.r = d /\ y.hop = 1
                   /\ y.stamp <= stamp'
                   /\ \A x \in Told(log) \cup Told(cdp) : ~(y.stamp <= x.stamp)
  <2>1. Emit(<<Event("start", d, 1)>>, OfThePage(d))
    BY IdleConstants DEF Redirect, Emit, OfThePage
  <2>2. "start" \in EventKinds /\ 1 \in Hops /\ d \in Requests
    BY <1>1 DEF EventKinds, Hops
  <2>3. PICK kind, hop : kind = "start" /\ hop = 1
    OBVIOUS
  <2>4. \E t, y : /\ EmitsNew(t) /\ Told(t) = {y}
                  /\ y.kind = kind /\ y.r = d /\ y.hop = hop
                  /\ y.stamp <= stamp'
                  /\ \A x \in Told(log) \cup Told(cdp) : ~(y.stamp <= x.stamp)
    BY <2>1, <2>2, <2>3, EmitOne
  <2>5. active' \in 0 .. MaxTime /\ stamp' \in Nat
    BY <2>1, <2>2, EmitOne
  <2>6. QED
    BY <2>3, <2>4, <2>5
<1>4. PICK t, y : /\ EmitsNew(t) /\ Told(t) = {y}
                  /\ y.kind = "start" /\ y.r = d /\ y.hop = 1
                  /\ y.stamp <= stamp'
                  /\ \A x \in Told(log) \cup Told(cdp) : ~(y.stamp <= x.stamp)
  BY <1>3
<1>5. BrowserTyped'
  BY <1>1, <1>3 DEF IdleInv, BrowserTyped, Hops
<1>6. BrowserTrue'
  BY <1>1 DEF IdleInv, BrowserTrue
<1>7. \A x \in Told(log) \cup Told(cdp) : ~TooLate(x, y)
  <2>1. ASSUME NEW x \in Told(log) \cup Told(cdp)
        PROVE  ~TooLate(x, y)
    <3>1. x.r \in Requests /\ Real(x)
      BY ToldIsReal
    <3>2. ~Ends(x, d) /\ d # "old"
      BY <1>1, <3>1, IdleConstants DEF Ends, Real, Over
    <3>3. ASSUME x.kind = "start"
          PROVE  truth[x.r] # "no"
      BY <3>3, StartsTruth
    <3>4. ~(d = "doc" /\ x.kind = "start" /\ x.r \notin {"doc", "old"})
      BY <1>1, <3>1, <3>3 DEF IdleInv, BrowserTrue
    <3>5. ~(d = "doc2" /\ x.kind = "start" /\ x.r = "img2")
      BY <1>1, <3>1, <3>3 DEF IdleInv, BrowserTrue
    <3>6. QED
      BY <1>4, <3>2, <3>4, <3>5 DEF TooLate
  <2>2. QED
    BY <2>1
<1>8. \A q \in Requests, h \in Hops :
         /\ Happened(q, h) => Happened(q, h)'
         /\ Happened(q, h)' => Happened(q, h) \/ \E x \in Told(t) : IsStart(x, q, h)
  BY <1>1, <1>4 DEF Happened, Hops, IsStart
<1>9. \A q \in Requests : Over(q)' <=> Over(q)
  BY <1>1 DEF Over
<1>10. Real(y)'
  BY <1>1, <1>4 DEF Real, Happened
<1>11. pc # "navigate" =>
          loader' # "none" /\ \A h \in Hops : Happened("doc", h)' => Happened("doc", h)
  BY <1>1 DEF IdleInv, BookBegun, Happened, BrowserTrue
<1>13. d # "old" /\ d # "sub" /\ ~Over(d)
  BY <1>1, IdleConstants DEF Over
<1>12. GrowsBy(t)
  BY <1>1, <1>4, <1>7, <1>8, <1>9, <1>10, <1>11, <1>13 DEF GrowsBy, IsStart
<1>14. QED
  BY <1>5, <1>6, <1>12, GrowsKeeps

LEMMA OverKeeps ==
    ASSUME IdleInv, page' = page, NEW r \in Requests, RequestEnds(r) \/ RequestFails(r)
    PROVE  IdleInv'
<1>1. PICK kind \in {"finish", "fail"}, over \in {"done", "failed"} :
         /\ truth[r] = "run" /\ truth' = [truth EXCEPT ![r] = over]
         /\ Emit(<<Event(kind, r, 0)>>, OfThePage(r))
         /\ UNCHANGED <<now, answer, hops, loader, iframe, sessionVars>>
  BY DEF RequestEnds, RequestFails
<1>2. truth \in [Requests -> {"no", "run", "done", "failed", "gone"}]
  BY DEF IdleInv, BrowserTyped
<1>3. /\ active' \in 0 .. MaxTime /\ stamp' \in Nat
      /\ \E t, y : /\ EmitsNew(t) /\ Told(t) = {y}
                   /\ y.kind = kind /\ y.r = r /\ y.hop = 0
                   /\ y.stamp <= stamp'
                   /\ \A x \in Told(log) \cup Told(cdp) : ~(y.stamp <= x.stamp)
  <2>1. kind \in EventKinds /\ 0 \in Hops
    BY DEF EventKinds, Hops
  <2>2. QED
    BY <1>1, <2>1, EmitOne
<1>4. PICK t, y : /\ EmitsNew(t) /\ Told(t) = {y}
                  /\ y.kind = kind /\ y.r = r /\ y.hop = 0
                  /\ y.stamp <= stamp'
                  /\ \A x \in Told(log) \cup Told(cdp) : ~(y.stamp <= x.stamp)
  BY <1>3
<1>5. BrowserTyped'
  BY <1>1, <1>3 DEF IdleInv, BrowserTyped
<1>6. BrowserTrue'
  BY <1>1, <1>2, IdleConstants DEF IdleInv, BrowserTrue
<1>7. \A x \in Told(log) \cup Told(cdp) : ~TooLate(x, y)
  BY <1>1, <1>4 DEF TooLate
<1>8. \A q \in Requests, h \in Hops : Happened(q, h)' <=> Happened(q, h)
  BY <1>1, <1>2 DEF Happened, Hops
<1>9. \A q \in Requests : Over(q)' <=> Over(q) \/ q = r
  BY <1>1, <1>2 DEF Over
<1>10. Real(y)'
  BY <1>1, <1>2, <1>4 DEF Real, Over
<1>11. pc # "navigate" => loader' # "none"
  BY <1>1 DEF IdleInv, BookBegun
<1>12. "doc" \in Requests
  BY IdleConstants
<1>13. GrowsBy(t)
  BY <1>1, <1>4, <1>7, <1>8, <1>9, <1>10, <1>11, <1>12 DEF GrowsBy, IsStart, Ends
<1>14. QED
  BY <1>5, <1>6, <1>13, GrowsKeeps

LEMMA AttachKeeps ==
    ASSUME IdleInv, page' = page, Attach
    PROVE  IdleInv'
<1>1. /\ iframe = "no" /\ loader = "first" /\ iframe' = "there"
      /\ UNCHANGED <<now, truth, answer, hops, loader, sessionVars>>
      /\ "sub" \in Requests
  BY NetworkIdleAssumption DEF Attach, IdleInv, BrowserTyped
<1>3. /\ active' \in 0 .. MaxTime /\ stamp' \in Nat
      /\ \E t, y : /\ EmitsNew(t) /\ Told(t) = {y}
                   /\ y.kind = "attach" /\ y.r = "sub" /\ y.hop = 0
                   /\ y.stamp <= stamp'
                   /\ \A x \in Told(log) \cup Told(cdp) : ~(y.stamp <= x.stamp)
  <2>1. PICK kind \in EventKinds, r \in Requests, hop \in Hops :
           kind = "attach" /\ r = "sub" /\ hop = 0
    BY <1>1 DEF EventKinds, Hops
  <2>2. Emit(<<Event(kind, r, hop)>>, OfThePage("old"))
    BY <2>1 DEF Attach, Emit, OfThePage
  <2>3. QED
    BY <2>1, <2>2, EmitOne
<1>4. PICK t, y : /\ EmitsNew(t) /\ Told(t) = {y}
                  /\ y.kind = "attach" /\ y.r = "sub" /\ y.hop = 0
                  /\ y.stamp <= stamp'
                  /\ \A x \in Told(log) \cup Told(cdp) : ~(y.stamp <= x.stamp)
  BY <1>3
<1>5. BrowserTyped'
  BY <1>1, <1>3 DEF IdleInv, BrowserTyped
<1>6. BrowserTrue'
  BY <1>1 DEF IdleInv, BrowserTrue
<1>7. \A x \in Told(log) \cup Told(cdp) : ~TooLate(x, y)
  <2>1. ASSUME NEW x \in Told(log) \cup Told(cdp), x.kind = "start", x.r = "sub"
        PROVE  FALSE
    BY <1>1, <2>1, StartsTruth DEF IdleInv, BrowserTrue
  <2>2. QED
    BY <1>4, <2>1 DEF TooLate
<1>8. /\ \A q \in Requests, h \in Hops : Happened(q, h)' <=> Happened(q, h)
      /\ \A q \in Requests : Over(q)' <=> Over(q)
  BY <1>1 DEF Happened, Over
<1>9. Real(y)'
  BY <1>1, <1>4 DEF Real
<1>10. pc # "navigate" => loader' # "none"
  BY <1>1 DEF IdleInv, BookBegun
<1>11. "doc" \in Requests
  BY IdleConstants
<1>12. GrowsBy(t)
  BY <1>1, <1>4, <1>7, <1>8, <1>9, <1>10, <1>11 DEF GrowsBy, IsStart
<1>13. QED
  BY <1>5, <1>6, <1>12, GrowsKeeps

LEMMA DetachKeeps ==
    ASSUME IdleInv, page' = page, Detach
    PROVE  IdleInv'
<1>1. /\ iframe = "there" /\ iframe' = "removed"
      /\ truth' = [truth EXCEPT !["sub"] = IF @ = "run" THEN "gone" ELSE @]
      /\ UNCHANGED <<now, answer, hops, loader, sessionVars>>
      /\ "sub" \in Requests
      /\ truth \in [Requests -> {"no", "run", "done", "failed", "gone"}]
  BY DEF Detach, IdleInv, BrowserTyped, BrowserTrue
<1>3. /\ active' \in 0 .. MaxTime /\ stamp' \in Nat
      /\ \E t, y : /\ EmitsNew(t) /\ Told(t) = {y}
                   /\ y.kind = "detach" /\ y.r = "sub" /\ y.hop = 0
                   /\ y.stamp <= stamp'
                   /\ \A x \in Told(log) \cup Told(cdp) : ~(y.stamp <= x.stamp)
  <2>1. PICK kind \in EventKinds, r \in Requests, hop \in Hops :
           kind = "detach" /\ r = "sub" /\ hop = 0
    BY <1>1 DEF EventKinds, Hops
  <2>2. Emit(<<Event(kind, r, hop)>>, truth["sub"] = "run")
    BY <2>1 DEF Detach
  <2>3. QED
    BY <2>1, <2>2, EmitOne
<1>4. PICK t, y : /\ EmitsNew(t) /\ Told(t) = {y}
                  /\ y.kind = "detach" /\ y.r = "sub" /\ y.hop = 0
                  /\ y.stamp <= stamp'
                  /\ \A x \in Told(log) \cup Told(cdp) : ~(y.stamp <= x.stamp)
  BY <1>3
<1>5. BrowserTyped'
  BY <1>1, <1>3 DEF IdleInv, BrowserTyped
<1>6. BrowserTrue'
  BY <1>1, IdleConstants DEF IdleInv, BrowserTrue
<1>7. \A x \in Told(log) \cup Told(cdp) : ~TooLate(x, y)
  BY <1>4 DEF TooLate
<1>8. /\ \A q \in Requests, h \in Hops : Happened(q, h)' <=> Happened(q, h)
      /\ \A q \in Requests : Over(q) => Over(q)'
      /\ \A q \in Requests : Over(q)' => Over(q) \/ q = "sub"
  BY <1>1 DEF Happened, Over
<1>9. Real(y)'
  BY <1>1, <1>4 DEF Real
<1>10. pc # "navigate" => loader' # "none"
  BY <1>1 DEF IdleInv, BookBegun
<1>11. "doc" \in Requests
  BY IdleConstants
<1>12. GrowsBy(t)
  BY <1>1, <1>4, <1>7, <1>8, <1>9, <1>10, <1>11 DEF GrowsBy, IsStart, Ends
<1>13. QED
  BY <1>5, <1>6, <1>12, GrowsKeeps

LEMMA RequestsFinite == IsFiniteSet(Requests)
<1>1. IsFiniteSet({"doc"}) /\ IsFiniteSet({"doc2"}) /\ IsFiniteSet({"img"}) /\ IsFiniteSet({"img2"})
      /\ IsFiniteSet({"sub"}) /\ IsFiniteSet({"feed"}) /\ IsFiniteSet({"old"})
  BY FS_Singleton
<1>2. IsFiniteSet({"doc"} \cup {"doc2"}) /\ IsFiniteSet({"img"} \cup {"img2"})
      /\ IsFiniteSet({"sub"} \cup {"feed"})
  BY <1>1, FS_Union
<1>3. /\ IsFiniteSet(({"doc"} \cup {"doc2"}) \cup ({"img"} \cup {"img2"}))
      /\ IsFiniteSet(({"sub"} \cup {"feed"}) \cup {"old"})
  BY <1>1, <1>2, FS_Union
<1>4. IsFiniteSet((({"doc"} \cup {"doc2"}) \cup ({"img"} \cup {"img2"}))
                  \cup (({"sub"} \cup {"feed"}) \cup {"old"}))
  BY <1>3, FS_Union
<1>5. Requests \subseteq ((({"doc"} \cup {"doc2"}) \cup ({"img"} \cup {"img2"}))
                         \cup (({"sub"} \cup {"feed"}) \cup {"old"}))
  BY NetworkIdleAssumption
<1>6. QED
  BY <1>4, <1>5, FS_Subset

\* What Commit puts on the streams: the end of the iframe, the ends of what the
\* page before it was doing, and the answer.
LeftBy(d) == {r \in Requests : truth[r] = "run" /\ r # d /\ OfMainFrame(r) /\ Loader(r) # Loader(d)}

CommitTells(d, y) ==
    \/ y.kind = "detach" /\ y.r = "sub" /\ iframe = "there"
    \/ y.kind = "fail" /\ y.r \in LeftBy(d)
    \/ y.kind \in {"ok", "bad"} /\ y.kind = answer'[d] /\ y.r = d

LEMMA CommitEmits ==
    ASSUME IdleInv, NEW d \in Documents, Commit(d)
    PROVE  /\ active' \in 0 .. MaxTime /\ stamp' \in Nat
           /\ \E t : /\ EmitsNew(t)
                     /\ \A x \in Told(log) \cup Told(cdp), y \in Told(t) :
                           x.stamp \in Nat /\ x.stamp < y.stamp
                     /\ \A y \in Told(t) : CommitTells(d, y) /\ y.time = now
                     /\ iframe = "there" => \E y \in Told(t) : y.kind = "detach" /\ y.r = "sub"
                     /\ \A r \in LeftBy(d) : \E y \in Told(t) : y.kind = "fail" /\ y.r = r
                     /\ \E y \in Told(t) : y.kind = answer'[d] /\ y.r = d
<1> DEFINE left == LeftBy(d)
           gone == IF iframe = "there" /\ truth["sub"] = "run" THEN {"sub"} ELSE {}
           c == Cardinality(left)
           order == CHOOSE o \in [1 .. Cardinality(left) -> left] :
                       \A r \in left : \E i \in 1 .. Cardinality(left) : o[i] = r
           fails == [i \in 1 .. Cardinality(left) |-> Event("fail", order[i], 0)]
           detach == IF iframe = "there" THEN <<Event("detach", "sub", 0)>> ELSE <<>>
           events == detach \o fails \o <<Event(answer'[d], d, 0)>>
<1>1. PICK a \in {"ok", "bad"} : answer' = [answer EXCEPT ![d] = a]
  BY DEF Commit
<1>2. /\ truth[d] = "run" /\ answer[d] = "none" /\ loader' = Loader(d)
      /\ truth' = [r \in Requests |-> IF r \in left THEN "failed"
                                      ELSE IF r \in gone THEN "gone" ELSE truth[r]]
      /\ Emit(events, TRUE)
      /\ iframe' = IF iframe = "there" THEN "removed" ELSE iframe
      /\ UNCHANGED <<now, hops, sessionVars>>
  BY DEF Commit, LeftBy
<1>3. /\ answer'[d] = a /\ d \in Requests
      /\ truth \in [Requests -> {"no", "run", "done", "failed", "gone"}]
      /\ iframe = "there" => "sub" \in Requests
      /\ d = "doc" \/ d = "doc2"
  BY <1>1, IdleConstants DEF IdleInv, BrowserTyped, BrowserTrue
<1>4. /\ c \in Nat /\ order \in [1 .. c -> left]
      /\ \A r \in left : \E i \in 1 .. c : order[i] = r
  <2>1. IsFiniteSet(left)
    <3>1. left \subseteq Requests
      BY DEF LeftBy
    <3>2. QED
      BY <3>1, RequestsFinite, FS_Subset
  <2> HIDE DEF left
  <2>2. c \in Nat /\ ExistsBijection(1 .. c, left)
    BY <2>1, FS_CardinalityType
  <2>3. PICK o : o \in Bijection(1 .. c, left)
    BY <2>2 DEF ExistsBijection
  <2>4. o \in [1 .. c -> left] /\ \A r \in left : \E i \in 1 .. c : o[i] = r
    BY <2>3 DEF Bijection, Injection, Surjection
  <2>5. QED
    BY <2>2, <2>4
<1>5. /\ detach \in Seq(Happenings)
      /\ \A e \in Told(detach) : e.kind = "detach" /\ e.r = "sub" /\ iframe = "there"
      /\ iframe = "there" => \E e \in Told(detach) : e.kind = "detach" /\ e.r = "sub"
  <2>1. CASE iframe = "there"
    <3>1. Event("detach", "sub", 0) \in Happenings
      BY <1>3, <2>1 DEF Event, Happenings, EventKinds, Hops
    <3>2. detach = <<Event("detach", "sub", 0)>>
      BY <2>1
    <3>3. Told(detach) = {Event("detach", "sub", 0)}
      BY <3>2 DEF Told
    <3>4. QED
      BY <2>1, <3>1, <3>2, <3>3 DEF Event
  <2>2. CASE iframe # "there"
    BY <2>2 DEF Told
  <2>3. QED
    BY <2>1, <2>2
<1>6. /\ fails \in Seq(Happenings)
      /\ \A e \in Told(fails) : e.kind = "fail" /\ e.r \in left
      /\ \A r \in left : \E e \in Told(fails) : e.kind = "fail" /\ e.r = r
  <2>1. left \subseteq Requests
    BY DEF LeftBy
  <2> HIDE DEF left, order
  <2>2. \A i \in 1 .. c : fails[i] \in Happenings /\ fails[i].kind = "fail" /\ fails[i].r = order[i]
    BY <1>4, <2>1 DEF Event, Happenings, EventKinds, Hops
  <2>3. fails \in [1 .. c -> Happenings]
    BY <2>2
  <2> HIDE DEF fails
  <2>4. fails \in Seq(Happenings) /\ Len(fails) = c
    BY <1>4, <2>3
  <2>5. QED
    BY <1>4, <2>2, <2>4 DEF Told
<1>7. /\ <<Event(answer'[d], d, 0)>> \in Seq(Happenings)
      /\ \A e \in Told(<<Event(answer'[d], d, 0)>>) :
            e.kind \in {"ok", "bad"} /\ e.kind = answer'[d] /\ e.r = d
      /\ \E e \in Told(<<Event(answer'[d], d, 0)>>) : e.kind = answer'[d] /\ e.r = d
  <2>1. Event(answer'[d], d, 0) \in Happenings
    BY <1>3 DEF Event, Happenings, EventKinds, Hops
  <2>2. Told(<<Event(answer'[d], d, 0)>>) = {Event(answer'[d], d, 0)}
    BY DEF Told
  <2>3. QED
    BY <1>3, <2>1, <2>2 DEF Event
<1> HIDE DEF detach, fails
<1>8. /\ events \in Seq(Happenings)
      /\ Told(events) = Told(detach) \cup Told(fails) \cup Told(<<Event(answer'[d], d, 0)>>)
  <2>1. detach \o fails \in Seq(Happenings) /\ Told(detach \o fails) = Told(detach) \cup Told(fails)
    BY <1>5, <1>6, ToldConcat
  <2>2. PICK first, last : first = detach \o fails /\ last = <<Event(answer'[d], d, 0)>>
    OBVIOUS
  <2>3. first \in Seq(Happenings) /\ last \in Seq(Happenings) /\ events = first \o last
    BY <1>7, <2>1, <2>2
  <2> HIDE DEF events
  <2>4. first \o last \in Seq(Happenings) /\ Told(first \o last) = Told(first) \cup Told(last)
    BY <2>3, ToldConcat
  <2>5. QED
    BY <2>1, <2>2, <2>3, <2>4
<1> HIDE DEF events, order
<1>9. /\ active' \in 0 .. MaxTime /\ stamp' \in Nat
      /\ \E t : /\ EmitsNew(t) /\ Len(t) = Len(events)
                /\ \A i \in 1 .. Len(t) : /\ t[i].kind = events[i].kind
                                          /\ t[i].r = events[i].r
                                          /\ t[i].hop = events[i].hop
                                          /\ t[i].time = now
                /\ \A x \in Told(log) \cup Told(cdp), y \in Told(t) :
                      x.stamp \in Nat /\ x.stamp < y.stamp
  <2>1. \A i \in 1 .. Len(events) : events[i] \in Told(events)
    BY DEF Told
  <2>2. \A i \in 1 .. Len(events) : i > 1 => events[i].kind \notin {"start", "attach"}
    BY <1>5, <1>6, <1>7, <1>8, <2>1
  <2>3. Emit(events, OfThePage(d))
    BY <1>2, <1>3 DEF Emit, OfThePage
  <2>4. QED
    BY <1>8, <2>2, <2>3, EmitNew
<1>10. PICK t : /\ EmitsNew(t) /\ Len(t) = Len(events)
                /\ \A i \in 1 .. Len(t) : /\ t[i].kind = events[i].kind
                                          /\ t[i].r = events[i].r
                                          /\ t[i].hop = events[i].hop
                                          /\ t[i].time = now
                /\ \A x \in Told(log) \cup Told(cdp), y \in Told(t) :
                      x.stamp \in Nat /\ x.stamp < y.stamp
  BY <1>9
<1>11. /\ \A y \in Told(t) : y.time = now /\ \E e \in Told(events) : y.kind = e.kind /\ y.r = e.r
       /\ \A e \in Told(events) : \E y \in Told(t) : y.kind = e.kind /\ y.r = e.r
  BY <1>10 DEF Told
<1>12. /\ \A y \in Told(t) : CommitTells(d, y) /\ y.time = now
       /\ iframe = "there" => \E y \in Told(t) : y.kind = "detach" /\ y.r = "sub"
       /\ \A r \in left : \E y \in Told(t) : y.kind = "fail" /\ y.r = r
       /\ \E y \in Told(t) : y.kind = answer'[d] /\ y.r = d
  <2> HIDE DEF left
  <2>1. ASSUME NEW y \in Told(t)
        PROVE  CommitTells(d, y)
    <3>1. PICK e \in Told(events) : y.kind = e.kind /\ y.r = e.r
      BY <1>11
    <3>2. QED
      BY <1>5, <1>6, <1>7, <1>8, <3>1 DEF CommitTells, left
  <2>2. \A e \in Told(events) : \E y \in Told(t) : y.kind = e.kind /\ y.r = e.r
    BY <1>11
  <2>3. iframe = "there" => \E y \in Told(t) : y.kind = "detach" /\ y.r = "sub"
    BY <1>5, <1>8, <2>2
  <2>4. \A r \in left : \E y \in Told(t) : y.kind = "fail" /\ y.r = r
    BY <1>6, <1>8, <2>2
  <2>5. \E y \in Told(t) : y.kind = answer'[d] /\ y.r = d
    BY <1>7, <1>8, <2>2
  <2>6. QED
    BY <1>11, <2>1, <2>3, <2>4, <2>5
<1>13. QED
  BY <1>9, <1>10, <1>12

LEMMA CommitKeeps ==
    ASSUME IdleInv, page' = page, NEW d \in Documents, Commit(d)
    PROVE  IdleInv'
<1> DEFINE left == LeftBy(d)
           gone == IF iframe = "there" /\ truth["sub"] = "run" THEN {"sub"} ELSE {}
<1>1. PICK a \in {"ok", "bad"} : answer' = [answer EXCEPT ![d] = a]
  BY DEF Commit
<1>2. /\ truth[d] = "run" /\ answer[d] = "none" /\ loader' = Loader(d)
      /\ truth' = [r \in Requests |-> IF r \in left THEN "failed"
                                      ELSE IF r \in gone THEN "gone" ELSE truth[r]]
      /\ iframe' = IF iframe = "there" THEN "removed" ELSE iframe
      /\ UNCHANGED <<now, hops, sessionVars>>
  BY DEF Commit, LeftBy
<1>3. /\ answer'[d] = a /\ d \in Requests
      /\ truth \in [Requests -> {"no", "run", "done", "failed", "gone"}]
      /\ iframe = "there" => "sub" \in Requests
      /\ d = "doc" \/ d = "doc2"
  BY <1>1, IdleConstants DEF IdleInv, BrowserTyped, BrowserTrue
<1>9. active' \in 0 .. MaxTime /\ stamp' \in Nat
  BY CommitEmits
<1>10. PICK t : /\ EmitsNew(t)
                /\ \A x \in Told(log) \cup Told(cdp), y \in Told(t) :
                      x.stamp \in Nat /\ x.stamp < y.stamp
                /\ \A y \in Told(t) : CommitTells(d, y)
                /\ iframe = "there" => \E y \in Told(t) : y.kind = "detach" /\ y.r = "sub"
                /\ \A r \in LeftBy(d) : \E y \in Told(t) : y.kind = "fail" /\ y.r = r
  BY CommitEmits
<1>12. /\ \A y \in Told(t) : \/ y.kind = "detach" /\ y.r = "sub" /\ iframe = "there"
                             \/ y.kind = "fail" /\ y.r \in left
                             \/ y.kind \in {"ok", "bad"} /\ y.r = d
       /\ iframe = "there" => \E y \in Told(t) : y.kind = "detach" /\ y.r = "sub"
       /\ \A r \in left : \E y \in Told(t) : y.kind = "fail" /\ y.r = r
  BY <1>10 DEF CommitTells
<1>13. BrowserTyped'
  BY <1>1, <1>2, <1>3, <1>9 DEF IdleInv, BrowserTyped, IdleAnswers, LeftBy, Loader, IdleLoaders
<1>14. \A r \in Requests : truth'[r] # "no" <=> truth[r] # "no"
  BY <1>2, <1>3 DEF LeftBy
<1>15. BrowserTrue'
  BY <1>1, <1>2, <1>3, <1>14, IdleConstants DEF IdleInv, BrowserTrue, BrowserTyped, Loader
<1>16. \A x \in Told(log) \cup Told(cdp), y \in Told(t) : ~TooLate(x, y)
  <2>1. SUFFICES ASSUME NEW x \in Told(log) \cup Told(cdp), NEW y \in Told(t)
                 PROVE  ~TooLate(x, y)
    OBVIOUS
  <2>2. y.kind \notin {"start", "attach"}
    BY <1>12
  <2>3. y.stamp \in Nat /\ x.stamp \in Nat /\ x.stamp < y.stamp
    <3>1. y \in IdleEvents
      BY <1>10 DEF EmitsNew, Told
    <3>2. y.stamp \in Nat
      BY <3>1 DEF IdleEvents
    <3>3. QED
      BY <1>10, <3>2
  <2>4. QED
    BY <2>2, <2>3 DEF TooLate
<1>17. \A q \in Requests, h \in Hops : Happened(q, h)' <=> Happened(q, h)
  BY <1>2, <1>14 DEF Happened
<1>18. \A q \in Requests : /\ Over(q) => Over(q)'
                           /\ q \in left => Over(q)'
                           /\ Over(q)' => Over(q) \/ q \in left \/ (q = "sub" /\ iframe = "there")
  BY <1>2, <1>3 DEF Over, LeftBy
<1>19. \A y \in Told(t) : Real(y)' /\ y.kind # "start" /\ y.kind # "attach"
  <2>1. SUFFICES ASSUME NEW y \in Told(t)
                 PROVE  Real(y)' /\ y.kind # "start" /\ y.kind # "attach"
    OBVIOUS
  <2>2. y.stamp <= stamp'
    BY <1>10 DEF EmitsNew
  <2>3. left \subseteq Requests
    BY DEF LeftBy
  <2> HIDE DEF left
  <2>4. QED
    BY <1>2, <1>12, <1>18, <2>2, <2>3 DEF Real
<1>20. pc # "navigate" => loader' # "none"
  BY <1>2 DEF Loader
<1>21. "doc" \in Requests /\ iframe' # "there" /\ (iframe = "removed" => iframe' = "removed")
  BY <1>2, IdleConstants
<1> HIDE DEF left, gone
<1>22. \A q \in Requests : Over(q)' => Over(q) \/ \E y \in Told(t) : Ends(y, q)
  BY <1>12, <1>18 DEF Ends
<1>23. UNCHANGED <<now, page, sessionVars>>
  BY <1>2
<1>24. GrowsBy(t)
  BY <1>10, <1>16, <1>17, <1>18, <1>19, <1>20, <1>21, <1>22, <1>23 DEF GrowsBy, IsStart
<1>25. QED
  BY <1>13, <1>15, <1>24, GrowsKeeps
-----------------------------------------------------------------------------
(* The book                                                                *)

\* What the operators on a book leave it.
LEMMA ActivityBook ==
    ASSUME NEW b \in Books, NEW e \in IdleEvents
    PROVE  /\ Activity(b, e) \in Books
           /\ \E t \in IdleTimes : /\ Activity(b, e) = [b EXCEPT !.last = t]
                                  /\ b.last <= t /\ e.time <= t
<1> DEFINE t == IF e.time > b.last THEN e.time ELSE b.last
<1>1. b.last \in IdleTimes /\ e.time \in 0 .. MaxTime
  BY DEF Books, IdleEvents
<1>2. t \in IdleTimes
  BY <1>1, IdleConstants DEF IdleTimes, Never
<1>3. Activity(b, e) = [b EXCEPT !.last = t]
  BY DEF Activity, Books
<1>5. b.last <= t /\ e.time <= t
  BY <1>1, IdleConstants DEF IdleTimes, Never
<1> HIDE DEF t
<1>4. [b EXCEPT !.last = t] \in Books
  BY <1>2 DEF Books
<1>6. QED
  BY <1>2, <1>3, <1>4, <1>5

LEMMA ActivityFields ==
    ASSUME NEW b \in Books, NEW e \in IdleEvents
    PROVE  /\ Activity(b, e).ledger = b.ledger /\ Activity(b, e).seen = b.seen
           /\ Activity(b, e).main = b.main /\ Activity(b, e).initial = b.initial
           /\ Activity(b, e).frame = b.frame /\ Activity(b, e).navigation = b.navigation
           /\ Activity(b, e).documents = b.documents /\ Activity(b, e).status = b.status
           /\ b.last <= Activity(b, e).last /\ e.time <= Activity(b, e).last
<1>1. PICK t \in IdleTimes : /\ Activity(b, e) = [b EXCEPT !.last = t]
                             /\ b.last <= t /\ e.time <= t
  BY ActivityBook
<1>2. QED
  BY <1>1 DEF Books

\* The names of what OnStart looks at.
IsKnown(b, e) == <<e.r, e.hop>> \in b.seen
MainAfter(b, e) == IF e.r \in Documents THEN Loader(e.r) ELSE b.main
Belongs(b, e) ==
    \/ OfMainFrame(e.r) /\ MainAfter(b, e) = Loader(e.r)
    \/ e.r = "sub" /\ b.frame
    \/ e.r = "old"

Item(e) == [r |-> e.r, hop |-> e.hop, stamp |-> e.stamp]

StartLeaves(b, e, c) ==
    /\ c \in Books /\ b.last <= c.last
    /\ \A d \in Documents : c.status[d] \in {"none", b.status[d]}
    /\ c.initial = b.initial /\ c.frame = b.frame /\ c.navigation = b.navigation
    /\ \/ /\ IsKnown(b, e) \/ (~BeforeNavigation(b, e.stamp) /\ ~Belongs(b, e))
          /\ c = b
       \/ /\ ~IsKnown(b, e) /\ BeforeNavigation(b, e.stamp)
          /\ c.seen = b.seen \cup {<<e.r, e.hop>>} /\ c.main = b.main
          /\ c.ledger = [b.ledger EXCEPT ![e.r] = "prior"]
          /\ c.documents = b.documents
       \/ /\ ~IsKnown(b, e) /\ ~BeforeNavigation(b, e.stamp) /\ e.r = "feed"
          /\ c.seen = b.seen /\ c.main = b.main
          /\ c.ledger = [b.ledger EXCEPT ![e.r] = "ignored"]
          /\ c.documents = b.documents
       \/ /\ ~IsKnown(b, e) /\ ~BeforeNavigation(b, e.stamp) /\ Belongs(b, e) /\ e.r # "feed"
          /\ c.seen = b.seen \cup {<<e.r, e.hop>>} /\ c.main = MainAfter(b, e)
          /\ c.ledger = [b.ledger EXCEPT ![e.r] = "pending"]
          /\ c.documents = IF e.r \in Documents THEN Append(b.documents, Item(e)) ELSE b.documents
          /\ e.time <= c.last

LEMMA OnStartLeaves ==
    ASSUME NEW b \in Books, NEW e \in IdleEvents
    PROVE  StartLeaves(b, e, OnStart(b, e))
<1> DEFINE status == [d \in Documents |-> IF d = e.r THEN "none" ELSE b.status[d]]
           mainItems == IF e.r \in Documents
                        THEN Append(b.documents, Item(e)) ELSE b.documents
           entered == [b EXCEPT !.main = MainAfter(b, e), !.seen = b.seen \cup {<<e.r, e.hop>>},
                                !.ledger = [b.ledger EXCEPT ![e.r] = "pending"],
                                !.status = status, !.documents = mainItems]
<1>1. /\ e.r \in Requests /\ e.hop \in Hops /\ e.stamp \in Nat
      /\ b.ledger \in [Requests -> States] /\ b.status \in [Documents -> IdleAnswers]
      /\ b.seen \in SUBSET (Requests \X Hops) /\ b.main \in IdleLoaders
      /\ b.documents \in Seq(MainDocuments)
  BY DEF Books, IdleEvents
<1>2. /\ b.seen \cup {<<e.r, e.hop>>} \in SUBSET (Requests \X Hops)
      /\ \A x \in States : [b.ledger EXCEPT ![e.r] = x] \in [Requests -> States]
      /\ {"prior", "ignored", "pending"} \subseteq States
  BY <1>1 DEF States
<1>3. MainAfter(b, e) \in IdleLoaders /\ status \in [Documents -> IdleAnswers]
  BY <1>1 DEF MainAfter, Loader, IdleLoaders, IdleAnswers
<1>4. mainItems \in Seq(MainDocuments)
  <2>1. ASSUME e.r \in Documents
        PROVE  Item(e) \in MainDocuments
    BY <1>1, <2>1 DEF MainDocuments, Item
  <2>2. QED
    BY <1>1, <2>1
<1> HIDE DEF mainItems
<1>5. entered \in Books
  BY <1>2, <1>3, <1>4 DEF Books
<1>6. /\ entered.ledger = [b.ledger EXCEPT ![e.r] = "pending"]
      /\ entered.seen = b.seen \cup {<<e.r, e.hop>>} /\ entered.main = MainAfter(b, e)
      /\ entered.initial = b.initial /\ entered.frame = b.frame
      /\ entered.navigation = b.navigation /\ entered.last = b.last
      /\ entered.documents = mainItems /\ \A d \in Documents : entered.status[d] \in {"none", b.status[d]}
  BY DEF Books
<1>13. b.last <= b.last
  BY IdleConstants DEF Books, IdleTimes, Never
<1> HIDE DEF status
<1>7. CASE IsKnown(b, e)
  BY <1>7, <1>13 DEF OnStart, StartLeaves, IsKnown
<1>8. CASE ~IsKnown(b, e) /\ BeforeNavigation(b, e.stamp)
  <2>1. OnStart(b, e) = [b EXCEPT !.seen = b.seen \cup {<<e.r, e.hop>>},
                                  !.ledger = [b.ledger EXCEPT ![e.r] = "prior"]]
    BY <1>8 DEF OnStart, IsKnown
  <2>2. [b.ledger EXCEPT ![e.r] = "prior"] \in [Requests -> States]
    BY <1>2
  <2>3. OnStart(b, e) \in Books
    BY <1>2, <2>1, <2>2 DEF Books
  <2>4. QED
    BY <1>8, <1>13, <2>1, <2>3 DEF StartLeaves, Books
<1>9. CASE ~IsKnown(b, e) /\ ~BeforeNavigation(b, e.stamp) /\ ~Belongs(b, e)
  BY <1>9, <1>13 DEF OnStart, StartLeaves, IsKnown, Belongs, MainAfter
<1>10. CASE ~IsKnown(b, e) /\ ~BeforeNavigation(b, e.stamp) /\ Belongs(b, e) /\ e.r = "feed"
  <2>1. OnStart(b, e) = [b EXCEPT !.ledger = [b.ledger EXCEPT ![e.r] = "ignored"]]
    BY <1>10 DEF OnStart, IsKnown, Belongs, MainAfter
  <2>2. OnStart(b, e) \in Books
    BY <1>2, <2>1 DEF Books
  <2>3. QED
    BY <1>10, <1>13, <2>1, <2>2 DEF StartLeaves, Books
<1>11. CASE ~IsKnown(b, e) /\ ~BeforeNavigation(b, e.stamp) /\ Belongs(b, e) /\ e.r # "feed"
  <2>1. OnStart(b, e) = Activity(entered, e)
    BY <1>11 DEF OnStart, IsKnown, Belongs, MainAfter, Item, status, mainItems
  <2> HIDE DEF entered
  <2>2. QED
    <3>1. OnStart(b, e) \in Books
      BY <1>5, <2>1, ActivityBook
    <3>2. /\ OnStart(b, e).ledger = entered.ledger /\ OnStart(b, e).seen = entered.seen
          /\ OnStart(b, e).main = entered.main /\ OnStart(b, e).initial = entered.initial
          /\ OnStart(b, e).frame = entered.frame /\ OnStart(b, e).navigation = entered.navigation
          /\ OnStart(b, e).documents = entered.documents /\ OnStart(b, e).status = entered.status
          /\ entered.last <= OnStart(b, e).last /\ e.time <= OnStart(b, e).last
      BY <1>5, <2>1, ActivityFields
    <3>3. QED
      BY <1>6, <1>11, <3>1, <3>2 DEF StartLeaves, mainItems
<1>12. QED
  BY <1>7, <1>8, <1>9, <1>10, <1>11

\* The other events: what they leave of the book, and what they end.
EndState(kind) == CASE kind = "finish" -> "finished" [] kind = "fail" -> "failed" [] OTHER -> "detached"

OtherLeaves(b, e, c) ==
    /\ c \in Books /\ b.last <= c.last
    /\ c.seen = b.seen /\ c.main = b.main /\ c.initial = b.initial
    /\ c.navigation = b.navigation /\ c.documents = b.documents
    /\ \A d \in Documents :
          c.status[d] = b.status[d] \/ (d = e.r /\ e.kind \in {"ok", "bad"} /\ c.status[d] = e.kind)
    /\ \A r \in Requests : c.ledger[r] # b.ledger[r] =>
          /\ b.ledger[r] = "pending" /\ c.ledger[r] \in {"finished", "failed", "detached"}
          /\ Ends(e, r) /\ c.ledger[r] = EndState(e.kind)
    /\ \A r \in Requests : Ends(e, r) => c.ledger[r] # "pending"
    /\ b.ledger[e.r] = "pending" /\ e.kind # "attach" => e.time <= c.last
    /\ c.frame = IF e.kind = "attach" THEN TRUE
                 ELSE IF e.kind = "detach" THEN FALSE ELSE b.frame

LEMMA EndLeaves ==
    ASSUME NEW b \in Books, NEW e \in IdleEvents, e.kind \in {"finish", "fail"},
           NEW state, state = EndState(e.kind)
    PROVE  OtherLeaves(b, e, OnEnd(b, e, state))
<1> DEFINE ended == [b EXCEPT !.ledger = [b.ledger EXCEPT ![e.r] = state],
                              !.finishedAt = [b.finishedAt EXCEPT ![e.r] = e.time]]
<1>1. /\ e.r \in Requests /\ e.time \in 0 .. MaxTime
      /\ b.ledger \in [Requests -> States] /\ b.finishedAt \in [Requests -> IdleTimes]
  BY DEF Books, IdleEvents
<1>8. state \in {"finished", "failed"}
  BY DEF EndState
<1>9. b.last <= b.last
  BY IdleConstants DEF Books, IdleTimes, Never
<1>2. /\ [b.ledger EXCEPT ![e.r] = state] \in [Requests -> States]
      /\ [b.finishedAt EXCEPT ![e.r] = e.time] \in [Requests -> IdleTimes]
  BY <1>1, <1>8, IdleConstants DEF States, IdleTimes, Never
<1>3. ended \in Books
  BY <1>2 DEF Books
<1>4. /\ ended.ledger = [b.ledger EXCEPT ![e.r] = state]
      /\ ended.seen = b.seen /\ ended.main = b.main
      /\ ended.initial = b.initial /\ ended.frame = b.frame
      /\ ended.navigation = b.navigation /\ ended.documents = b.documents
      /\ ended.status = b.status /\ ended.last = b.last
  BY DEF Books
<1>5. CASE b.ledger[e.r] # "pending"
  BY <1>5, <1>9 DEF OnEnd, OtherLeaves, Ends
<1>6. CASE b.ledger[e.r] = "pending"
  <2>1. OnEnd(b, e, state) = Activity(ended, e)
    BY <1>6 DEF OnEnd
  <2> HIDE DEF ended
  <2>2. QED
    <3>1. OnEnd(b, e, state) \in Books
      BY <1>3, <2>1, ActivityBook
    <3>2. /\ OnEnd(b, e, state).ledger = [b.ledger EXCEPT ![e.r] = state]
          /\ OnEnd(b, e, state).seen = b.seen /\ OnEnd(b, e, state).main = b.main
          /\ OnEnd(b, e, state).initial = b.initial /\ OnEnd(b, e, state).frame = b.frame
          /\ OnEnd(b, e, state).navigation = b.navigation
          /\ OnEnd(b, e, state).documents = b.documents /\ OnEnd(b, e, state).status = b.status
          /\ b.last <= OnEnd(b, e, state).last /\ e.time <= OnEnd(b, e, state).last
      BY <1>3, <1>4, <2>1, ActivityFields
    <3>3. QED
      BY <1>1, <1>6, <1>8, <3>1, <3>2 DEF OtherLeaves, Ends
<1>7. QED
  BY <1>5, <1>6

LEMMA AnswerLeaves ==
    ASSUME NEW b \in Books, NEW e \in IdleEvents, e.kind \in {"ok", "bad"}, e.r \in Documents
    PROVE  OtherLeaves(b, e, OnAnswer(b, e))
<1> DEFINE answered == [b EXCEPT !.status = [b.status EXCEPT ![e.r] = e.kind]]
<1>1. [b.status EXCEPT ![e.r] = e.kind] \in [Documents -> IdleAnswers]
  BY DEF Books, IdleAnswers
<1>2. answered \in Books
  BY <1>1 DEF Books
<1>3. /\ answered.ledger = b.ledger /\ answered.seen = b.seen /\ answered.main = b.main
      /\ answered.initial = b.initial /\ answered.frame = b.frame
      /\ answered.navigation = b.navigation /\ answered.documents = b.documents
      /\ answered.last = b.last /\ answered.status = [b.status EXCEPT ![e.r] = e.kind]
      /\ b.status \in [Documents -> IdleAnswers]
  BY DEF Books
<1>7. b.last <= b.last
  BY IdleConstants DEF Books, IdleTimes, Never
<1>4. CASE b.ledger[e.r] # "pending"
  BY <1>4, <1>7 DEF OnAnswer, OtherLeaves, Ends
<1>5. CASE b.ledger[e.r] = "pending"
  <2>1. OnAnswer(b, e) = Activity(answered, e)
    BY <1>5 DEF OnAnswer
  <2> HIDE DEF answered
  <2>2. QED
    <3>1. OnAnswer(b, e) \in Books
      BY <1>2, <2>1, ActivityBook
    <3>2. /\ OnAnswer(b, e).ledger = b.ledger
          /\ OnAnswer(b, e).seen = b.seen /\ OnAnswer(b, e).main = b.main
          /\ OnAnswer(b, e).initial = b.initial /\ OnAnswer(b, e).frame = b.frame
          /\ OnAnswer(b, e).navigation = b.navigation
          /\ OnAnswer(b, e).documents = b.documents /\ OnAnswer(b, e).status = answered.status
          /\ b.last <= OnAnswer(b, e).last /\ e.time <= OnAnswer(b, e).last
      BY <1>2, <1>3, <2>1, ActivityFields
    <3>3. QED
      BY <1>3, <3>1, <3>2 DEF OtherLeaves, Ends
<1>6. QED
  BY <1>4, <1>5

LEMMA FrameLeaves ==
    ASSUME NEW b \in Books, NEW e \in IdleEvents, e.kind \in {"attach", "detach"}, e.r = "sub"
    PROVE  OtherLeaves(b, e, Enter(b, e))
<1>4. b.last <= b.last
  BY IdleConstants DEF Books, IdleTimes, Never
<1>1. CASE e.kind = "attach"
  <2>1. Enter(b, e) = [b EXCEPT !.frame = TRUE]
    BY <1>1 DEF Enter
  <2>2. Enter(b, e) \in Books
    BY <2>1 DEF Books
  <2>3. QED
    BY <1>1, <1>4, <2>1, <2>2 DEF OtherLeaves, Ends, Books
<1>2. CASE e.kind = "detach"
  <2> DEFINE removed == [b EXCEPT !.frame = FALSE]
             detached == [removed EXCEPT !.ledger = [b.ledger EXCEPT !["sub"] = "detached"]]
  <2>1. Enter(b, e) = OnDetach(b, e) /\ e.r \in Requests
    BY <1>2 DEF Enter, IdleEvents
  <2>2. removed \in Books
    BY DEF Books
  <2>3. /\ removed.ledger = b.ledger /\ removed.seen = b.seen /\ removed.main = b.main
        /\ removed.initial = b.initial /\ removed.frame = FALSE
        /\ removed.navigation = b.navigation /\ removed.documents = b.documents
        /\ removed.status = b.status /\ removed.last = b.last
    BY DEF Books
  <2>4. CASE b.ledger["sub"] # "pending"
    <3>1. Enter(b, e) = removed
      BY <2>1, <2>4 DEF OnDetach
    <3> HIDE DEF removed
    <3>2. QED
      BY <1>2, <1>4, <2>2, <2>3, <2>4, <3>1 DEF OtherLeaves, Ends
  <2>5. CASE b.ledger["sub"] = "pending"
    <3>1. [b.ledger EXCEPT !["sub"] = "detached"] \in [Requests -> States]
      BY <2>1 DEF Books, States
    <3>2. Enter(b, e) = Activity(detached, e)
      BY <2>1, <2>3, <2>5 DEF OnDetach, Books
    <3>3. detached \in Books
      BY <3>1 DEF Books
    <3>4. /\ detached.ledger = [b.ledger EXCEPT !["sub"] = "detached"]
          /\ detached.seen = b.seen /\ detached.main = b.main
          /\ detached.initial = b.initial /\ detached.frame = FALSE
          /\ detached.navigation = b.navigation /\ detached.documents = b.documents
          /\ detached.status = b.status /\ detached.last = b.last
      BY DEF Books
    <3>5. b.ledger \in [Requests -> States]
      BY DEF Books
    <3> HIDE DEF detached, removed
    <3>6. QED
      <4>1. Enter(b, e) \in Books
        BY <3>2, <3>3, ActivityBook
      <4>2. /\ Enter(b, e).ledger = [b.ledger EXCEPT !["sub"] = "detached"]
            /\ Enter(b, e).seen = b.seen /\ Enter(b, e).main = b.main
            /\ Enter(b, e).initial = b.initial /\ Enter(b, e).frame = FALSE
            /\ Enter(b, e).navigation = b.navigation
            /\ Enter(b, e).documents = b.documents /\ Enter(b, e).status = b.status
            /\ b.last <= Enter(b, e).last /\ e.time <= Enter(b, e).last
        BY <3>2, <3>3, <3>4, ActivityFields
      <4>3. QED
        BY <1>2, <2>1, <2>5, <3>5, <4>1, <4>2 DEF OtherLeaves, Ends, EndState
  <2>6. QED
    BY <2>4, <2>5
<1>3. QED
  BY <1>1, <1>2

LEMMA EnterLeaves ==
    ASSUME NEW b \in Books, NEW e \in IdleEvents,
           e.kind \in {"ok", "bad"} => e.r \in Documents,
           e.kind \in {"attach", "detach"} => e.r = "sub"
    PROVE  /\ e.kind = "start" => StartLeaves(b, e, Enter(b, e))
           /\ e.kind # "start" => OtherLeaves(b, e, Enter(b, e))
<1>1. CASE e.kind = "start"
  BY <1>1, OnStartLeaves DEF Enter
<1>2. CASE e.kind = "finish"
  BY <1>2, EndLeaves DEF Enter, EndState
<1>3. CASE e.kind = "fail"
  BY <1>3, EndLeaves DEF Enter, EndState
<1>4. CASE e.kind \in {"attach", "detach"}
  BY <1>4, FrameLeaves
<1>5. CASE e.kind \in {"ok", "bad"}
  BY <1>5, AnswerLeaves DEF Enter
<1>6. QED
  BY <1>1, <1>2, <1>3, <1>4, <1>5 DEF IdleEvents, EventKinds
-----------------------------------------------------------------------------
(* The session                                                             *)

\* A step that leaves the browser and what the book says of its events.
LEMMA QuietKeeps ==
    ASSUME IdleInv, UNCHANGED browserVars, now' \in 0 .. MaxTime, SessionTyped',
           book'.ledger = book.ledger, book'.seen = book.seen, book'.main = book.main,
           book'.initial = book.initial, book'.frame = book.frame,
           book'.navigation = book.navigation, book'.documents = book.documents,
           pc' = "navigate" => pc = "navigate" /\ book' = book,
           pc = "navigate" => pc' = "navigate",
           book.navigation = Never => pc' \in {"navigate", "log", "cdp"}
    PROVE  IdleInv'
<1>1. BrowserTyped' /\ BrowserTrue'
  BY DEF IdleInv, BrowserTyped, BrowserTrue, browserVars
<1>2. /\ \A r, h : Happened(r, h)' <=> Happened(r, h)
      /\ \A r : Over(r)' <=> Over(r)
      /\ log' = log /\ cdp' = cdp /\ stamp' = stamp /\ iframe' = iframe
      /\ loader' = loader /\ truth' = truth
  BY DEF browserVars, Happened, Over
<1>3. \A x : Real(x)' <=> Real(x)
  BY <1>2 DEF Real
<1>4. StreamTrue(log)' /\ StreamTrue(cdp)'
  BY <1>2, <1>3 DEF IdleInv, StreamTrue, InOrder, Told
<1>5. /\ DocSeen' <=> DocSeen
      /\ \A r, h : Known(r, h)' <=> Known(r, h)
  BY <1>2 DEF Known, DocSeen
<1>6. NothingMissed(log)' /\ NothingMissed(cdp)'
  BY <1>2, <1>5 DEF IdleInv, NothingMissed, Told, IsStart
<1>7. EndsTold' /\ PendingTold'
  BY <1>2 DEF IdleInv, EndsTold, PendingTold, Told, Ends
<1>8. BookBegun'
  BY <1>2 DEF IdleInv, BookBegun
<1>9. BookAhead' /\ SecondSeen' /\ OldLeftOut'
  BY <1>2, <1>5 DEF IdleInv, BookAhead, SecondSeen, OldLeftOut, Told
<1>10. QED
  BY <1>1, <1>4, <1>6, <1>7, <1>8, <1>9 DEF IdleInv

LEMMA TickKeeps ==
    ASSUME IdleInv, Tick
    PROVE  IdleInv'
<1>1. now' \in 0 .. MaxTime
  BY IdleConstants DEF Tick, IdleInv, BrowserTyped
<1>2. UNCHANGED <<browserVars, sessionVars>> /\ log' = log
  BY DEF Tick, browserVars
<1>3. SessionTyped'
  BY <1>2 DEF IdleInv, SessionTyped, sessionVars
<1>4. book.navigation = Never => pc' \in {"navigate", "log", "cdp"}
  BY <1>2 DEF IdleInv, BookBegun, sessionVars
<1>5. QED
  BY <1>1, <1>2, <1>3, <1>4, QuietKeeps DEF sessionVars

LEMMA ReadLogKeeps ==
    ASSUME IdleInv, ReadLog
    PROVE  IdleInv'
<1>1. due' \in 0 .. Len(log)
  <2>1. Len(log) \in Nat
    BY DEF IdleInv, StreamTrue
  <2>2. QED
    BY <2>1 DEF ReadLog
<1>2. SessionTyped'
  BY <1>1 DEF ReadLog, IdleInv, SessionTyped, browserVars
<1>3. now' \in 0 .. MaxTime
  BY DEF ReadLog, IdleInv, BrowserTyped
<1>4. QED
  BY <1>2, <1>3, QuietKeeps DEF ReadLog

LEMMA RecheckKeeps ==
    ASSUME IdleInv, Recheck
    PROVE  IdleInv'
<1>1. SessionTyped'
  BY IdleConstants DEF Recheck, IdleInv, SessionTyped, browserVars
<1>2. now' \in 0 .. MaxTime
  BY DEF Recheck, IdleInv, BrowserTyped
<1>3. QED
  BY <1>1, <1>2, QuietKeeps DEF Recheck

\* The latest main document, if there is one.
LEMMA LatestInForce ==
    ASSUME NEW b \in Books, InForce(b) # {}
    PROVE  \E i \in InForce(b) : \A j \in InForce(b) : j <= i
<1> DEFINE n == Len(b.documents)
           behind == {k \in 0 .. n : n - k \in InForce(b)}
<1>1. n \in Nat /\ InForce(b) \subseteq 1 .. n
  <2>1. b.documents \in Seq(MainDocuments)
    BY DEF Books
  <2>2. QED
    BY <2>1 DEF InForce
<1> HIDE DEF n
<1>2. behind \subseteq Nat /\ behind # {}
  <2>1. PICK i : i \in InForce(b)
    OBVIOUS
  <2>2. n - i \in 0 .. n /\ n - (n - i) = i
    BY <1>1, <2>1
  <2>3. n - i \in behind
    BY <2>1, <2>2
  <2>4. QED
    BY <1>1, <2>3
<1>3. PICK k \in behind : \A m \in behind : k <= m
  BY <1>2, LeastOfNumbers
<1>4. k \in 0 .. n /\ n - k \in InForce(b)
  OBVIOUS
<1>5. ASSUME NEW j \in InForce(b)
      PROVE  j <= n - k
  <2>1. j \in 1 .. n /\ n - j \in 0 .. n /\ n - (n - j) = j
    BY <1>1
  <2>2. n - j \in behind
    BY <2>1
  <2>3. k <= n - j
    BY <1>3, <2>2
  <2>4. QED
    BY <1>1, <1>4, <2>1, <2>3
<1>6. QED
  BY <1>4, <1>5

\* The target is the latest main document of the book, and the time of its end
\* is known.
LEMMA TargetBook ==
    ASSUME NEW b \in Books
    PROVE  /\ Target(b) \in Books
           /\ Target(b).ledger = b.ledger /\ Target(b).seen = b.seen
           /\ Target(b).main = b.main /\ Target(b).initial = b.initial
           /\ Target(b).frame = b.frame /\ Target(b).navigation = b.navigation
           /\ Target(b).documents = b.documents
           /\ Target(b).status = b.status /\ Target(b).last = b.last
           /\ \/ Target(b).target = <<>>
              \/ \E i \in InForce(b) : /\ \A j \in InForce(b) : j <= i
                                       /\ Target(b).target = <<b.documents[i]>>
<1> DEFINE latest == CHOOSE i \in InForce(b) : \A j \in InForce(b) : j <= i
           target == IF InForce(b) = {} THEN <<>> ELSE <<b.documents[latest]>>
           at == IF target = b.target THEN b.completedAt ELSE Never
           d == target[1].r
           complete == target # <<>> /\ b.ledger[d] = "finished" /\ b.status[d] = "ok"
           time == IF complete /\ at = Never THEN b.finishedAt[d] ELSE at
<1>1. Target(b) = [b EXCEPT !.target = target, !.completedAt = time]
  BY DEF Target
<1>2. b.documents \in Seq(MainDocuments) /\ b.completedAt \in IdleTimes
      /\ b.finishedAt \in [Requests -> IdleTimes]
  BY DEF Books
<1>3. InForce(b) # {} => latest \in InForce(b) /\ \A j \in InForce(b) : j <= latest
  BY LatestInForce
<1>8. \/ target = <<>>
      \/ \E i \in InForce(b) : (\A j \in InForce(b) : j <= i) /\ target = <<b.documents[i]>>
  <2> HIDE DEF latest
  <2>1. QED
    BY <1>3
<1>4. target \in Seq(MainDocuments) /\ (target # <<>> => d \in Requests)
  <2>1. CASE target = <<>>
    BY <2>1
  <2>2. ASSUME NEW i \in InForce(b), target = <<b.documents[i]>>
        PROVE  target \in Seq(MainDocuments) /\ d \in Requests
    <3>1. i \in 1 .. Len(b.documents)
      BY DEF InForce
    <3>2. b.documents[i] \in MainDocuments
      BY <1>2, <3>1
    <3>3. b.documents[i].r \in Requests
      BY <3>2, IdleConstants DEF MainDocuments
    <3> HIDE DEF target
    <3>4. QED
      BY <2>2, <3>2, <3>3
  <2>3. QED
    BY <1>8, <2>1, <2>2
<1> HIDE DEF target
<1>5. time \in IdleTimes
  BY <1>2, <1>4, IdleConstants DEF IdleTimes, Never
<1> HIDE DEF time
<1>6. [b EXCEPT !.target = target, !.completedAt = time] \in Books
  BY <1>4, <1>5 DEF Books
<1>9. Target(b) \in Books /\ Target(b).target = target
  BY <1>1, <1>6 DEF Books
<1>7. QED
  BY <1>1, <1>8, <1>9 DEF Books

LEMMA DecideKeeps ==
    ASSUME IdleInv, Decide
    PROVE  IdleInv'
<1> DEFINE b == [book EXCEPT !.last = IF @ = Never THEN now ELSE @]
           time == IF book.last = Never THEN now ELSE book.last
<1>1. /\ pc = "read" /\ book' = Target(b) /\ UNCHANGED <<now, browserVars, due, waits>>
      /\ pc' \in {"failed", "loaded", "timeout", "log"}
      /\ reason' \in {"none", "network_idle", "resource_stall", "resource_timeout"}
  <2>1. /\ pc = "read" /\ book' = Target(b) /\ UNCHANGED <<now, browserVars, due, waits>>
        /\ \/ pc' = "failed" /\ reason' = "none"
           \/ pc' = "loaded" /\ reason' = Reason(book')
           \/ pc' = "timeout" /\ reason' = "none"
           \/ pc' = "log" /\ reason' = reason
    BY DEF Decide, Stop
  <2>2. Reason(book') \in {"none", "network_idle", "resource_stall", "resource_timeout"}
    BY DEF Reason
  <2>3. reason \in {"none", "network_idle", "resource_stall", "resource_timeout"}
    BY DEF IdleInv, SessionTyped
  <2>4. QED
    BY <2>1, <2>2, <2>3
<1>2. book \in Books /\ now \in 0 .. MaxTime /\ due \in 0 .. Len(log) /\ waits \in 0 .. Waits
  BY DEF IdleInv, SessionTyped, BrowserTyped
<1>3. time \in IdleTimes
  <2>1. book.last \in IdleTimes
    BY <1>2 DEF Books
  <2>2. QED
    BY <1>2, <2>1, IdleConstants DEF IdleTimes, Never
<1>4. b = [book EXCEPT !.last = time]
  BY <1>2 DEF Books
<1> HIDE DEF time, b
<1>5. b \in Books
  BY <1>2, <1>3, <1>4 DEF Books
<1>6. /\ b.ledger = book.ledger /\ b.seen = book.seen /\ b.main = book.main
      /\ b.initial = book.initial /\ b.frame = book.frame
      /\ b.navigation = book.navigation /\ b.documents = book.documents
  BY <1>2, <1>4 DEF Books
<1>7. SessionTyped'
  <2>1. book' \in Books
    BY <1>1, <1>5, TargetBook
  <2>2. due' \in 0 .. Len(log') /\ waits' \in 0 .. Waits
    BY <1>1, <1>2 DEF browserVars
  <2>3. pc' \in {"navigate", "log", "cdp", "read", "loaded", "failed", "timeout"}
    BY <1>1
  <2>4. QED
    BY <1>1, <2>1, <2>2, <2>3 DEF SessionTyped
<1>8. /\ book'.ledger = book.ledger /\ book'.seen = book.seen /\ book'.main = book.main
      /\ book'.initial = book.initial /\ book'.frame = book.frame
      /\ book'.navigation = book.navigation /\ book'.documents = book.documents
  BY <1>1, <1>5, <1>6, TargetBook
<1>9. book.navigation # Never
  BY <1>1 DEF IdleInv, BookBegun
<1>10. QED
  BY <1>1, <1>2, <1>7, <1>8, <1>9, QuietKeeps

LEMMA BeginKeeps ==
    ASSUME IdleInv, Begin
    PROVE  IdleInv'
<1>1. /\ pc = "navigate" /\ loader # "none" /\ pc' = "log" /\ waits' = 1
      /\ book = EmptyBook
      /\ book' = [EmptyBook EXCEPT !.main = loader, !.initial = loader,
                                   !.frame = (iframe = "there")]
      /\ UNCHANGED <<now, browserVars, due, reason>>
  BY DEF Begin, IdleInv, BookBegun
<1>2. /\ log' = log /\ cdp' = cdp /\ stamp' = stamp /\ iframe' = iframe
      /\ loader' = loader /\ truth' = truth /\ answer' = answer /\ hops' = hops
  BY <1>1 DEF browserVars
<1>3. BrowserTyped' /\ BrowserTrue'
  BY <1>1 DEF IdleInv, BrowserTyped, BrowserTrue, browserVars
<1>4. /\ \A r, h : Happened(r, h)' <=> Happened(r, h)
      /\ \A r : Over(r)' <=> Over(r)
  BY <1>2 DEF Happened, Over
<1>5. \A x : Real(x)' <=> Real(x)
  BY <1>2, <1>4 DEF Real
<1>6. StreamTrue(log)' /\ StreamTrue(cdp)'
  BY <1>2, <1>5 DEF IdleInv, StreamTrue, InOrder, Told
<1>7. EndsTold'
  BY <1>2, <1>4 DEF IdleInv, EndsTold, Told, Ends
<1>8. /\ book'.ledger = [r \in Requests |-> "unseen"] /\ book'.seen = {}
      /\ book'.main = loader /\ book'.initial = loader
      /\ book'.frame = (iframe = "there") /\ book'.navigation = Never
      /\ book'.documents = <<>>
  BY <1>1 DEF EmptyBook
<1>9. /\ book.seen = {} /\ book.main = "none" /\ book.frame = FALSE
      /\ book.navigation = Never
  BY <1>1 DEF EmptyBook
<1>10. loader \in {"first", "second"}
  BY <1>1 DEF IdleInv, BrowserTyped, IdleLoaders
<1>11. SessionTyped'
  <2>1. book \in Books
    BY DEF IdleInv, SessionTyped
  <2>2. /\ loader \in IdleLoaders /\ (iframe = "there") \in BOOLEAN
    BY <1>10 DEF IdleLoaders
  <2>3. [book EXCEPT !.main = loader, !.initial = loader, !.frame = (iframe = "there")] \in Books
    BY <2>1, <2>2 DEF Books
  <2>4. book' \in Books
    BY <1>1, <2>3
  <2>5. 1 \in 0 .. Waits
    BY IdleConstants
  <2>6. QED
    BY <1>1, <1>2, <2>4, <2>5 DEF IdleInv, SessionTyped
<1>12. NothingMissed(log)' /\ NothingMissed(cdp)'
  <2>1. ASSUME NEW r, NEW h, Known(r, h)
        PROVE  Known(r, h)'
    BY <1>9, <2>1 DEF Known
  <2>2. book.seen = {} /\ book'.seen = {} /\ ~book.frame /\ (iframe = "there" => book'.frame)
    BY <1>8, <1>9
  <2>3. QED
    BY <1>2, <1>4, <2>1, <2>2 DEF IdleInv, NothingMissed, Told, IsStart
<1>13. BookBegun'
  <2>1. /\ loader = "first" => truth["doc"] # "no"
        /\ loader = "second" => "doc2" \in Documents /\ truth["doc2"] # "no"
    BY <1>10, IdleConstants DEF IdleInv, BrowserTrue
  <2>2. log = cdp
    BY <1>9 DEF IdleInv, BookBegun
  <2>3. QED
    BY <1>1, <1>2, <1>8, <1>10, <2>1, <2>2 DEF BookBegun
<1>14. BookAhead' /\ SecondSeen' /\ OldLeftOut' /\ PendingTold'
  BY <1>8 DEF BookAhead, SecondSeen, OldLeftOut, PendingTold
<1>15. QED
  BY <1>3, <1>6, <1>7, <1>11, <1>12, <1>13, <1>14 DEF IdleInv

\* The first batch has the start of the document the session began with; it
\* comes after the old page's request and not after the start of another.
LEMMA FirstStart ==
    ASSUME IdleInv, pc = "cdp", book.navigation = Never,
           NEW events, events = Told(cdp)
    PROVE  \E first \in Nat :
              /\ FindNavigation(book, events) =
                    [book EXCEPT !.navigation = first, !.ledger = [r \in Requests |-> book.ledger[r]]]
              /\ first <= stamp
              /\ \A x \in Told(cdp) : x.kind = "start" =>
                    /\ x.r = "old" => x.stamp < first
                    /\ x.r = "doc2" => x.stamp >= first
                    /\ x.stamp < first =>
                          x.r = "old" \/ (book.initial = "second" /\ x.r \notin {"doc2", "img2"})
<1> DEFINE opens(x) == x.kind = "start" /\ x.r \in Documents /\ Loader(x.r) = book.initial
           starts == {x.stamp : x \in {y \in events : opens(y)}}
           first == CHOOSE n \in starts : \A m \in starts : n <= m
<1>1. /\ book.initial \in {"first", "second"}
      /\ book.initial = "first" => truth["doc"] # "no"
      /\ book.initial = "second" => "doc2" \in Documents /\ truth["doc2"] # "no"
      /\ book.ledger = [r \in Requests |-> "unseen"]
      /\ book.seen = {} /\ book.documents = <<>>
  BY DEF IdleInv, BookBegun
<1>2. \A x \in Told(cdp) : x.stamp \in Nat /\ x.stamp <= stamp /\ x.r \in Requests
  BY ToldIsReal DEF Real
<1>3. \A r \in Documents : truth[r] # "no" => \E x \in Told(cdp) : x.kind = "start" /\ x.r = r
  <2>1. ASSUME NEW r \in Documents, truth[r] # "no"
        PROVE  \E x \in Told(cdp) : x.kind = "start" /\ x.r = r
    <3>1. r \in Requests /\ r # "feed" /\ r # "img" /\ Happened(r, 0) /\ 0 \in Hops
      BY <2>1, IdleConstants DEF Happened, Hops
    <3>2. ~Known(r, 0)
      BY <1>1, <3>1 DEF Known
    <3>3. \E x \in Told(cdp) : IsStart(x, r, 0)
      BY <3>1, <3>2 DEF IdleInv, NothingMissed
    <3>4. QED
      BY <3>3 DEF IsStart
  <2>2. QED
    BY <2>1
<1>4. starts \subseteq Nat /\ starts # {}
  <2>1. PICK d \in Documents : Loader(d) = book.initial /\ truth[d] # "no"
    BY <1>1, IdleConstants DEF Loader
  <2>2. PICK x \in Told(cdp) : x.kind = "start" /\ x.r = d
    BY <1>3, <2>1
  <2>3. x.stamp \in starts
    BY <2>1, <2>2
  <2>4. QED
    BY <1>2, <2>3
<1>5. first \in starts /\ \A m \in starts : first <= m
  <2> HIDE DEF starts
  <2>1. \E n \in starts : \A m \in starts : n <= m
    BY <1>4, LeastOfNumbers
  <2>2. QED
    BY <2>1
<1>6. PICK x0 \in Told(cdp) : opens(x0) /\ x0.stamp = first
  BY <1>5
<1>7. first \in Nat /\ first <= stamp
  BY <1>2, <1>6
<1>8. FindNavigation(book, events) =
         [book EXCEPT !.navigation = first, !.ledger = [r \in Requests |-> book.ledger[r]]]
  <2> DEFINE outside(r) == \/ r = "old" /\ book.ledger[r] # "unseen"
                           \/ \E i \in DOMAIN book.documents :
                                 book.documents[i].r = r /\ book.documents[i].stamp < first
  <2>1. FindNavigation(book, events) =
          IF book.navigation # Never \/ starts = {} THEN book
          ELSE [book EXCEPT !.navigation = first,
                  !.ledger = [r \in Requests |-> IF outside(r) THEN "prior" ELSE book.ledger[r]]]
    BY DEF FindNavigation
  <2>2. \A r \in Requests : ~outside(r)
    <3> HIDE DEF first
    <3>1. DOMAIN book.documents = {}
      BY <1>1
    <3>2. QED
      BY <1>1, <3>1
  <2> HIDE DEF outside, first, starts
  <2>3. QED
    BY <1>4, <2>1, <2>2
<1> HIDE DEF first
<1>10. ASSUME NEW x \in Told(cdp), NEW y \in Told(cdp), TooLate(y, x), x # y
       PROVE  x.stamp < y.stamp
  <2>1. PICK i \in 1 .. Len(cdp), j \in 1 .. Len(cdp) : x = cdp[i] /\ y = cdp[j]
    BY DEF Told
  <2>2. Len(cdp) \in Nat /\ i # j
    BY <1>10, <2>1 DEF IdleInv, StreamTrue
  <2>3. ~(j < i)
    BY <1>10, <2>1 DEF IdleInv, StreamTrue, InOrder
  <2>4. i < j
    BY <2>2, <2>3
  <2>5. ~TooLate(x, y)
    BY <2>1, <2>4 DEF IdleInv, StreamTrue, InOrder
  <2>6. ~(y.stamp <= x.stamp)
    BY <2>5 DEF TooLate
  <2>7. QED
    BY <1>2, <2>6
<1>11. ASSUME NEW x \in Told(cdp), x.kind = "start", x.r = "old"
       PROVE  x.stamp < first
  <2>1. x0 # x
    BY <1>6, <1>11, IdleConstants
  <2>2. TooLate(x0, x)
    BY <1>11 DEF TooLate
  <2>3. QED
    BY <1>6, <1>10, <2>1, <2>2
<1>12. ASSUME NEW x \in Told(cdp), x.kind = "start", x.r = "doc2"
       PROVE  x.stamp >= first
  <2>1. CASE book.initial = "second"
    <3>1. "doc2" \in Documents /\ Loader("doc2") = "second"
      BY <1>1, <2>1 DEF Loader
    <3>2. x.stamp \in starts
      BY <1>12, <2>1, <3>1
    <3>3. QED
      BY <1>2, <1>5, <1>7, <3>2
  <2>2. CASE book.initial = "first"
    <3>1. x0.kind = "start" /\ x0.r = "doc"
      BY <1>6, <2>2, IdleConstants DEF Loader
    <3>2. x # x0 /\ TooLate(x, x0)
      BY <1>12, <3>1 DEF TooLate
    <3>3. x0.stamp < x.stamp
      BY <1>10, <3>2
    <3>4. QED
      BY <1>2, <1>6, <3>3
  <2>3. QED
    BY <1>1, <2>1, <2>2
<1>13. ASSUME NEW x \in Told(cdp), x.kind = "start", x.stamp < first, x.r # "old"
       PROVE  book.initial = "second" /\ x.r \notin {"doc2", "img2"}
  <2>1. ~(x0.stamp <= x.stamp) /\ x # x0 /\ ~TooLate(x, x0)
    <3>1. ~(x0.stamp <= x.stamp)
      BY <1>2, <1>6, <1>13
    <3>2. x # x0
      BY <1>2, <1>6, <1>13
    <3>3. ASSUME TooLate(x, x0)
          PROVE  FALSE
      <4>1. x0.stamp < x.stamp
        BY <1>10, <3>2, <3>3
      <4>2. QED
        BY <1>2, <1>6, <3>1, <4>1
    <3>4. QED
      BY <3>1, <3>2, <3>3
  <2>2. CASE book.initial = "first"
    <3>1. x0.kind = "start" /\ x0.r = "doc"
      BY <1>6, <2>2, IdleConstants DEF Loader
    <3>2. x.r = "doc"
      BY <1>13, <2>1, <3>1 DEF TooLate
    <3>3. x.stamp \in starts
      BY <1>13, <2>2, <3>2, IdleConstants DEF Loader
    <3>4. first <= x.stamp
      BY <1>5, <3>3
    <3>5. QED
      BY <1>6, <2>1, <3>4
  <2>3. CASE book.initial = "second"
    <3>1. x0.kind = "start" /\ x0.r = "doc2"
      BY <1>6, <2>3, IdleConstants DEF Loader
    <3>2. x.r # "img2"
      BY <1>13, <2>1, <3>1 DEF TooLate
    <3>3. x.r # "doc2"
      BY <1>2, <1>7, <1>12, <1>13
    <3>4. QED
      BY <2>3, <3>2, <3>3
  <2>4. QED
    BY <1>1, <2>2, <2>3
<1>14. QED
  BY <1>7, <1>8, <1>11, <1>12, <1>13

LEMMA GatherKeeps ==
    ASSUME IdleInv, GatherEvents
    PROVE  IdleInv'
<1> DEFINE events == {log[i] : i \in 1 .. due} \cup {cdp[i] : i \in 1 .. Len(cdp)}
<1>1. /\ pc = "cdp" /\ pc' = "read" /\ book' = FindNavigation(book, events)
      /\ UNCHANGED <<now, browserVars, due, reason, waits>>
  BY DEF GatherEvents
<1>2. now' \in 0 .. MaxTime /\ book \in Books
  BY <1>1 DEF IdleInv, BrowserTyped, SessionTyped
<1>3. CASE book.navigation # Never
  <2>1. book' = book
    BY <1>1, <1>3 DEF FindNavigation
  <2>2. SessionTyped'
    BY <1>1, <2>1 DEF IdleInv, SessionTyped, browserVars
  <2>3. QED
    BY <1>1, <1>2, <1>3, <2>1, <2>2, QuietKeeps
<1>4. CASE book.navigation = Never
  <2>1. log = cdp /\ due \in 0 .. Len(log) /\ Len(log) \in Nat
    BY <1>4 DEF IdleInv, BookBegun, SessionTyped, StreamTrue
  <2>2. events = Told(cdp)
    BY <2>1 DEF Told
  <2> HIDE DEF events
  <2>3. PICK first \in Nat :
              /\ book' = [book EXCEPT !.navigation = first,
                                      !.ledger = [r \in Requests |-> book.ledger[r]]]
              /\ first <= stamp
              /\ \A x \in Told(cdp) : x.kind = "start" =>
                    /\ x.r = "old" => x.stamp < first
                    /\ x.r = "doc2" => x.stamp >= first
    BY <1>1, <1>4, <2>2, FirstStart
  <2>4. [r \in Requests |-> book.ledger[r]] = book.ledger
    BY <1>2 DEF Books
  <2>5. book' = [book EXCEPT !.navigation = first, !.ledger = book.ledger]
    BY <2>3, <2>4
  <2>6. /\ book' \in Books
        /\ book'.ledger = book.ledger /\ book'.seen = book.seen /\ book'.main = book.main
        /\ book'.initial = book.initial /\ book'.frame = book.frame
        /\ book'.navigation = first /\ book'.documents = book.documents
    BY <1>2, <2>5 DEF Books
  <2>7. BrowserTyped' /\ BrowserTrue'
    BY <1>1 DEF IdleInv, BrowserTyped, BrowserTrue, browserVars
  <2>8. /\ \A r, h : Happened(r, h)' <=> Happened(r, h)
        /\ \A r : Over(r)' <=> Over(r)
        /\ log' = log /\ cdp' = cdp /\ stamp' = stamp /\ iframe' = iframe
        /\ loader' = loader /\ truth' = truth
    BY <1>1 DEF browserVars, Happened, Over
  <2>9. \A x : Real(x)' <=> Real(x)
    BY <2>8 DEF Real
  <2>10. StreamTrue(log)' /\ StreamTrue(cdp)'
    BY <2>8, <2>9 DEF IdleInv, StreamTrue, InOrder, Told
  <2>11. /\ DocSeen' <=> DocSeen
         /\ \A r, h : Known(r, h)' <=> Known(r, h)
    BY <2>6, <2>8 DEF Known, DocSeen
  <2>12. NothingMissed(log)' /\ NothingMissed(cdp)'
    BY <2>6, <2>8, <2>11 DEF IdleInv, NothingMissed, Told, IsStart
  <2>13. EndsTold' /\ PendingTold'
    BY <2>6, <2>8 DEF IdleInv, EndsTold, PendingTold, Told, Ends
  <2>14. BookBegun'
    BY <1>1, <2>6, <2>8, IdleConstants DEF IdleInv, BookBegun
  <2>15. BookAhead'
    BY <2>1, <2>3, <2>6, <2>8 DEF BookAhead, Told
  <2>16. SecondSeen' /\ OldLeftOut'
    BY <2>6, <2>8, <2>11 DEF IdleInv, SecondSeen, OldLeftOut
  <2>17. SessionTyped'
    BY <1>1, <2>6, <2>8 DEF IdleInv, SessionTyped
  <2>18. QED
    BY <2>7, <2>10, <2>12, <2>13, <2>14, <2>15, <2>16, <2>17 DEF IdleInv
<1>5. QED
  BY <1>3, <1>4

\* An event is entered from a stream, which is left without it; the other stays.
Enters(s, rest, other) ==
    /\ pc = "read" /\ s \in {log, cdp} /\ other \in {log, cdp}
    /\ s # <<>> /\ rest = Tail(s)
    /\ book' = Enter(book, Head(s))
    /\ \/ s = log /\ other = cdp /\ log' = rest /\ cdp' = cdp
       \/ s = cdp /\ other = log /\ cdp' = rest /\ log' = log
    /\ UNCHANGED <<now, page, truth, answer, hops, loader, iframe, active, stamp, pc, reason, waits>>

\* The head of a stream: what a stream told, it tells once it is entered.
LEMMA EntersStream ==
    ASSUME IdleInv, NEW s, NEW rest, NEW other, Enters(s, rest, other)
    PROVE  /\ StreamTrue(s) /\ NothingMissed(s) /\ StreamTrue(other) /\ NothingMissed(other)
           /\ Head(s) \in IdleEvents /\ Head(s).r \in Requests /\ Head(s).hop \in Hops
           /\ Real(Head(s)) /\ Head(s) \in Told(log) \cup Told(cdp)
           /\ rest \in Seq(IdleEvents) /\ InOrder(rest) /\ Len(rest) = Len(s) - 1
           /\ Told(s) = {Head(s)} \cup Told(rest)
           /\ \A y \in Told(rest) : ~TooLate(Head(s), y)
<1>1. StreamTrue(s) /\ NothingMissed(s) /\ StreamTrue(other) /\ NothingMissed(other)
  BY DEF Enters, IdleInv
<1>2. s \in Seq(IdleEvents) /\ s # <<>> /\ rest = Tail(s) /\ InOrder(s)
  BY <1>1 DEF Enters, StreamTrue
<1>3. /\ Head(s) \in IdleEvents /\ rest \in Seq(IdleEvents) /\ InOrder(rest)
      /\ Len(rest) = Len(s) - 1
      /\ Told(s) = {Head(s)} \cup Told(rest)
      /\ \A y \in Told(rest) : ~TooLate(Head(s), y)
  BY <1>2, StreamTail
<1>4. Head(s) \in Told(log) \cup Told(cdp)
  BY <1>3 DEF Enters
<1>5. QED
  BY <1>1, <1>3, <1>4, ToldIsReal

\* A main document is entered when a later one is.
LEMMA DocumentsEntered ==
    ASSUME IdleInv, NEW s, NEW rest, NEW other, Enters(s, rest, other),
           Head(s).kind = "start"
    PROVE  /\ Head(s).r \notin {"doc", "old"} => DocSeen
           /\ Head(s).r = "img2" => book.main = "second"
<1> DEFINE e == Head(s)
<1>1. /\ StreamTrue(s) /\ NothingMissed(s) /\ e.r \in Requests /\ e.hop \in Hops
      /\ Told(s) = {e} \cup Told(rest)
      /\ \A y \in Told(rest) : ~TooLate(e, y)
      /\ truth[e.r] # "no"
  BY EntersStream, StartsTruth
<1> HIDE DEF e
<1>2. ASSUME e.r \notin {"doc", "old"}
      PROVE  DocSeen
  <2>1. ASSUME NEW h \in Hops, Happened("doc", h), <<"doc", h>> \notin book.seen
        PROVE  FALSE
    <3>1. ~Known("doc", h) /\ "doc" \in Requests
      BY <2>1, IdleConstants DEF Known
    <3>2. PICK x \in Told(s) : IsStart(x, "doc", h)
      BY <1>1, <2>1, <3>1 DEF NothingMissed
    <3>3. x \in Told(rest)
      BY <1>1, <1>2, <3>2 DEF IsStart
    <3>4. TooLate(e, x)
      BY <1>2, <3>2 DEF TooLate, IsStart, e
    <3>5. QED
      BY <1>1, <3>3, <3>4
  <2>2. QED
    BY <2>1 DEF DocSeen
<1>3. ASSUME e.r = "img2"
      PROVE  book.main = "second"
  <2>1. "doc2" \in Documents /\ truth["doc2"] # "no"
    BY <1>1, <1>3 DEF IdleInv, BrowserTrue
  <2>2. Happened("doc2", 0) /\ 0 \in Hops /\ "doc2" \in Requests
    BY <2>1, IdleConstants DEF Happened, Hops
  <2>3. <<"doc2", 0>> \in book.seen
    <3>1. SUFFICES ASSUME ~Known("doc2", 0)
                   PROVE  FALSE
      BY DEF Known
    <3>2. PICK x \in Told(s) : IsStart(x, "doc2", 0)
      BY <1>1, <2>2, <3>1 DEF NothingMissed
    <3>3. x \in Told(rest)
      BY <1>1, <1>3, <3>2 DEF IsStart
    <3>4. TooLate(e, x)
      BY <1>3, <3>2 DEF TooLate, IsStart, e
    <3>5. QED
      BY <1>1, <3>3, <3>4
  <2>4. QED
    BY <2>2, <2>3 DEF IdleInv, SecondSeen
<1>4. QED
  BY <1>2, <1>3 DEF e

\* A request of the iframe finds it entered.
LEMMA FrameEntered ==
    ASSUME IdleInv, NEW s, NEW rest, NEW other, Enters(s, rest, other),
           Head(s).kind = "start", Head(s).r = "sub", ~IsKnown(book, Head(s))
    PROVE  book.frame
<1> DEFINE e == Head(s)
<1>1. /\ NothingMissed(s) /\ e.hop \in Hops /\ Real(e)
      /\ Told(s) = {e} \cup Told(rest)
      /\ \A y \in Told(rest) : ~TooLate(e, y)
      /\ e.kind = "start" /\ e.r = "sub" /\ <<e.r, e.hop>> \notin book.seen
  BY EntersStream DEF IsKnown
<1> HIDE DEF e
<1>2. e.hop = 0
  BY <1>1, IdleConstants DEF Real, Happened
<1>3. e \in Told(s) /\ IsStart(e, "sub", 0) /\ <<"sub", 0>> \notin book.seen
  BY <1>1, <1>2 DEF IsStart
<1>4. book.frame \/ \E x \in Told(s) : x.kind = "attach"
  BY <1>1, <1>3 DEF NothingMissed
<1>5. ASSUME NEW x \in Told(s), x.kind = "attach"
      PROVE  FALSE
  BY <1>1, <1>5 DEF TooLate
<1>6. QED
  BY <1>4, <1>5

\* What entering does to the book, by the cases that matter to the rest.
LEMMA EntersBook ==
    ASSUME IdleInv, NEW s, NEW rest, NEW other, Enters(s, rest, other)
    PROVE  /\ Head(s).kind = "start" => StartLeaves(book, Head(s), book')
           /\ Head(s).kind # "start" => OtherLeaves(book, Head(s), book')
           /\ book' \in Books /\ book.seen \subseteq book'.seen
           /\ book'.initial = book.initial /\ book'.navigation = book.navigation
           /\ book.navigation # Never
<1>1. Head(s) \in IdleEvents /\ Real(Head(s)) /\ book \in Books /\ book' = Enter(book, Head(s))
  BY EntersStream DEF Enters, IdleInv, SessionTyped
<1>2. /\ Head(s).kind = "start" => StartLeaves(book, Head(s), book')
      /\ Head(s).kind # "start" => OtherLeaves(book, Head(s), book')
  BY <1>1, EnterLeaves DEF Real
<1>3. book' \in Books /\ book'.initial = book.initial /\ book'.navigation = book.navigation
  BY <1>2 DEF StartLeaves, OtherLeaves
<1>4. book.seen \subseteq book'.seen
  BY <1>2 DEF StartLeaves, OtherLeaves
<1>5. book.navigation # Never
  BY DEF Enters, IdleInv, BookBegun
<1>6. QED
  BY <1>2, <1>3, <1>4, <1>5

\* The main document in the book is the present one: it never goes back.
LEMMA MainAdvances ==
    ASSUME IdleInv, NEW s, NEW rest, NEW other, Enters(s, rest, other)
    PROVE  /\ book'.main \in {"first", "second"}
           /\ DocSeen => DocSeen'
           /\ DocSeen /\ book.main = "second" => book'.main = "second"
           /\ Head(s).kind = "start" /\ Head(s).r = "doc2" => book'.main = "second" \/ IsKnown(book, Head(s))
<1> DEFINE e == Head(s)
<1>1. /\ e.r \in Requests /\ e.hop \in Hops /\ Real(e) /\ e \in Told(log) \cup Told(cdp)
      /\ e.kind = "start" => StartLeaves(book, e, book')
      /\ e.kind # "start" => OtherLeaves(book, e, book')
      /\ book.seen \subseteq book'.seen /\ book.navigation # Never
  BY EntersStream, EntersBook
<1>2. book.main \in {"first", "second"}
  BY DEF Enters, IdleInv, BookBegun
<1> HIDE DEF e
<1>3. UNCHANGED <<truth, hops>>
  BY DEF Enters
<1>4. DocSeen => DocSeen'
  BY <1>1, <1>3 DEF DocSeen, Happened
<1>5. CASE e.kind # "start"
  BY <1>1, <1>2, <1>4, <1>5 DEF OtherLeaves, e
<1>6. CASE e.kind = "start" /\ book'.main = book.main
  <2>1. ASSUME e.r = "doc2", ~IsKnown(book, e)
        PROVE  book'.main = "second"
    <3>1. ~BeforeNavigation(book, e.stamp)
      <4>1. e.stamp >= book.navigation
        BY <1>1, <1>6, <2>1 DEF IdleInv, BookAhead
      <4>2. e.stamp \in Nat /\ book.navigation \in Nat
        BY <1>1, ToldIsReal DEF IdleInv, SessionTyped, Books
      <4>3. QED
        BY <4>1, <4>2 DEF BeforeNavigation
    <3>2. "doc2" \in Documents
      BY <1>1, <2>1 DEF Documents
    <3>3. Belongs(book, e) /\ MainAfter(book, e) = "second"
      BY <2>1, <3>2 DEF Belongs, MainAfter, OfMainFrame, Loader
    <3>4. QED
      BY <1>1, <1>6, <2>1, <3>1, <3>3 DEF StartLeaves
  <2>2. QED
    BY <1>2, <1>4, <1>6, <2>1 DEF e
<1>7. CASE e.kind = "start" /\ book'.main # book.main
  <2>1. ~IsKnown(book, e) /\ e.r \in Documents /\ book'.main = Loader(e.r)
    BY <1>1, <1>7 DEF StartLeaves, MainAfter
  <2>2. e.r = "doc" => ~DocSeen
    BY <1>1, <1>7, <2>1 DEF Real, DocSeen, IsKnown
  <2>3. e.r = "doc" \/ e.r = "doc2"
    BY <2>1, IdleConstants
  <2>4. QED
    BY <1>4, <2>1, <2>2, <2>3 DEF Loader, e
<1>8. QED
  BY <1>5, <1>6, <1>7

\* Once the head is entered, it is known.
LEMMA HeadKnown ==
    ASSUME IdleInv, NEW s, NEW rest, NEW other, Enters(s, rest, other),
           Head(s).kind = "start"
    PROVE  Known(Head(s).r, Head(s).hop)'
<1> DEFINE e == Head(s)
<1>1. /\ e.r \in Requests /\ e.hop \in Hops
      /\ StartLeaves(book, e, book') /\ book.seen \subseteq book'.seen
      /\ book.main \in {"first", "second"}
  BY EntersStream, EntersBook DEF Enters, IdleInv, BookBegun
<1>2. CASE e.r = "feed"
  BY <1>2 DEF Known
<1>3. CASE <<e.r, e.hop>> \in book'.seen
  BY <1>3 DEF Known
<1>4. CASE e.r # "feed" /\ <<e.r, e.hop>> \notin book'.seen
  <2>1. ~IsKnown(book, e) /\ ~Belongs(book, e) /\ book' = book
    BY <1>1, <1>4 DEF StartLeaves, IsKnown
  <2>2. e.r \notin Documents /\ e.r # "old"
    BY <2>1 DEF Belongs, MainAfter, OfMainFrame, Documents
  <2>3. e.r \in {"img", "img2", "sub"}
    BY <1>1, <1>4, <2>2, NetworkIdleAssumption DEF Documents
  <2>4. CASE e.r = "sub"
    BY <2>1, <2>4, FrameEntered DEF Belongs
  <2>5. CASE e.r = "img2"
    BY <2>1, <2>2, <2>5, DocumentsEntered DEF Belongs, MainAfter, OfMainFrame, Loader
  <2>6. CASE e.r = "img"
    <3>1. book.main = "second"
      BY <1>1, <2>1, <2>2, <2>6 DEF Belongs, MainAfter, OfMainFrame, Loader
    <3>2. DocSeen /\ DocSeen'
      BY <2>6, DocumentsEntered, MainAdvances
    <3>3. QED
      BY <2>1, <2>6, <3>1, <3>2 DEF Known
  <2>7. QED
    BY <2>3, <2>4, <2>5, <2>6
<1>5. QED
  BY <1>2, <1>3, <1>4

LEMMA EntersNothingMissed ==
    ASSUME IdleInv, NEW s, NEW rest, NEW other, Enters(s, rest, other),
           NEW z \in {rest, other}
    PROVE  /\ \A r \in Requests, h \in Hops : Happened(r, h)' =>
                 Known(r, h)' \/ \E x \in Told(z) : IsStart(x, r, h)
           /\ \/ iframe' = "there"
              \/ /\ <<"sub", 0>> \notin book'.seen
                 /\ \E x \in Told(z) : IsStart(x, "sub", 0)
              => book'.frame \/ \E x \in Told(z) : x.kind = "attach"
<1> DEFINE e == Head(s)
<1>1. /\ NothingMissed(s) /\ NothingMissed(other) /\ StreamTrue(s) /\ StreamTrue(other)
      /\ e.r \in Requests /\ Real(e) /\ e \in Told(log) \cup Told(cdp)
      /\ Told(s) = {e} \cup Told(rest)
      /\ \A y \in Told(rest) : ~TooLate(e, y)
  BY EntersStream
<1>2. /\ e.kind = "start" => StartLeaves(book, e, book')
      /\ e.kind # "start" => OtherLeaves(book, e, book')
      /\ book.seen \subseteq book'.seen
  BY EntersBook
<1>3. e.kind = "start" => Known(e.r, e.hop)'
  BY HeadKnown
<1>4. DocSeen /\ book.main = "second" => DocSeen' /\ book'.main = "second"
  BY MainAdvances
<1> HIDE DEF e
<1>5. UNCHANGED <<truth, hops, iframe>>
  BY DEF Enters
<1>6. \A r, h : Happened(r, h)' <=> Happened(r, h)
  BY <1>5 DEF Happened
<1>7. \A r, h : Known(r, h) => Known(r, h)'
  BY <1>2, <1>4 DEF Known
<1>8. ASSUME NEW r \in Requests, NEW h \in Hops, Happened(r, h)'
      PROVE  Known(r, h)' \/ \E x \in Told(z) : IsStart(x, r, h)
  <2>1. CASE z = other
    BY <1>1, <1>6, <1>7, <1>8, <2>1 DEF NothingMissed
  <2>2. CASE z = rest
    <3>1. CASE Known(r, h)
      BY <1>7, <3>1
    <3>2. CASE ~Known(r, h)
      <4>1. PICK x \in Told(s) : IsStart(x, r, h)
        BY <1>1, <1>6, <1>8, <3>2 DEF NothingMissed
      <4>2. CASE x = e
        BY <1>3, <4>1, <4>2 DEF IsStart
      <4>3. CASE x # e
        BY <1>1, <2>2, <4>1, <4>3
      <4>4. QED
        BY <4>2, <4>3
    <3>3. QED
      BY <3>1, <3>2
  <2>3. QED
    BY <2>1, <2>2
<1>9. ASSUME \/ iframe = "there"
             \/ <<"sub", 0>> \notin book'.seen /\ \E x \in Told(z) : IsStart(x, "sub", 0)
      PROVE  book'.frame \/ \E x \in Told(z) : x.kind = "attach"
  <2>1. CASE e.kind = "attach"
    BY <1>2, <2>1 DEF OtherLeaves
  <2>2. CASE e.kind = "detach"
    <3>1. iframe # "there"
      BY <1>1, <2>2 DEF Real
    <3>2. PICK x \in Told(z) : IsStart(x, "sub", 0)
      BY <1>9, <3>1
    <3>3. <<"sub", 0>> \notin book.seen
      BY <1>2, <1>9, <3>1
    <3>4. \A y \in Told(rest) : ~IsStart(y, "sub", 0)
      <4>1. e.r = "sub"
        BY <1>1, <2>2 DEF Real
      <4>2. QED
        BY <1>1, <2>2, <4>1 DEF TooLate, IsStart, Ends
    <3>5. x \in Told(other)
      BY <3>2, <3>4
    <3>6. Happened("sub", 0) /\ "sub" \in Requests /\ 0 \in Hops
      <4>1. x \in IdleEvents /\ Real(x)
        BY <1>1, <3>5 DEF StreamTrue, Told
      <4>2. QED
        BY <3>2, <4>1 DEF IsStart, Real, IdleEvents, Hops
    <3>7. \E y \in Told(s) : IsStart(y, "sub", 0)
      BY <1>1, <3>3, <3>6 DEF NothingMissed, Known
    <3>8. QED
      BY <1>1, <2>2, <3>4, <3>7 DEF IsStart
  <2>3. CASE e.kind \notin {"attach", "detach"}
    <3>1. book'.frame = book.frame
      BY <1>2, <2>3 DEF StartLeaves, OtherLeaves
    <3>2. CASE z = other
      BY <1>1, <1>2, <1>9, <3>1, <3>2 DEF NothingMissed
    <3>3. CASE z = rest
      <4>1. book.frame \/ \E x \in Told(s) : x.kind = "attach"
        BY <1>1, <1>2, <1>9, <3>3 DEF NothingMissed
      <4>2. QED
        BY <1>1, <2>3, <3>1, <3>3, <4>1
    <3>4. QED
      BY <3>2, <3>3
  <2>4. QED
    BY <2>1, <2>2, <2>3
<1>10. QED
  BY <1>5, <1>8, <1>9

\* The ends the policy connection still holds.
LEMMA EntersEnds ==
    ASSUME IdleInv, NEW s, NEW rest, NEW other, Enters(s, rest, other)
    PROVE  EndsTold' /\ PendingTold'
<1> DEFINE e == Head(s)
<1>1. /\ NothingMissed(cdp) /\ StreamTrue(cdp)
      /\ e.r \in Requests /\ e.hop \in Hops /\ Real(e) /\ e \in Told(log) \cup Told(cdp)
      /\ Told(s) = {e} \cup Told(rest)
      /\ \A y \in Told(rest) : ~TooLate(e, y)
      /\ e.kind = "start" => StartLeaves(book, e, book')
      /\ e.kind # "start" => OtherLeaves(book, e, book')
  BY EntersStream, EntersBook DEF IdleInv
<1> HIDE DEF e
<1>2. \/ s = cdp /\ cdp' = rest
      \/ s = log /\ cdp' = cdp
  BY DEF Enters
<1>3. \A r : Over(r)' <=> Over(r)
  BY DEF Enters, Over
<1>4. ASSUME NEW r \in Requests, Over(r), NEW x \in Told(cdp'), x.kind = "start", x.r = r
      PROVE  \E y \in Told(cdp') : Ends(y, r)
  <2>1. x \in Told(cdp)
    BY <1>1, <1>2
  <2>2. PICK y \in Told(cdp) : Ends(y, r)
    BY <1>4, <2>1 DEF IdleInv, EndsTold
  <2>3. CASE y \in Told(cdp')
    BY <2>2, <2>3
  <2>4. CASE y \notin Told(cdp')
    <3>1. y = e /\ cdp' = rest
      BY <1>1, <1>2, <2>4
    <3>2. TooLate(e, x)
      BY <1>4, <2>2, <3>1 DEF TooLate
    <3>3. QED
      BY <1>1, <1>4, <3>1, <3>2
  <2>5. QED
    BY <2>3, <2>4
<1>5. EndsTold'
  BY <1>3, <1>4 DEF EndsTold, Told, Ends
<1>6. ASSUME NEW r \in Requests, book'.ledger[r] = "pending", Over(r)
      PROVE  \E y \in Told(cdp') : Ends(y, r)
  <2>1. CASE book.ledger[r] = "pending"
    <3>1. PICK y \in Told(cdp) : Ends(y, r)
      BY <1>6, <2>1 DEF IdleInv, PendingTold
    <3>2. y # e
      <4>1. ASSUME y = e
            PROVE  FALSE
        <5>1. e.kind # "start"
          BY <3>1, <4>1 DEF Ends
        <5>2. QED
          BY <1>1, <1>6, <3>1, <4>1, <5>1 DEF OtherLeaves
      <4>2. QED
        BY <4>1
    <3>3. QED
      BY <1>1, <1>2, <3>1, <3>2
  <2>2. CASE book.ledger[r] # "pending"
    <3>1. e.kind = "start"
      BY <1>1, <1>6, <2>2 DEF OtherLeaves
    <3>2. book.ledger \in [Requests -> States]
      BY DEF IdleInv, SessionTyped, Books
    <3>3. /\ r = e.r /\ r # "feed" /\ ~IsKnown(book, e) /\ Belongs(book, e)
      BY <1>1, <1>6, <2>2, <3>1, <3>2 DEF StartLeaves
    <3>4. ~Known(r, e.hop)
      <4>1. ASSUME r = "img"
            PROVE  book.main = "first"
        BY <3>3, <4>1 DEF Belongs, MainAfter, OfMainFrame, Loader, Documents
      <4>2. QED
        BY <3>3, <4>1 DEF Known, IsKnown
    <3>5. Happened(r, e.hop)
      BY <1>1, <3>1, <3>3 DEF Real
    <3>6. PICK x \in Told(cdp) : IsStart(x, r, e.hop)
      BY <1>1, <3>4, <3>5 DEF NothingMissed
    <3>7. PICK y \in Told(cdp) : Ends(y, r)
      BY <1>6, <3>6 DEF IdleInv, EndsTold, IsStart
    <3>8. y # e
      BY <3>1, <3>7 DEF Ends
    <3>9. QED
      BY <1>1, <1>2, <3>7, <3>8
  <2>3. QED
    BY <2>1, <2>2
<1>7. PendingTold'
  BY <1>3, <1>6 DEF PendingTold, Told, Ends
<1>8. QED
  BY <1>5, <1>7

LEMMA EntersOrder ==
    ASSUME IdleInv, NEW s, NEW rest, NEW other, Enters(s, rest, other)
    PROVE  BookBegun' /\ BookAhead' /\ SecondSeen' /\ OldLeftOut'
<1> DEFINE e == Head(s)
<1>1. /\ e.r \in Requests /\ e.hop \in Hops /\ Real(e) /\ e \in Told(log) \cup Told(cdp)
      /\ Told(s) = {e} \cup Told(rest)
      /\ e.kind = "start" => StartLeaves(book, e, book')
      /\ e.kind # "start" => OtherLeaves(book, e, book')
      /\ book'.initial = book.initial /\ book'.navigation = book.navigation
      /\ book.navigation # Never
  BY EntersStream, EntersBook
<1>2. /\ book'.main \in {"first", "second"}
      /\ DocSeen => DocSeen'
      /\ DocSeen /\ book.main = "second" => book'.main = "second"
      /\ e.kind = "start" /\ e.r = "doc2" => book'.main = "second" \/ IsKnown(book, e)
  BY MainAdvances
<1>3. e.kind = "start" /\ e.r = "doc2" => DocSeen
  BY DocumentsEntered
<1> HIDE DEF e
<1>4. /\ pc = "read" /\ UNCHANGED <<pc, loader, truth, stamp>>
      /\ Told(log') \subseteq Told(log) /\ Told(cdp') \subseteq Told(cdp)
  BY <1>1 DEF Enters
<1>5. BookBegun'
  BY <1>1, <1>2, <1>4 DEF IdleInv, BookBegun
<1>6. BookAhead'
  <2>1. /\ book.navigation <= stamp
        /\ \A x \in Told(log') \cup Told(cdp') : x.kind = "start" =>
              /\ x.r = "old" => x.stamp < book.navigation
              /\ x.r = "doc2" => x.stamp >= book.navigation
    BY <1>1, <1>4 DEF IdleInv, BookAhead
  <2>2. QED
    BY <1>1, <1>4, <2>1 DEF BookAhead, Told
<1>7. SecondSeen'
  <2>1. ASSUME NEW h \in Hops, <<"doc2", h>> \in book'.seen
        PROVE  book'.main = "second" /\ DocSeen'
    <3>1. CASE <<"doc2", h>> \in book.seen
      BY <1>2, <3>1 DEF IdleInv, SecondSeen
    <3>2. CASE <<"doc2", h>> \notin book.seen
      <4>1. e.kind = "start" /\ e.r = "doc2" /\ ~IsKnown(book, e)
        <5>1. e.kind = "start" /\ book'.seen = book.seen \cup {<<e.r, e.hop>>} /\ ~IsKnown(book, e)
          BY <1>1, <2>1, <3>2 DEF StartLeaves, OtherLeaves
        <5>2. <<"doc2", h>> = <<e.r, e.hop>>
          BY <2>1, <3>2, <5>1
        <5>3. QED
          BY <5>1, <5>2
      <4>2. QED
        BY <1>2, <1>3, <4>1
    <3>3. QED
      BY <3>1, <3>2
  <2>2. QED
    BY <2>1 DEF SecondSeen
<1>8. OldLeftOut'
  <2>1. ASSUME "old" \in Requests
        PROVE  book'.ledger["old"] \in {"unseen", "prior"}
    <3>1. book.ledger["old"] \in {"unseen", "prior"} /\ book.ledger \in [Requests -> States]
      BY <2>1 DEF IdleInv, OldLeftOut, SessionTyped, Books
    <3>2. CASE e.kind # "start"
      BY <1>1, <2>1, <3>1, <3>2 DEF OtherLeaves
    <3>3. CASE e.kind = "start" /\ e.r # "old"
      BY <1>1, <2>1, <3>1, <3>3 DEF StartLeaves
    <3>4. CASE e.kind = "start" /\ e.r = "old"
      <4>1. BeforeNavigation(book, e.stamp)
        BY <1>1, <3>4 DEF IdleInv, BookAhead, BeforeNavigation
      <4>2. QED
        BY <1>1, <2>1, <3>1, <3>4, <4>1 DEF StartLeaves
    <3>5. QED
      BY <3>2, <3>3, <3>4
  <2>2. QED
    BY <2>1 DEF OldLeftOut
<1>9. QED
  BY <1>5, <1>6, <1>7, <1>8

LEMMA EntersKeeps ==
    ASSUME IdleInv, NEW s, NEW rest, NEW other, Enters(s, rest, other),
           due' \in 0 .. Len(log')
    PROVE  IdleInv'
<1>1. /\ StreamTrue(s) /\ StreamTrue(other)
      /\ rest \in Seq(IdleEvents) /\ InOrder(rest) /\ Told(s) = {Head(s)} \cup Told(rest)
  BY EntersStream
<1>2. BrowserTyped' /\ BrowserTrue'
  BY DEF Enters, IdleInv, BrowserTyped, BrowserTrue
<1>3. \A x : Real(x)' <=> Real(x)
  BY DEF Enters, Real, Happened, Over
<1>4. ASSUME NEW z \in {rest, other}
      PROVE  z \in Seq(IdleEvents) /\ InOrder(z) /\ \A x \in Told(z) : Real(x)'
  BY <1>1, <1>3, <1>4 DEF StreamTrue
<1>5. log' \in {rest, other} /\ cdp' \in {rest, other}
  BY DEF Enters
<1>6. StreamTrue(log)' /\ StreamTrue(cdp)'
  <2>1. /\ log' \in Seq(IdleEvents) /\ InOrder(log') /\ \A x \in Told(log') : Real(x)'
        /\ cdp' \in Seq(IdleEvents) /\ InOrder(cdp') /\ \A x \in Told(cdp') : Real(x)'
    BY <1>4, <1>5
  <2>2. QED
    BY <2>1 DEF StreamTrue, InOrder, Told
<1>7. NothingMissed(log)'
  <2>1. /\ \A r \in Requests, h \in Hops : Happened(r, h)' =>
              Known(r, h)' \/ \E x \in Told(log') : IsStart(x, r, h)
        /\ \/ iframe' = "there"
           \/ /\ <<"sub", 0>> \notin book'.seen
              /\ \E x \in Told(log') : IsStart(x, "sub", 0)
           => book'.frame \/ \E x \in Told(log') : x.kind = "attach"
    BY <1>5, EntersNothingMissed
  <2>2. QED
    BY <2>1 DEF NothingMissed, Told, IsStart
<1>8. NothingMissed(cdp)'
  <2>1. /\ \A r \in Requests, h \in Hops : Happened(r, h)' =>
              Known(r, h)' \/ \E x \in Told(cdp') : IsStart(x, r, h)
        /\ \/ iframe' = "there"
           \/ /\ <<"sub", 0>> \notin book'.seen
              /\ \E x \in Told(cdp') : IsStart(x, "sub", 0)
           => book'.frame \/ \E x \in Told(cdp') : x.kind = "attach"
    BY <1>5, EntersNothingMissed
  <2>2. QED
    BY <2>1 DEF NothingMissed, Told, IsStart
<1>9. SessionTyped'
  <2>1. book' \in Books
    BY EntersBook
  <2>2. QED
    BY <2>1 DEF Enters, IdleInv, SessionTyped
<1>10. /\ EndsTold' /\ PendingTold'
       /\ BookBegun' /\ BookAhead' /\ SecondSeen' /\ OldLeftOut'
  BY EntersEnds, EntersOrder
<1>11. QED
  BY <1>2, <1>6, <1>7, <1>8, <1>9, <1>10 DEF IdleInv

LEMMA EnterLogKeeps ==
    ASSUME IdleInv, EnterLog
    PROVE  IdleInv'
<1>1. log \in Seq(IdleEvents) /\ Len(log) \in Nat /\ due \in 0 .. Len(log) /\ due > 0
  BY DEF IdleInv, StreamTrue, SessionTyped, EnterLog
<1>2. log # <<>>
  BY <1>1
<1>3. Len(Tail(log)) = Len(log) - 1
  BY <1>1, <1>2, StreamTail
<1>4. Enters(log, Tail(log), cdp)
  BY <1>2 DEF Enters, EnterLog
<1>5. due' \in 0 .. Len(log')
  BY <1>1, <1>3 DEF EnterLog
<1>6. QED
  BY <1>4, <1>5, EntersKeeps

LEMMA EnterCdpKeeps ==
    ASSUME IdleInv, EnterCdp
    PROVE  IdleInv'
<1>1. Enters(cdp, Tail(cdp), log)
  BY DEF Enters, EnterCdp
<1>2. due' \in 0 .. Len(log')
  BY DEF IdleInv, SessionTyped, EnterCdp
<1>3. QED
  BY <1>1, <1>2, EntersKeeps

LEMMA IdleBegins ==
    ASSUME IdleInit
    PROVE  IdleInv
<1> DEFINE old == [kind |-> "start", r |-> "old", hop |-> 0, stamp |-> 1, time |-> 0]
<1>1. /\ now = 0 /\ page \in Pages
      /\ truth = [r \in Requests |-> IF r = "old" /\ r \in page THEN "run" ELSE "no"]
      /\ answer = [d \in Documents |-> "none"] /\ hops = [d \in Documents |-> 0]
      /\ loader = "none" /\ iframe = "no" /\ active = 0
      /\ stamp \in Nat /\ (log = <<>> \/ ("old" \in page /\ stamp = 1 /\ log = <<old>>))
      /\ "old" \in page => stamp = 1 /\ log = <<old>>
      /\ cdp = log /\ pc = "navigate" /\ due = 0 /\ book = EmptyBook
      /\ reason = "none" /\ waits = 0
  BY DEF IdleInit
<1>2. page \subseteq Requests
  BY <1>1, NetworkIdleAssumption
<1>3. BrowserTyped
  BY <1>1, IdleConstants DEF BrowserTyped, IdleAnswers, Hops, IdleLoaders
<1>4. EmptyBook \in Books
  <2>1. /\ [r \in Requests |-> "unseen"] \in [Requests -> States]
        /\ [d \in Documents |-> "none"] \in [Documents -> IdleAnswers]
        /\ [r \in Requests |-> Never] \in [Requests -> IdleTimes]
    BY IdleConstants DEF States, IdleAnswers, IdleTimes, Never
  <2>2. "none" \in IdleLoaders /\ Never \in IdleTimes /\ <<>> \in Seq(MainDocuments)
        /\ Never \in Nat \cup {Never} /\ {} \in SUBSET (Requests \X Hops)
    BY IdleConstants DEF IdleLoaders, IdleTimes, Never
  <2>3. QED
    BY <2>1, <2>2 DEF EmptyBook, Books
<1>5. SessionTyped
  <2>1. 0 \in 0 .. Len(log) /\ 0 \in 0 .. Waits
    BY <1>1, IdleConstants
  <2>2. QED
    BY <1>1, <1>4, <2>1 DEF SessionTyped
<1>6. BrowserTrue
  BY <1>1, IdleConstants DEF BrowserTrue
<1>7. /\ log \in Seq(IdleEvents) /\ InOrder(log)
      /\ \A x \in Told(log) : x = old /\ "old" \in page /\ stamp = 1
      /\ "old" \in page => old \in Told(log)
  <2>1. CASE log = <<>>
    <3>1. Told(log) = {} /\ "old" \notin page
      BY <1>1, <2>1 DEF Told
    <3>2. QED
      BY <2>1, <3>1 DEF InOrder
  <2>2. CASE "old" \in page /\ stamp = 1 /\ log = <<old>>
    <3>1. old \in IdleEvents
      BY <1>2, <2>2, IdleConstants DEF IdleEvents, EventKinds, Hops
    <3> HIDE DEF old
    <3>2. log \in Seq(IdleEvents) /\ Len(log) = 1 /\ log[1] = old
      BY <2>2, <3>1
    <3>3. Told(log) = {old}
      BY <3>2 DEF Told
    <3>4. QED
      BY <2>2, <3>2, <3>3 DEF InOrder
  <2>3. QED
    BY <1>1, <2>1, <2>2
<1>8. "old" \in page => Happened("old", 0)
  BY <1>1, <1>2 DEF Happened
<1>9. StreamTrue(log) /\ StreamTrue(cdp)
  BY <1>1, <1>7, <1>8 DEF StreamTrue, Real
<1>10. \A r \in Requests, h \in Hops : Happened(r, h) => r = "old" /\ h = 0 /\ "old" \in page
  BY <1>1 DEF Happened, Hops
<1>11. NothingMissed(log) /\ NothingMissed(cdp)
  BY <1>1, <1>7, <1>10 DEF NothingMissed, IsStart
<1>12. \A r \in Requests : ~Over(r)
  BY <1>1 DEF Over
<1>13. EndsTold /\ PendingTold
  BY <1>12 DEF EndsTold, PendingTold
<1>14. BookBegun /\ BookAhead /\ SecondSeen /\ OldLeftOut
  BY <1>1 DEF BookBegun, BookAhead, SecondSeen, OldLeftOut, EmptyBook
<1>15. QED
  BY <1>3, <1>5, <1>6, <1>9, <1>11, <1>13, <1>14 DEF IdleInv

LEMMA IdleSteps ==
    ASSUME IdleInv, [IdleNext]_idleVars
    PROVE  IdleInv'
<1>1. CASE Browser
  <2>1. page' = page /\ BrowserActs
    BY <1>1 DEF Browser
  <2>2. QED
    BY <2>1, StartKeeps, OverKeeps, RedirectKeeps, CommitKeeps, AttachKeeps, DetachKeeps
       DEF BrowserActs
<1>2. CASE Tick
  BY <1>2, TickKeeps
<1>3. CASE Session
  BY <1>3, BeginKeeps, ReadLogKeeps, GatherKeeps, EnterLogKeeps, EnterCdpKeeps, DecideKeeps,
     RecheckKeeps DEF Session
<1>4. CASE UNCHANGED idleVars
  <2>1. UNCHANGED <<now, browserVars, pc, due, book, reason, waits>>
    BY <1>4 DEF idleVars, sessionVars
  <2>2. SessionTyped' /\ now' \in 0 .. MaxTime
    BY <2>1 DEF IdleInv, SessionTyped, BrowserTyped, browserVars
  <2>3. book.navigation = Never => pc' \in {"navigate", "log", "cdp"}
    BY <2>1 DEF IdleInv, BookBegun
  <2>4. QED
    BY <2>1, <2>2, <2>3, QuietKeeps
<1>5. QED
  BY <1>1, <1>2, <1>3, <1>4 DEF IdleNext

\* The inductive invariant of the wait for a page.
THEOREM IdleInvariant == IdleSpec => []IdleInv
<1>1. IdleInit => IdleInv
  BY IdleBegins
<1>2. IdleInv /\ [IdleNext]_idleVars => IdleInv'
  BY IdleSteps
<1>3. QED
  BY <1>1, <1>2, PTL DEF IdleSpec

\* Whatever the log tells again and whenever: a request the session takes to be
\* in flight is, or its end is still to be read; and the page that was left
\* stays out of the book.
THEOREM BookIsTrueAlways == IdleSpec => []BookIsTrue
<1>1. IdleInv => BookIsTrue
  <2>1. SUFFICES ASSUME IdleInv
                 PROVE  BookIsTrue
    OBVIOUS
  <2>2. IdleTypeOK
    <3>1. book \in Books
      BY <2>1 DEF IdleInv, SessionTyped
    <3>2. /\ book.ledger \in [Requests -> States] /\ book.status \in [Documents -> {"none", "ok", "bad"}]
          /\ book.last \in Never .. MaxTime /\ book.completedAt \in Never .. MaxTime
      BY <3>1 DEF Books, IdleAnswers, IdleTimes
    <3>3. QED
      BY <2>1, <3>2 DEF IdleInv, BrowserTyped, SessionTyped, IdleTypeOK, IdleAnswers, Hops, IdleLoaders
  <2>3. OldPageLeftOut
    BY <2>1 DEF IdleInv, OldLeftOut, OldPageLeftOut
  <2>4. PendingIsReal
    <3>1. ASSUME NEW r \in Requests, book.ledger[r] = "pending", Over(r)
          PROVE  \E i \in DOMAIN cdp : cdp[i].kind \in {"finish", "fail", "detach"} /\ cdp[i].r = r
      <4>1. PICK x \in Told(cdp) : Ends(x, r)
        BY <2>1, <3>1 DEF IdleInv, PendingTold
      <4>2. PICK i \in 1 .. Len(cdp) : x = cdp[i]
        BY DEF Told
      <4>3. i \in DOMAIN cdp
        BY <2>1, <4>2 DEF IdleInv, StreamTrue
      <4>4. QED
        BY <4>1, <4>2, <4>3 DEF Ends
    <3>2. QED
      BY <3>1 DEF PendingIsReal
  <2>5. QED
    BY <2>2, <2>3, <2>4 DEF BookIsTrue
<1>2. QED
  BY <1>1, IdleInvariant, PTL
-----------------------------------------------------------------------------
\* For the two action properties: the answers, the times and the documents.
PageTrue ==
    /\ answer["doc"] # "none" => loader # "none"
    /\ "doc2" \in Documents /\ answer["doc2"] # "none" => loader = "second"
    /\ \A d \in Documents : truth[d] = "done" => answer[d] # "none"
    /\ loader = "second" => \A r \in Requests : truth[r] = "run" => r \in {"doc2", "img2", "old"}
    /\ "sub" \in Requests /\ truth["sub"] = "run" => iframe = "there"
    /\ iframe = "there" => loader = "first"
    /\ \A r \in Requests : truth[r] = "gone" => r = "sub" /\ iframe = "removed"

\* What an event says is so; and so are two events of two events of one request.
SaysTrue(x) ==
    /\ x.kind = "finish" => truth[x.r] = "done"
    /\ x.kind = "fail" => truth[x.r] = "failed"
    /\ x.kind \in {"ok", "bad"} => answer[x.r] = x.kind

Agree(x, y) ==
    /\ x.kind = "start" /\ IsStart(y, x.r, x.hop) => x.stamp = y.stamp /\ x.time = y.time
    /\ x.kind = "start" /\ y.kind \in {"ok", "bad"} /\ y.r = x.r => x.stamp < y.stamp
    /\ x.kind = "detach" /\ y.kind = "detach" => x.time = y.time
    /\ x.kind # "detach" /\ Ends(y, x.r) => x.time <= y.time

EventsTrue ==
    /\ \A x \in Told(log) \cup Told(cdp) : SaysTrue(x) /\ x.time <= now
    /\ \A x, y \in Told(log) \cup Told(cdp) : Agree(x, y)

\* The book: its states are true, and the documents are in their order.
OfFirst(r) == r \notin {"doc2", "img2", "old"}

BookTrue ==
    /\ \A r \in Requests :
          /\ book.ledger[r] = "finished" => truth[r] = "done"
          /\ book.ledger[r] = "failed" => truth[r] = "failed"
          /\ book.ledger[r] = "detached" => r = "sub" /\ iframe = "removed"
          /\ book.ledger[r] = "ignored" => r = "feed"
          /\ book.ledger[r] = "prior" => r = "old" \/ (book.initial = "second" /\ OfFirst(r))
          /\ \A h \in Hops : <<r, h>> \in book.seen => Happened(r, h) /\ book.ledger[r] # "unseen"
    /\ \A d \in Documents : book.status[d] \in {"none", answer[d]}
    /\ book.initial = "second" => loader = "second"
    /\ book.main = "second" => "doc2" \in Documents /\ truth["doc2"] # "no"

DocumentsInOrder ==
    LET items == book.documents IN
    /\ \A i \in 1 .. Len(items) : <<items[i].r, items[i].hop>> \in book.seen
    /\ \A i, j \in 1 .. Len(items) : i < j /\ items[i].r = "doc2" => items[j].r = "doc2"
    /\ \A h \in Hops : <<"doc2", h>> \in book.seen =>
          \E i \in 1 .. Len(items) : items[i].r = "doc2" /\ items[i].stamp >= book.navigation

PriorStarts ==
    book.navigation # Never =>
        \A x \in Told(log) \cup Told(cdp) : x.kind = "start" /\ x.stamp < book.navigation =>
            x.r = "old" \/ (book.initial = "second" /\ OfFirst(x.r))

\* The times: what is entered counted, and the latest event of the page is
\* entered or ahead, unless a document is on its way.
OfWork(x) ==
    \/ x.kind \in {"start", "finish", "fail", "ok", "bad"}
    \/ x.kind = "detach" /\ truth["sub"] = "gone"

EnteredCounts ==
    \A x \in Told(cdp) :
        /\ x.kind = "start" /\ <<x.r, x.hop>> \in book.seen /\ x.stamp >= book.navigation =>
              x.time <= book.last
        /\ OfWork(x) /\ book.ledger[x.r] \in {"finished", "failed", "detached"} =>
              x.time <= book.last

Underway == loader = "none" \/ (loader = "first" /\ "doc2" \in Documents /\ truth["doc2"] # "no")

Ahead(x) ==
    /\ active <= x.time /\ OfWork(x) /\ OfThePage(x.r)
    /\ loader = "second" => x.r \in {"doc2", "img2"}

ActivityTold == active <= book.last \/ Underway \/ \E x \in Told(cdp) : Ahead(x)

QuietInv ==
    /\ PageTrue /\ EventsTrue /\ BookTrue /\ DocumentsInOrder /\ PriorStarts
    /\ EnteredCounts /\ ActivityTold
-----------------------------------------------------------------------------
\* What an action of the browser has to show: its events are true and new, and
\* what was over stays so.
QuietlyGrows(t) ==
    /\ EmitsNew(t)
    /\ UNCHANGED <<now, sessionVars>> /\ PageTrue'
    /\ \A y \in Told(t) :
          /\ SaysTrue(y)' /\ y.time = now
          /\ y.kind = "start" =>
                /\ ~Happened(y.r, y.hop) /\ (y.r \in Documents => answer[y.r] = "none")
                /\ \A z \in Told(t) : z = y
          /\ y.kind = "detach" => y.r = "sub" /\ iframe = "there"
          /\ y.kind # "detach" => ~Over(y.r) /\ (y.r = "sub" => iframe # "removed")
    /\ \A r \in Requests : /\ Over(r) => truth'[r] = truth[r]
                           /\ \A h \in Hops : Happened(r, h) => Happened(r, h)'
    /\ \A d \in Documents : answer[d] # "none" => answer'[d] = answer[d]
    /\ loader = "second" => loader' = "second"
    /\ iframe = "removed" => iframe' = "removed"
    /\ iframe = "removed" /\ truth'["sub"] = "gone" => truth["sub"] = "gone"
    /\ \/ active' = active /\ loader' = loader /\ (Underway => Underway')
       \/ Underway'
       \/ \E y \in Told(t) : Ahead(y)'

LEMMA GrowsEventsTrue ==
    ASSUME IdleInv, EventsTrue, NEW t, QuietlyGrows(t)
    PROVE  EventsTrue'
<1>1. /\ Told(log') = Told(log) \cup Told(t)
      /\ Told(cdp') = Told(cdp) \cup Told(t)
      /\ now' = now
  BY StreamGrows DEF QuietlyGrows, EmitsNew, IdleInv, StreamTrue
<1>2. ASSUME NEW x \in Told(log) \cup Told(cdp)
      PROVE  /\ SaysTrue(x)' /\ x.time <= now
             /\ x.r \in Requests /\ x.stamp \in Nat /\ x.time \in 0 .. MaxTime /\ x.stamp <= stamp
             /\ x.kind = "start" => Happened(x.r, x.hop)
             /\ x.kind \in {"finish", "fail"} => Over(x.r)
             /\ x.kind \in {"ok", "bad"} => x.r \in Documents /\ answer[x.r] # "none"
             /\ x.kind = "detach" => x.r = "sub" /\ iframe = "removed"
  <2>1. x \in IdleEvents /\ x.r \in Requests /\ x.stamp \in Nat /\ Real(x)
    BY ToldIsReal
  <2>2. SaysTrue(x) /\ x.time <= now
    BY DEF EventsTrue
  <2>3. x.kind = "finish" => Over(x.r) /\ truth[x.r] = "done"
    BY <2>1, <2>2 DEF SaysTrue, Over
  <2>4. x.kind = "fail" => Over(x.r) /\ truth[x.r] = "failed"
    BY <2>1, <2>2 DEF SaysTrue, Over
  <2>5. x.kind \in {"ok", "bad"} => x.r \in Documents /\ answer[x.r] # "none" /\ answer[x.r] = x.kind
    BY <2>1, <2>2 DEF SaysTrue, Real
  <2>6. SaysTrue(x)'
    BY <2>1, <2>3, <2>4, <2>5 DEF SaysTrue, QuietlyGrows
  <2>7. x.time \in 0 .. MaxTime
    BY <2>1 DEF IdleEvents
  <2>8. QED
    BY <2>1, <2>2, <2>3, <2>4, <2>5, <2>6, <2>7 DEF Real
<1>3. ASSUME NEW y \in Told(t)
      PROVE  /\ SaysTrue(y)' /\ y.time = now /\ y.stamp \in Nat /\ stamp < y.stamp
             /\ y.kind = "start" =>
                   /\ ~Happened(y.r, y.hop) /\ (y.r \in Documents => answer[y.r] = "none")
                   /\ \A z \in Told(t) : z = y
             /\ y.kind = "detach" => y.r = "sub" /\ iframe = "there"
             /\ y.kind # "detach" => ~Over(y.r) /\ (y.r = "sub" => iframe # "removed")
  <2>1. y \in IdleEvents
    BY DEF QuietlyGrows, EmitsNew, Told
  <2>2. y.stamp \in Nat
    BY <2>1 DEF IdleEvents
  <2>3. QED
    BY <2>2 DEF QuietlyGrows, EmitsNew
<1>4. now \in 0 .. MaxTime /\ stamp \in Nat
  BY DEF IdleInv, BrowserTyped
<1>5. \A x \in Told(log') \cup Told(cdp') : SaysTrue(x)' /\ x.time <= now
  BY <1>1, <1>2, <1>3, <1>4
<1>6. ASSUME NEW x \in Told(log) \cup Told(cdp), NEW y \in Told(t)
      PROVE  Agree(x, y)
  <2>1. ~(x.kind = "start" /\ IsStart(y, x.r, x.hop))
    BY <1>2, <1>3 DEF IsStart
  <2>2. x.stamp < y.stamp
    BY <1>2, <1>3, <1>4
  <2>3. ~(x.kind = "detach" /\ y.kind = "detach")
    BY <1>2, <1>3
  <2>4. x.time <= y.time
    BY <1>2, <1>3
  <2>5. QED
    BY <2>1, <2>2, <2>3, <2>4 DEF Agree
<1>7. ASSUME NEW x \in Told(t), NEW y \in Told(log) \cup Told(cdp)
      PROVE  Agree(x, y)
  <2>1. ~(x.kind = "start" /\ IsStart(y, x.r, x.hop))
    BY <1>2, <1>3 DEF IsStart
  <2>2. ~(x.kind = "start" /\ y.kind \in {"ok", "bad"} /\ y.r = x.r)
    BY <1>2, <1>3
  <2>3. ~(x.kind = "detach" /\ y.kind = "detach")
    BY <1>2, <1>3
  <2>4. ~(x.kind # "detach" /\ Ends(y, x.r))
    BY <1>2, <1>3 DEF Ends
  <2>5. QED
    BY <2>1, <2>2, <2>3, <2>4 DEF Agree
<1>8. ASSUME NEW x \in Told(t), NEW y \in Told(t)
      PROVE  Agree(x, y)
  <2>1. x.time = y.time /\ x.time <= y.time
    BY <1>3, <1>4
  <2>2. x.kind = "start" => y = x
    BY <1>3
  <2>3. QED
    BY <2>1, <2>2 DEF Agree
<1>9. \A x, y \in Told(log') \cup Told(cdp') : Agree(x, y)
  BY <1>1, <1>6, <1>7, <1>8 DEF EventsTrue
<1>10. QED
  BY <1>1, <1>5, <1>9 DEF EventsTrue, Told, Agree, IsStart, Ends

LEMMA GrowsQuietBook ==
    ASSUME IdleInv, QuietInv, NEW t, QuietlyGrows(t)
    PROVE  BookTrue' /\ DocumentsInOrder' /\ PriorStarts' /\ EnteredCounts'
<1>1. /\ Told(log') = Told(log) \cup Told(t)
      /\ Told(cdp') = Told(cdp) \cup Told(t)
      /\ now' = now /\ book' = book
  BY StreamGrows DEF QuietlyGrows, EmitsNew, IdleInv, StreamTrue, sessionVars
<1>2. BookTrue'
  <2>1. ASSUME NEW r \in Requests
        PROVE  /\ book.ledger[r] = "finished" => truth'[r] = "done"
               /\ book.ledger[r] = "failed" => truth'[r] = "failed"
               /\ book.ledger[r] = "detached" => r = "sub" /\ iframe' = "removed"
               /\ book.ledger[r] = "ignored" => r = "feed"
               /\ book.ledger[r] = "prior" => r = "old" \/ (book.initial = "second" /\ OfFirst(r))
               /\ \A h \in Hops : <<r, h>> \in book.seen => Happened(r, h)' /\ book.ledger[r] # "unseen"
    <3>1. truth[r] \in {"done", "failed"} => truth'[r] = truth[r]
      BY DEF QuietlyGrows, Over
    <3>2. \A h \in Hops : Happened(r, h) => Happened(r, h)'
      BY DEF QuietlyGrows
    <3>3. iframe = "removed" => iframe' = "removed"
      BY DEF QuietlyGrows
    <3>4. QED
      BY <3>1, <3>2, <3>3 DEF QuietInv, BookTrue
  <2>2. \A d \in Documents : book.status[d] \in {"none", answer'[d]}
    BY DEF QuietInv, BookTrue, QuietlyGrows
  <2>3. book.initial = "second" => loader' = "second"
    BY DEF QuietInv, BookTrue, QuietlyGrows
  <2>4. book.main = "second" => "doc2" \in Documents /\ truth'["doc2"] # "no"
    <3>1. ASSUME book.main = "second"
          PROVE  "doc2" \in Documents /\ truth'["doc2"] # "no"
      <4>1. "doc2" \in Documents /\ "doc2" \in Requests /\ Happened("doc2", 0) /\ 0 \in Hops
        BY <3>1, IdleConstants DEF QuietInv, BookTrue, Happened, Hops
      <4>2. Happened("doc2", 0)'
        BY <4>1 DEF QuietlyGrows
      <4>3. QED
        BY <4>1, <4>2 DEF Happened
    <3>2. QED
      BY <3>1
  <2>5. QED
    BY <1>1, <2>1, <2>2, <2>3, <2>4 DEF BookTrue
<1>3. DocumentsInOrder'
  BY <1>1 DEF QuietInv, DocumentsInOrder
<1>4. ASSUME NEW y \in Told(t)
      PROVE  y.stamp \in Nat /\ stamp < y.stamp /\ y.r \in Requests /\ y.hop \in Hops
  <2>1. y \in IdleEvents
    BY DEF QuietlyGrows, EmitsNew, Told
  <2>2. y.stamp \in Nat /\ y.r \in Requests /\ y.hop \in Hops
    BY <2>1 DEF IdleEvents
  <2>3. QED
    BY <2>2 DEF QuietlyGrows, EmitsNew
<1>5. PriorStarts'
  <2>1. SUFFICES ASSUME book.navigation # Never, NEW x \in Told(log') \cup Told(cdp'),
                        x.kind = "start", x.stamp < book.navigation
                 PROVE  x.r = "old" \/ (book.initial = "second" /\ OfFirst(x.r))
    BY <1>1 DEF PriorStarts, Told
  <2>2. book.navigation \in Nat /\ book.navigation <= stamp /\ stamp \in Nat
    BY <2>1 DEF IdleInv, BookAhead, BrowserTyped, SessionTyped, Books
  <2>3. x \notin Told(t)
    BY <1>4, <2>1, <2>2
  <2>4. QED
    BY <1>1, <2>1, <2>3 DEF QuietInv, PriorStarts
<1>6. ASSUME NEW x \in Told(cdp')
      PROVE  /\ x.kind = "start" /\ <<x.r, x.hop>> \in book.seen /\ x.stamp >= book.navigation =>
                   x.time <= book.last
             /\ OfWork(x)' /\ book.ledger[x.r] \in {"finished", "failed", "detached"} =>
                   x.time <= book.last
  <2>1. CASE x \in Told(cdp)
    <3>1. x.kind = "detach" => iframe = "removed"
      BY <2>1, ToldIsReal DEF Real
    <3>2. OfWork(x)' => OfWork(x)
      BY <3>1 DEF OfWork, QuietlyGrows
    <3>3. QED
      BY <2>1, <3>2 DEF QuietInv, EnteredCounts
  <2>2. CASE x \in Told(t)
    <3>1. x.r \in Requests /\ x.hop \in Hops
      BY <1>4, <2>2
    <3>2. x.kind = "start" => <<x.r, x.hop>> \notin book.seen
      BY <2>2, <3>1 DEF QuietlyGrows, QuietInv, BookTrue
    <3>3. ASSUME OfWork(x)', book.ledger[x.r] \in {"finished", "failed", "detached"}
          PROVE  FALSE
      <4>1. /\ book.ledger[x.r] = "finished" => truth[x.r] = "done"
            /\ book.ledger[x.r] = "failed" => truth[x.r] = "failed"
            /\ book.ledger[x.r] = "detached" => x.r = "sub" /\ iframe = "removed"
        BY <3>1 DEF QuietInv, BookTrue
      <4>2. CASE x.kind # "detach"
        BY <2>2, <3>3, <4>1, <4>2 DEF QuietlyGrows, Over
      <4>3. CASE x.kind = "detach"
        <5>1. x.r = "sub" /\ iframe = "there" /\ truth'["sub"] = "gone"
          BY <2>2, <3>3, <4>3 DEF QuietlyGrows, OfWork
        <5>2. Over("sub") /\ truth["sub"] \in {"done", "failed"}
          BY <3>3, <4>1, <5>1 DEF Over
        <5>3. QED
          BY <3>1, <5>1, <5>2 DEF QuietlyGrows
      <4>4. QED
        BY <4>2, <4>3
    <3>4. QED
      BY <3>2, <3>3
  <2>3. QED
    BY <1>1, <2>1, <2>2
<1>7. EnteredCounts'
  BY <1>1, <1>6 DEF EnteredCounts, Told, OfWork
<1>8. QED
  BY <1>2, <1>3, <1>5, <1>7

LEMMA GrowsQuiet ==
    ASSUME IdleInv, QuietInv, NEW t, QuietlyGrows(t)
    PROVE  QuietInv'
<1>1. /\ Told(cdp') = Told(cdp) \cup Told(t)
      /\ book' = book
  BY StreamGrows DEF QuietlyGrows, EmitsNew, IdleInv, StreamTrue, sessionVars
<1>2. ActivityTold'
  <2>1. CASE Underway'
    BY <2>1 DEF ActivityTold
  <2>2. CASE \E y \in Told(t) : Ahead(y)'
    BY <1>1, <2>2 DEF ActivityTold, Told, Ahead, OfWork
  <2>3. CASE active' = active /\ loader' = loader /\ (Underway => Underway')
    <3>1. CASE active <= book.last
      BY <1>1, <2>3, <3>1 DEF ActivityTold
    <3>2. ASSUME NEW x \in Told(cdp), Ahead(x)
          PROVE  ActivityTold'
      <4>1. x.kind = "detach" => iframe = "removed" /\ x.r = "sub" /\ x.r \in Requests
        BY ToldIsReal DEF Real
      <4>2. OfWork(x)'
        BY <3>2, <4>1 DEF Ahead, OfWork, QuietlyGrows, Over
      <4>3. Ahead(x)'
        BY <2>3, <3>2, <4>2 DEF Ahead
      <4>4. \E y \in Told(cdp') : Ahead(y)'
        BY <1>1, <4>3
      <4>5. QED
        BY <4>4 DEF ActivityTold, Told, Ahead, OfWork
    <3>3. QED
      BY <2>3, <3>1, <3>2 DEF QuietInv, ActivityTold
  <2>4. QED
    BY <2>1, <2>2, <2>3 DEF QuietlyGrows
<1>3. PageTrue'
  BY DEF QuietlyGrows
<1>4. EventsTrue'
  BY GrowsEventsTrue DEF QuietInv
<1>5. QED
  BY <1>2, <1>3, <1>4, GrowsQuietBook DEF QuietInv

\* The actions of the browser, each a way to grow quietly.
LEMMA StartQuiet ==
    ASSUME IdleInv, QuietInv, NEW r \in Requests, RequestStarts(r)
    PROVE  QuietInv'
<1>1. /\ truth[r] = "no" /\ r # "old" /\ truth' = [truth EXCEPT ![r] = "run"]
      /\ truth \in [Requests -> {"no", "run", "done", "failed", "gone"}]
      /\ UNCHANGED <<now, answer, hops, loader, iframe, sessionVars>>
  BY DEF RequestStarts, MayStart, IdleInv, BrowserTyped
<1>2. /\ r = "sub" => iframe = "there"
      /\ loader = "second" => r \in {"doc2", "img2"}
  BY DEF RequestStarts, MayStart, Loader, QuietInv, PageTrue
<1>3. PICK t, y : /\ EmitsNew(t) /\ Told(t) = {y}
                  /\ y.kind = "start" /\ y.r = r /\ y.hop = 0 /\ y.time = now
  <2>1. PICK kind \in EventKinds, hop \in Hops : kind = "start" /\ hop = 0
    BY DEF EventKinds, Hops
  <2>2. Emit(<<Event(kind, r, hop)>>, OfThePage(r))
    BY <2>1 DEF RequestStarts
  <2>3. \E t, y : /\ EmitsNew(t) /\ Told(t) = {y}
                 /\ y.kind = kind /\ y.r = r /\ y.hop = hop /\ y.time = now
    BY <2>2, EmitOne
  <2>4. QED
    BY <2>1, <2>3
<1>4. /\ now \in 0 .. MaxTime
      /\ active' = IF OfThePage(r) THEN now ELSE active
  BY DEF RequestStarts, Emit, IdleInv, BrowserTyped
<1>5. PageTrue'
  BY <1>1, <1>2, IdleConstants DEF QuietInv, PageTrue
<1>6. /\ ~Happened(r, 0) /\ (r \in Documents => answer[r] = "none") /\ ~Over(r)
      /\ \A q \in Requests : /\ Over(q) => truth'[q] = truth[q]
                             /\ \A h \in Hops : Happened(q, h) => Happened(q, h)'
      /\ iframe = "removed" /\ truth'["sub"] = "gone" => truth["sub"] = "gone"
  BY <1>1 DEF Happened, Over, IdleInv, BrowserTrue
<1>7. \/ active' = active /\ loader' = loader /\ (Underway => Underway')
      \/ Ahead(y)'
  <2>1. CASE OfThePage(r)
    BY <1>1, <1>2, <1>3, <1>4, <2>1 DEF Ahead, OfWork
  <2>2. CASE ~OfThePage(r)
    BY <1>1, <1>4, <2>2, IdleConstants DEF Underway
  <2>3. QED
    BY <2>1, <2>2
<1>8. SaysTrue(y)'
  BY <1>3 DEF SaysTrue
<1>9. QuietlyGrows(t)
  BY <1>1, <1>2, <1>3, <1>5, <1>6, <1>7, <1>8 DEF QuietlyGrows
<1>10. QED
  BY <1>9, GrowsQuiet

LEMMA RedirectQuiet ==
    ASSUME IdleInv, QuietInv, NEW d \in Documents, Redirect(d)
    PROVE  QuietInv'
<1>1. /\ truth[d] = "run" /\ answer[d] = "none" /\ hops[d] = 0 /\ hops' = [hops EXCEPT ![d] = 1]
      /\ hops \in [Documents -> Hops] /\ d \in Requests
      /\ UNCHANGED <<now, truth, answer, loader, iframe, sessionVars>>
  BY IdleConstants DEF Redirect, IdleInv, BrowserTyped
<1>2. PICK t, y : /\ EmitsNew(t) /\ Told(t) = {y}
                  /\ y.kind = "start" /\ y.r = d /\ y.hop = 1 /\ y.time = now
  <2>1. PICK kind \in EventKinds, hop \in Hops : kind = "start" /\ hop = 1
    BY DEF EventKinds, Hops
  <2>2. PICK busy : busy = OfThePage(d)
    OBVIOUS
  <2>3. Emit(<<Event(kind, d, hop)>>, busy)
    BY <2>1, <2>2, IdleConstants DEF Redirect, Emit, OfThePage
  <2>4. d \in Requests
    BY <1>1
  <2>5. \E t, y : /\ EmitsNew(t) /\ Told(t) = {y}
                 /\ y.kind = kind /\ y.r = d /\ y.hop = hop /\ y.time = now
    BY <2>3, <2>4, EmitOne
  <2>6. QED
    BY <2>1, <2>5
<1>3. now \in 0 .. MaxTime /\ active' = now
  BY DEF Redirect, Emit, IdleInv, BrowserTyped
<1>4. PageTrue'
  BY <1>1 DEF QuietInv, PageTrue
<1>5. d # "old" /\ d # "sub" /\ ~Over(d) /\ ~Happened(d, 1) /\ OfThePage(d)
  BY <1>1, IdleConstants DEF Over, Happened, OfThePage
<1>6. \A q \in Requests, h \in Hops : Happened(q, h) => Happened(q, h)'
  BY <1>1 DEF Happened
<1>7. Ahead(y)'
  BY <1>1, <1>2, <1>3, <1>5 DEF Ahead, OfWork, QuietInv, PageTrue
<1>8. SaysTrue(y)'
  BY <1>2 DEF SaysTrue
<1>9. QuietlyGrows(t)
  BY <1>1, <1>2, <1>4, <1>5, <1>6, <1>7, <1>8 DEF QuietlyGrows
<1>10. QED
  BY <1>9, GrowsQuiet

LEMMA OverQuiet ==
    ASSUME IdleInv, QuietInv, NEW r \in Requests, RequestEnds(r) \/ RequestFails(r)
    PROVE  QuietInv'
<1>1. PICK kind \in {"finish", "fail"} :
         /\ truth[r] = "run"
         /\ truth' = [truth EXCEPT ![r] = IF kind = "finish" THEN "done" ELSE "failed"]
         /\ kind = "finish" => (r \in Documents => answer[r] # "none")
         /\ Emit(<<Event(kind, r, 0)>>, OfThePage(r))
         /\ UNCHANGED <<now, answer, hops, loader, iframe, sessionVars>>
  <2>1. CASE RequestEnds(r)
    BY <2>1 DEF RequestEnds
  <2>2. CASE RequestFails(r)
    BY <2>2 DEF RequestFails
  <2>3. QED
    BY <2>1, <2>2
<1>2. truth \in [Requests -> {"no", "run", "done", "failed", "gone"}]
  BY DEF IdleInv, BrowserTyped
<1>3. PICK t, y : /\ EmitsNew(t) /\ Told(t) = {y}
                  /\ y.kind = kind /\ y.r = r /\ y.hop = 0 /\ y.time = now
  <2>1. kind \in EventKinds
    BY DEF EventKinds
  <2>2. PICK hop \in Hops : hop = 0
    BY DEF Hops
  <2>3. PICK busy : busy = OfThePage(r)
    OBVIOUS
  <2>4. Emit(<<Event(kind, r, hop)>>, busy)
    BY <1>1, <2>2, <2>3
  <2>5. \E t, y : /\ EmitsNew(t) /\ Told(t) = {y}
                 /\ y.kind = kind /\ y.r = r /\ y.hop = hop /\ y.time = now
    BY <2>1, <2>4, EmitOne
  <2>6. QED
    BY <2>2, <2>5
<1>4. /\ now \in 0 .. MaxTime
      /\ active' = IF OfThePage(r) THEN now ELSE active
  BY <1>1 DEF Emit, IdleInv, BrowserTyped
<1>5. PageTrue'
  BY <1>1, <1>2 DEF QuietInv, PageTrue
<1>6. /\ ~Over(r) /\ (r = "sub" => iframe # "removed")
      /\ \A q \in Requests : /\ Over(q) => truth'[q] = truth[q]
                             /\ \A h \in Hops : Happened(q, h) => Happened(q, h)'
      /\ iframe = "removed" /\ truth'["sub"] = "gone" => truth["sub"] = "gone"
  BY <1>1, <1>2 DEF Happened, Over, IdleInv, BrowserTrue, QuietInv, PageTrue
<1>7. \/ active' = active /\ loader' = loader /\ (Underway => Underway')
      \/ Ahead(y)'
  <2>1. CASE OfThePage(r)
    BY <1>1, <1>3, <1>4, <2>1 DEF Ahead, OfWork, OfThePage, QuietInv, PageTrue
  <2>2. CASE ~OfThePage(r)
    BY <1>1, <1>2, <1>4, <2>2, IdleConstants DEF Underway
  <2>3. QED
    BY <2>1, <2>2
<1>8. SaysTrue(y)'
  BY <1>1, <1>2, <1>3 DEF SaysTrue
<1>9. QuietlyGrows(t)
  BY <1>1, <1>3, <1>5, <1>6, <1>7, <1>8 DEF QuietlyGrows
<1>10. QED
  BY <1>9, GrowsQuiet

LEMMA AttachQuiet ==
    ASSUME IdleInv, QuietInv, Attach
    PROVE  QuietInv'
<1>1. /\ iframe = "no" /\ loader = "first" /\ iframe' = "there"
      /\ UNCHANGED <<now, truth, answer, hops, loader, sessionVars>>
      /\ "sub" \in Requests
  BY NetworkIdleAssumption DEF Attach, IdleInv, BrowserTyped
<1>2. PICK t, y : /\ EmitsNew(t) /\ Told(t) = {y}
                  /\ y.kind = "attach" /\ y.r = "sub" /\ y.hop = 0 /\ y.time = now
  <2>1. PICK kind \in EventKinds, r \in Requests, hop \in Hops :
           kind = "attach" /\ r = "sub" /\ hop = 0
    BY <1>1 DEF EventKinds, Hops
  <2>2. Emit(<<Event(kind, r, hop)>>, OfThePage("old"))
    BY <2>1 DEF Attach, Emit, OfThePage
  <2>3. QED
    BY <2>1, <2>2, EmitOne
<1>3. active' = active
  BY DEF Attach, Emit
<1>4. PageTrue' /\ ~Over("sub")
  BY <1>1 DEF QuietInv, PageTrue, IdleInv, BrowserTrue, Over
<1>5. /\ \A q \in Requests, h \in Hops : Happened(q, h) => Happened(q, h)'
      /\ Underway => Underway'
  BY <1>1 DEF Happened, Underway
<1>6. SaysTrue(y)'
  BY <1>2 DEF SaysTrue
<1>7. QuietlyGrows(t)
  BY <1>1, <1>2, <1>3, <1>4, <1>5, <1>6 DEF QuietlyGrows
<1>8. QED
  BY <1>7, GrowsQuiet

LEMMA DetachQuiet ==
    ASSUME IdleInv, QuietInv, Detach
    PROVE  QuietInv'
<1>1. /\ iframe = "there" /\ iframe' = "removed"
      /\ truth' = [truth EXCEPT !["sub"] = IF @ = "run" THEN "gone" ELSE @]
      /\ UNCHANGED <<now, answer, hops, loader, sessionVars>>
      /\ "sub" \in Requests
      /\ truth \in [Requests -> {"no", "run", "done", "failed", "gone"}]
  BY DEF Detach, IdleInv, BrowserTyped, BrowserTrue
<1>2. PICK t, y : /\ EmitsNew(t) /\ Told(t) = {y}
                  /\ y.kind = "detach" /\ y.r = "sub" /\ y.hop = 0 /\ y.time = now
  <2>1. PICK kind \in EventKinds, r \in Requests, hop \in Hops :
           kind = "detach" /\ r = "sub" /\ hop = 0
    BY <1>1 DEF EventKinds, Hops
  <2>2. Emit(<<Event(kind, r, hop)>>, truth["sub"] = "run")
    BY <2>1 DEF Detach
  <2>3. QED
    BY <2>1, <2>2, EmitOne
<1>3. /\ now \in 0 .. MaxTime
      /\ active' = IF truth["sub"] = "run" THEN now ELSE active
  BY DEF Detach, Emit, IdleInv, BrowserTyped
<1>4. PageTrue'
  BY <1>1, IdleConstants DEF QuietInv, PageTrue
<1>5. \A q \in Requests : /\ Over(q) => truth'[q] = truth[q]
                          /\ \A h \in Hops : Happened(q, h) => Happened(q, h)'
  BY <1>1 DEF Happened, Over
<1>6. \/ active' = active /\ loader' = loader /\ (Underway => Underway')
      \/ Ahead(y)'
  <2>1. CASE truth["sub"] = "run"
    <3>1. truth'["sub"] = "gone" /\ loader = "first"
      BY <1>1, <2>1 DEF QuietInv, PageTrue
    <3>2. QED
      BY <1>1, <1>2, <1>3, <2>1, <3>1 DEF Ahead, OfWork, OfThePage
  <2>2. CASE truth["sub"] # "run"
    BY <1>1, <1>3, <2>2 DEF Underway
  <2>3. QED
    BY <2>1, <2>2
<1>7. SaysTrue(y)'
  BY <1>2 DEF SaysTrue
<1>8. QuietlyGrows(t)
  BY <1>1, <1>2, <1>4, <1>5, <1>6, <1>7 DEF QuietlyGrows
<1>9. QED
  BY <1>8, GrowsQuiet

LEMMA CommitQuiet ==
    ASSUME IdleInv, QuietInv, NEW d \in Documents, Commit(d)
    PROVE  QuietInv'
<1> DEFINE left == LeftBy(d)
           gone == IF iframe = "there" /\ truth["sub"] = "run" THEN {"sub"} ELSE {}
<1>1. PICK a \in {"ok", "bad"} : answer' = [answer EXCEPT ![d] = a]
  BY DEF Commit
<1>2. /\ truth[d] = "run" /\ answer[d] = "none" /\ loader' = Loader(d)
      /\ truth' = [r \in Requests |-> IF r \in left THEN "failed"
                                      ELSE IF r \in gone THEN "gone" ELSE truth[r]]
      /\ iframe' = IF iframe = "there" THEN "removed" ELSE iframe
      /\ UNCHANGED <<now, hops, sessionVars>>
      /\ active' = now
  BY DEF Commit, LeftBy, Emit
<1>3. /\ answer'[d] = a /\ d \in Requests /\ answer \in [Documents -> IdleAnswers]
      /\ truth \in [Requests -> {"no", "run", "done", "failed", "gone"}]
      /\ iframe # "no" => "sub" \in Requests
      /\ d = "doc" \/ d = "doc2"
      /\ now \in 0 .. MaxTime
  BY <1>1, IdleConstants DEF IdleInv, BrowserTyped, BrowserTrue
<1>4. PICK t : /\ EmitsNew(t)
               /\ \A y \in Told(t) : CommitTells(d, y) /\ y.time = now
               /\ \E y \in Told(t) : y.kind = answer'[d] /\ y.r = d
  BY CommitEmits
<1>5. \A r \in Requests : /\ truth[r] # "run" => truth'[r] = truth[r]
                          /\ r \in left => truth[r] = "run" /\ truth'[r] = "failed"
                          /\ truth'[r] = "run" => truth[r] = "run" /\ r \notin left /\ r \notin gone
                          /\ truth'[r] = "done" => truth[r] = "done"
                          /\ truth'[r] = "gone" => truth[r] = "gone" \/ r \in gone
  BY <1>2, <1>3 DEF LeftBy
<1>6. PageTrue'
  <2>1. answer'["doc"] # "none" => loader' # "none"
    BY <1>2 DEF Loader
  <2>2. "doc2" \in Documents /\ answer'["doc2"] # "none" => loader' = "second"
    <3>1. CASE d = "doc2"
      BY <1>2, <3>1 DEF Loader
    <3>2. CASE d = "doc" /\ "doc2" \in Documents
      <4>1. answer'["doc2"] = answer["doc2"]
        BY <1>1, <1>3, <3>2
      <4>2. answer["doc2"] = "none"
        BY <1>2, <3>2, IdleConstants DEF IdleInv, BrowserTrue
      <4>3. QED
        BY <4>1, <4>2
    <3>3. QED
      BY <1>3, <3>1, <3>2
  <2>3. \A e \in Documents : truth'[e] = "done" => answer'[e] # "none"
    BY <1>1, <1>3, <1>5, IdleConstants DEF QuietInv, PageTrue
  <2>4. ASSUME loader' = "second", NEW r \in Requests, truth'[r] = "run"
        PROVE  r \in {"doc2", "img2", "old"}
    <3>1. d = "doc2"
      BY <1>2, <1>3, <2>4 DEF Loader
    <3>2. truth[r] = "run" /\ r \notin left /\ r \notin gone
      BY <1>5, <2>4
    <3>3. r # "sub"
      BY <3>2 DEF QuietInv, PageTrue
    <3>4. r \notin {"doc", "img", "feed"}
      BY <3>1, <3>2 DEF LeftBy, OfMainFrame, Loader
    <3>5. QED
      BY <3>3, <3>4, NetworkIdleAssumption
  <2>5. "sub" \in Requests /\ truth'["sub"] = "run" => iframe' = "there"
    BY <1>5 DEF QuietInv, PageTrue
  <2>6. iframe' # "there"
    BY <1>2
  <2>7. \A r \in Requests : truth'[r] = "gone" => r = "sub" /\ iframe' = "removed"
    BY <1>2, <1>5 DEF QuietInv, PageTrue
  <2>8. QED
    BY <2>1, <2>2, <2>3, <2>4, <2>5, <2>6, <2>7 DEF PageTrue
<1>7. ASSUME NEW y \in Told(t)
      PROVE  /\ SaysTrue(y)' /\ y.time = now /\ y.kind # "start"
             /\ y.kind = "detach" => y.r = "sub" /\ iframe = "there"
             /\ y.kind # "detach" => ~Over(y.r) /\ (y.r = "sub" => iframe # "removed")
  <2>1. CommitTells(d, y) /\ y.time = now
    BY <1>4
  <2>2. CASE y.kind = "detach" /\ y.r = "sub" /\ iframe = "there"
    BY <2>1, <2>2 DEF SaysTrue
  <2>3. CASE y.kind = "fail" /\ y.r \in left
    <3>1. truth[y.r] = "run" /\ truth'[y.r] = "failed" /\ y.r # "sub"
      BY <1>5, <2>3 DEF LeftBy, OfMainFrame
    <3>2. QED
      BY <2>1, <2>3, <3>1 DEF SaysTrue, Over
  <2>4. CASE y.kind \in {"ok", "bad"} /\ y.kind = answer'[d] /\ y.r = d
    BY <1>2, <1>3, <2>1, <2>4 DEF SaysTrue, Over
  <2>5. QED
    BY <2>1, <2>2, <2>3, <2>4 DEF CommitTells
<1>8. \A q \in Requests : /\ Over(q) => truth'[q] = truth[q]
                          /\ \A h \in Hops : Happened(q, h) => Happened(q, h)'
  <2>1. \A q \in Requests : Over(q) => truth'[q] = truth[q]
    BY <1>5 DEF Over
  <2>2. \A q \in Requests : truth[q] # "no" => truth'[q] # "no"
    BY <1>2, <1>3
  <2>3. hops' = hops
    BY <1>2
  <2>4. QED
    BY <2>1, <2>2, <2>3 DEF Happened
<1>9. /\ \A e \in Documents : answer[e] # "none" => answer'[e] = answer[e]
      /\ loader = "second" => loader' = "second"
  BY <1>1, <1>2, <1>3, IdleConstants DEF QuietInv, PageTrue, Loader
<1>10. /\ iframe = "removed" => iframe' = "removed"
       /\ iframe = "removed" /\ truth'["sub"] = "gone" => truth["sub"] = "gone"
  BY <1>2, <1>3, <1>5
<1>11. \E y \in Told(t) : Ahead(y)'
  <2>1. PICK y \in Told(t) : y.kind = answer'[d] /\ y.r = d
    BY <1>4
  <2>2. y.time = now
    BY <1>4
  <2>3. Ahead(y)'
    BY <1>2, <1>3, <2>1, <2>2 DEF Ahead, OfWork, OfThePage, Loader
  <2>4. QED
    BY <2>3
<1> HIDE DEF left, gone
<1>12. UNCHANGED <<now, sessionVars>>
  BY <1>2
<1>13. QuietlyGrows(t)
  BY <1>4, <1>6, <1>7, <1>8, <1>9, <1>10, <1>11, <1>12 DEF QuietlyGrows
<1>14. QED
  BY <1>13, GrowsQuiet
-----------------------------------------------------------------------------
\* A step of the session that enters nothing leaves what the events say.
LEMMA StaysQuiet ==
    ASSUME IdleInv, QuietInv, UNCHANGED browserVars, now' \in Nat, now <= now',
           book' \in Books, book.last <= book'.last,
           book'.ledger = book.ledger, book'.seen = book.seen,
           book'.navigation = book.navigation \/ book.seen = {},
           BookTrue', DocumentsInOrder', PriorStarts'
    PROVE  QuietInv'
<1>1. /\ log' = log /\ cdp' = cdp /\ truth' = truth /\ answer' = answer /\ loader' = loader
      /\ iframe' = iframe /\ active' = active
  BY DEF browserVars
<1>2. PageTrue'
  BY <1>1 DEF QuietInv, PageTrue
<1>3. now \in Nat /\ active \in Nat /\ book.last \in Int /\ book'.last \in Int
  BY IdleConstants DEF IdleInv, BrowserTyped, SessionTyped, Books, IdleTimes, Never
<1>4. \A x \in Told(log) \cup Told(cdp) : x.time \in Nat
  <2>1. \A x \in Told(log) \cup Told(cdp) : x \in IdleEvents
    BY ToldIsReal
  <2>2. \A x \in IdleEvents : x.time \in Nat
    BY DEF IdleEvents
  <2>3. QED
    BY <2>1, <2>2
<1>5. EventsTrue'
  <2>1. \A x \in Told(log) \cup Told(cdp) : SaysTrue(x)' /\ x.time <= now'
    BY <1>1, <1>3, <1>4 DEF QuietInv, EventsTrue, SaysTrue
  <2>2. QED
    BY <1>1, <2>1 DEF QuietInv, EventsTrue, Told, Agree, IsStart, Ends
<1>6. EnteredCounts'
  <2>1. ASSUME NEW x \in Told(cdp)
        PROVE  /\ x.kind = "start" /\ <<x.r, x.hop>> \in book'.seen /\ x.stamp >= book'.navigation =>
                     x.time <= book'.last
               /\ OfWork(x)' /\ book'.ledger[x.r] \in {"finished", "failed", "detached"} =>
                     x.time <= book'.last
    <3>1. OfWork(x)' <=> OfWork(x)
      BY <1>1 DEF OfWork
    <3>2. x.time <= book.last => x.time <= book'.last
      BY <1>3, <1>4
    <3>3. QED
      BY <3>1, <3>2 DEF QuietInv, EnteredCounts
  <2>2. QED
    BY <1>1, <2>1 DEF EnteredCounts, Told, OfWork
<1>7. ActivityTold'
  <2>1. active <= book.last => active <= book'.last
    BY <1>3
  <2>2. \A x : Ahead(x)' <=> Ahead(x)
    BY <1>1 DEF Ahead, OfWork
  <2>3. Underway' <=> Underway
    BY <1>1 DEF Underway
  <2>4. active <= book'.last \/ Underway' \/ \E x \in Told(cdp) : Ahead(x)'
    BY <2>1, <2>2, <2>3 DEF QuietInv, ActivityTold
  <2>5. QED
    BY <1>1, <2>4 DEF ActivityTold, Told, Ahead, OfWork
<1>8. QED
  BY <1>2, <1>5, <1>6, <1>7 DEF QuietInv

LEMMA SameBookQuiet ==
    ASSUME IdleInv, QuietInv, UNCHANGED browserVars, now' \in Nat, now <= now',
           book' \in Books, book.last <= book'.last,
           book'.ledger = book.ledger, book'.seen = book.seen,
           book'.navigation = book.navigation, book'.documents = book.documents,
           book'.main = book.main, book'.initial = book.initial, book'.status = book.status
    PROVE  QuietInv'
<1>1. /\ log' = log /\ cdp' = cdp /\ truth' = truth /\ answer' = answer /\ loader' = loader
      /\ iframe' = iframe /\ hops' = hops
  BY DEF browserVars
<1>2. BookTrue'
  BY <1>1 DEF QuietInv, BookTrue, Happened
<1>3. DocumentsInOrder'
  BY DEF QuietInv, DocumentsInOrder
<1>4. PriorStarts'
  BY <1>1 DEF QuietInv, PriorStarts, Told
<1>5. QED
  BY <1>2, <1>3, <1>4, StaysQuiet

LEMMA TimesAreNumbers ==
    ASSUME IdleInv
    PROVE  /\ book \in Books /\ now \in Nat /\ now <= now
           /\ book.last \in IdleTimes /\ book.last \in Int /\ book.last <= book.last
           /\ Never < 0 /\ Never \in Int
<1>1. book \in Books /\ now \in 0 .. MaxTime
  BY DEF IdleInv, SessionTyped, BrowserTyped
<1>2. book.last \in IdleTimes
  BY <1>1 DEF Books
<1>3. QED
  BY <1>1, <1>2, IdleConstants DEF IdleTimes, Never

LEMMA WaitQuiet ==
    ASSUME IdleInv, QuietInv, Tick \/ ReadLog \/ Recheck \/ UNCHANGED idleVars
    PROVE  QuietInv'
<1>1. UNCHANGED browserVars /\ book' = book /\ (now' = now \/ now' = now + 1)
  BY DEF Tick, ReadLog, Recheck, sessionVars, idleVars
<1>2. now' \in Nat /\ now <= now'
  BY <1>1, TimesAreNumbers
<1>3. QED
  BY <1>1, <1>2, TimesAreNumbers, SameBookQuiet

\* Deciding, the session at last takes the time.
LEMMA DecideBook ==
    ASSUME IdleInv, Decide
    PROVE  /\ UNCHANGED <<now, browserVars>> /\ book' \in Books
           /\ book'.last = IF book.last = Never THEN now ELSE book.last
           /\ book'.ledger = book.ledger /\ book'.seen = book.seen
           /\ book'.navigation = book.navigation /\ book'.documents = book.documents
           /\ book'.main = book.main /\ book'.initial = book.initial /\ book'.status = book.status
           /\ \/ book'.target = <<>>
              \/ \E i \in InForce(book) : /\ \A j \in InForce(book) : j <= i
                                          /\ book'.target = <<book.documents[i]>>
<1> DEFINE b == [book EXCEPT !.last = IF @ = Never THEN now ELSE @]
           time == IF book.last = Never THEN now ELSE book.last
<1>1. book' = Target(b) /\ UNCHANGED <<now, browserVars>>
  BY DEF Decide
<1>2. book \in Books /\ now \in 0 .. MaxTime
  BY DEF IdleInv, SessionTyped, BrowserTyped
<1>3. time \in IdleTimes
  <2>1. book.last \in IdleTimes
    BY <1>2 DEF Books
  <2>2. QED
    BY <1>2, <2>1, IdleConstants DEF IdleTimes, Never
<1>4. b = [book EXCEPT !.last = time]
  BY <1>2 DEF Books
<1> HIDE DEF time, b
<1>5. b \in Books
  BY <1>2, <1>3, <1>4 DEF Books
<1>6. /\ b.ledger = book.ledger /\ b.seen = book.seen /\ b.main = book.main
      /\ b.initial = book.initial /\ b.status = book.status
      /\ b.navigation = book.navigation /\ b.documents = book.documents
      /\ b.last = time
  BY <1>2, <1>4 DEF Books
<1>7. InForce(b) = InForce(book)
  BY <1>6 DEF InForce, BeforeNavigation
<1>8. /\ Target(b) \in Books
      /\ Target(b).ledger = b.ledger /\ Target(b).seen = b.seen
      /\ Target(b).main = b.main /\ Target(b).initial = b.initial
      /\ Target(b).navigation = b.navigation /\ Target(b).documents = b.documents
      /\ Target(b).status = b.status /\ Target(b).last = b.last
      /\ \/ Target(b).target = <<>>
         \/ \E i \in InForce(b) : /\ \A j \in InForce(b) : j <= i
                                  /\ Target(b).target = <<b.documents[i]>>
  BY <1>5, TargetBook
<1>9. QED
  BY <1>1, <1>6, <1>7, <1>8 DEF time

LEMMA DecideQuiet ==
    ASSUME IdleInv, QuietInv, Decide
    PROVE  QuietInv'
<1>1. /\ UNCHANGED <<now, browserVars>> /\ book' \in Books
      /\ book'.last = IF book.last = Never THEN now ELSE book.last
      /\ book'.ledger = book.ledger /\ book'.seen = book.seen
      /\ book'.navigation = book.navigation /\ book'.documents = book.documents
      /\ book'.main = book.main /\ book'.initial = book.initial /\ book'.status = book.status
  BY DecideBook
<1>2. now' \in Nat /\ now <= now' /\ book.last <= book'.last
  BY <1>1, TimesAreNumbers
<1>3. QED
  BY <1>1, <1>2, SameBookQuiet

LEMMA BeginQuiet ==
    ASSUME IdleInv, QuietInv, Begin
    PROVE  QuietInv'
<1>1. /\ loader # "none" /\ book = EmptyBook
      /\ book' = [EmptyBook EXCEPT !.main = loader, !.initial = loader,
                                   !.frame = (iframe = "there")]
      /\ UNCHANGED <<now, browserVars>>
  BY DEF Begin, IdleInv, BookBegun
<1>2. /\ log' = log /\ cdp' = cdp /\ truth' = truth /\ answer' = answer /\ loader' = loader
      /\ iframe' = iframe /\ hops' = hops
  BY <1>1 DEF browserVars
<1>3. /\ book.ledger = [r \in Requests |-> "unseen"] /\ book.seen = {}
      /\ book'.ledger = book.ledger /\ book'.seen = {} /\ book'.last = book.last
      /\ book'.main = loader /\ book'.initial = loader
      /\ book'.navigation = Never /\ book'.documents = <<>>
      /\ book'.status = [d \in Documents |-> "none"]
  BY <1>1 DEF EmptyBook
<1>4. now' \in Nat /\ now <= now' /\ book.last <= book'.last
  BY <1>1, <1>3, TimesAreNumbers
<1>5. book' \in Books
  <2>1. loader \in IdleLoaders /\ (iframe = "there") \in BOOLEAN /\ book \in Books
    BY TimesAreNumbers DEF IdleInv, BrowserTyped
  <2>2. [book EXCEPT !.main = loader, !.initial = loader, !.frame = (iframe = "there")] \in Books
    BY <2>1 DEF Books
  <2>3. QED
    BY <1>1, <2>2
<1>6. BookTrue'
  <2>1. loader = "second" => "doc2" \in Documents /\ truth["doc2"] # "no"
    BY DEF IdleInv, BrowserTrue
  <2>2. QED
    BY <1>2, <1>3, <2>1 DEF BookTrue
<1>7. DocumentsInOrder'
  BY <1>3 DEF DocumentsInOrder
<1>8. PriorStarts'
  BY <1>3 DEF PriorStarts
<1>9. QED
  BY <1>1, <1>3, <1>4, <1>5, <1>6, <1>7, <1>8, StaysQuiet

LEMMA GatherQuiet ==
    ASSUME IdleInv, QuietInv, GatherEvents
    PROVE  QuietInv'
<1> DEFINE events == {log[i] : i \in 1 .. due} \cup {cdp[i] : i \in 1 .. Len(cdp)}
<1>1. /\ pc = "cdp" /\ book' = FindNavigation(book, events) /\ UNCHANGED <<now, browserVars>>
  BY DEF GatherEvents
<1>2. now' \in Nat /\ now <= now' /\ book \in Books /\ book.last <= book.last
  BY <1>1, TimesAreNumbers
<1>3. CASE book.navigation # Never
  <2>1. book' = book
    BY <1>1, <1>3 DEF FindNavigation
  <2>2. QED
    BY <1>1, <1>2, <2>1, SameBookQuiet
<1>4. CASE book.navigation = Never
  <2>1. /\ log = cdp /\ due \in 0 .. Len(log) /\ Len(log) \in Nat
        /\ book.seen = {} /\ book.documents = <<>>
    BY <1>4 DEF IdleInv, BookBegun, SessionTyped, StreamTrue
  <2>2. events = Told(cdp)
    BY <2>1 DEF Told
  <2> HIDE DEF events
  <2>3. PICK first \in Nat :
              /\ book' = [book EXCEPT !.navigation = first,
                                      !.ledger = [r \in Requests |-> book.ledger[r]]]
              /\ \A x \in Told(cdp) : x.kind = "start" /\ x.stamp < first =>
                    x.r = "old" \/ (book.initial = "second" /\ x.r \notin {"doc2", "img2"})
    BY <1>1, <1>4, <2>2, FirstStart
  <2>4. [r \in Requests |-> book.ledger[r]] = book.ledger
    BY <1>2 DEF Books
  <2>5. book' = [book EXCEPT !.navigation = first, !.ledger = book.ledger]
    BY <2>3, <2>4
  <2>6. /\ book' \in Books
        /\ book'.ledger = book.ledger /\ book'.seen = book.seen /\ book'.main = book.main
        /\ book'.initial = book.initial /\ book'.status = book.status
        /\ book'.navigation = first /\ book'.documents = book.documents
        /\ book'.last = book.last
    BY <1>2, <2>5 DEF Books
  <2>7. /\ log' = log /\ cdp' = cdp /\ truth' = truth /\ answer' = answer /\ loader' = loader
        /\ iframe' = iframe /\ hops' = hops
    BY <1>1 DEF browserVars
  <2>8. BookTrue'
    BY <2>6, <2>7 DEF QuietInv, BookTrue, Happened
  <2>9. DocumentsInOrder'
    BY <2>1, <2>6 DEF DocumentsInOrder
  <2>10. PriorStarts'
    <3>1. \A x \in Told(log) \cup Told(cdp) : x.kind = "start" /\ x.stamp < first =>
             x.r = "old" \/ (book.initial = "second" /\ OfFirst(x.r))
      BY <2>1, <2>3 DEF OfFirst
    <3>2. QED
      BY <2>6, <2>7, <3>1 DEF PriorStarts, Told
  <2>11. QED
    BY <1>1, <1>2, <2>1, <2>6, <2>8, <2>9, <2>10, StaysQuiet
<1>5. QED
  BY <1>3, <1>4

\* What is known of the event that is entered.
LEMMA EntersSays ==
    ASSUME IdleInv, QuietInv, NEW s, NEW rest, NEW other, Enters(s, rest, other)
    PROVE  /\ Head(s) \in Told(log) \cup Told(cdp) /\ SaysTrue(Head(s))
           /\ Head(s).r \in Requests /\ Head(s).hop \in Hops /\ Real(Head(s))
           /\ Head(s).stamp \in Nat /\ Head(s).time \in Nat
           /\ Told(log') \subseteq Told(log) /\ Told(cdp') \subseteq Told(cdp)
           /\ book.ledger \in [Requests -> States] /\ book.navigation \in Nat
           /\ book.last \in Int /\ book'.last \in Int /\ book.last <= book'.last
<1>1. /\ Head(s) \in IdleEvents /\ Head(s).r \in Requests /\ Head(s).hop \in Hops
      /\ Real(Head(s)) /\ Head(s) \in Told(log) \cup Told(cdp)
      /\ Told(s) = {Head(s)} \cup Told(rest)
  BY EntersStream
<1>2. /\ book' \in Books /\ book.navigation # Never
      /\ Head(s).kind = "start" => StartLeaves(book, Head(s), book')
      /\ Head(s).kind # "start" => OtherLeaves(book, Head(s), book')
  BY EntersBook
<1>3. Head(s).stamp \in Nat /\ Head(s).time \in Nat
  <2>1. \A x \in IdleEvents : x.stamp \in Nat /\ x.time \in Nat
    BY DEF IdleEvents
  <2>2. QED
    BY <1>1, <2>1
<1>4. Told(log') \subseteq Told(log) /\ Told(cdp') \subseteq Told(cdp)
  BY <1>1 DEF Enters
<1>5. book \in Books
  BY TimesAreNumbers
<1>6. book.ledger \in [Requests -> States] /\ book.navigation \in Nat
  BY <1>2, <1>5 DEF Books
<1>7. \A b \in Books : b.last \in Int
  BY IdleConstants DEF Books, IdleTimes, Never
<1>8. book.last <= book'.last
  BY <1>2 DEF StartLeaves, OtherLeaves
<1>9. SaysTrue(Head(s))
  BY <1>1 DEF QuietInv, EventsTrue
<1>10. QED
  BY <1>1, <1>2, <1>3, <1>4, <1>5, <1>6, <1>7, <1>8, <1>9

\* What is entered leaves the book true, ...
LEMMA EntersBookTrue ==
    ASSUME IdleInv, QuietInv, NEW s, NEW rest, NEW other, Enters(s, rest, other)
    PROVE  BookTrue'
<1> DEFINE e == Head(s)
<1>1. /\ e \in Told(log) \cup Told(cdp) /\ SaysTrue(e)
      /\ e.r \in Requests /\ e.hop \in Hops /\ Real(e)
      /\ book.ledger \in [Requests -> States]
      /\ e.kind = "start" => StartLeaves(book, e, book')
      /\ e.kind # "start" => OtherLeaves(book, e, book')
      /\ book'.initial = book.initial
  BY EntersSays, EntersBook
<1> HIDE DEF e
<1>2. UNCHANGED <<truth, answer, hops, loader, iframe>>
  BY DEF Enters
<1>3. ASSUME NEW r \in Requests
      PROVE  /\ book'.ledger[r] = "finished" => truth[r] = "done"
             /\ book'.ledger[r] = "failed" => truth[r] = "failed"
             /\ book'.ledger[r] = "detached" => r = "sub" /\ iframe = "removed"
             /\ book'.ledger[r] = "ignored" => r = "feed"
             /\ book'.ledger[r] = "prior" => r = "old" \/ (book.initial = "second" /\ OfFirst(r))
             /\ book.ledger[r] # "unseen" => book'.ledger[r] # "unseen"
  <2>1. CASE book'.ledger[r] = book.ledger[r]
    BY <2>1 DEF QuietInv, BookTrue
  <2>2. CASE book'.ledger[r] # book.ledger[r] /\ e.kind = "start"
    <3>1. r = e.r
      BY <1>1, <2>2 DEF StartLeaves
    <3>2. CASE book'.ledger[r] = "prior"
      <4>1. BeforeNavigation(book, e.stamp)
        BY <1>1, <2>2, <3>1, <3>2 DEF StartLeaves
      <4>2. QED
        BY <1>1, <2>2, <3>1, <3>2, <4>1 DEF QuietInv, PriorStarts, BeforeNavigation
    <3>3. CASE book'.ledger[r] # "prior"
      BY <1>1, <2>2, <3>1, <3>3 DEF StartLeaves
    <3>4. QED
      BY <3>2, <3>3
  <2>3. CASE book'.ledger[r] # book.ledger[r] /\ e.kind # "start"
    <3>1. /\ Ends(e, r) /\ book'.ledger[r] = EndState(e.kind)
      BY <1>1, <2>3 DEF OtherLeaves
    <3>2. QED
      BY <1>1, <3>1 DEF Ends, EndState, SaysTrue, Real
  <2>4. QED
    BY <2>1, <2>2, <2>3
<1>4. ASSUME NEW r \in Requests, NEW h \in Hops, <<r, h>> \in book'.seen
      PROVE  Happened(r, h) /\ book'.ledger[r] # "unseen"
  <2>1. CASE <<r, h>> \in book.seen
    BY <1>3, <2>1 DEF QuietInv, BookTrue
  <2>2. CASE <<r, h>> \notin book.seen
    <3>1. /\ e.kind = "start" /\ book'.seen = book.seen \cup {<<e.r, e.hop>>}
          /\ book'.ledger[e.r] \in {"prior", "pending"}
      BY <1>1, <1>4, <2>2 DEF StartLeaves, OtherLeaves
    <3>2. <<r, h>> = <<e.r, e.hop>>
      BY <1>4, <2>2, <3>1
    <3>3. r = e.r /\ h = e.hop
      BY <3>2
    <3>4. QED
      BY <1>1, <3>1, <3>3 DEF Real
  <2>3. QED
    BY <2>1, <2>2
<1>5. \A d \in Documents : book'.status[d] \in {"none", answer[d]}
  <2>1. ASSUME NEW d \in Documents
        PROVE  book'.status[d] \in {"none", answer[d]}
    <3>1. book.status[d] \in {"none", answer[d]}
      BY DEF QuietInv, BookTrue
    <3>2. CASE e.kind = "start"
      BY <1>1, <3>1, <3>2 DEF StartLeaves
    <3>3. CASE e.kind # "start"
      BY <1>1, <3>1, <3>3 DEF OtherLeaves, SaysTrue
    <3>4. QED
      BY <3>2, <3>3
  <2>2. QED
    BY <2>1
<1>6. book'.main = "second" => "doc2" \in Documents /\ truth["doc2"] # "no"
  <2>1. CASE book'.main = book.main
    BY <2>1 DEF QuietInv, BookTrue
  <2>2. CASE book'.main # book.main
    <3>1. e.kind = "start" /\ e.r \in Documents /\ book'.main = Loader(e.r)
      BY <1>1, <2>2 DEF StartLeaves, OtherLeaves, MainAfter
    <3>2. truth[e.r] # "no"
      BY <1>1, <3>1, StartsTruth
    <3>3. QED
      BY <3>1, <3>2, IdleConstants DEF Loader
  <2>3. QED
    BY <2>1, <2>2
<1>7. \A r \in Requests, h \in Hops : Happened(r, h)' <=> Happened(r, h)
  BY <1>2 DEF Happened
<1>8. book'.initial = "second" => loader = "second"
  BY <1>1 DEF QuietInv, BookTrue
<1>9. QED
  BY <1>1, <1>2, <1>3, <1>4, <1>5, <1>6, <1>7, <1>8 DEF BookTrue

\* ... its documents in their order, ...
LEMMA EntersDocuments ==
    ASSUME IdleInv, QuietInv, NEW s, NEW rest, NEW other, Enters(s, rest, other)
    PROVE  DocumentsInOrder'
<1> DEFINE e == Head(s)
           items == book.documents
           n == Len(book.documents)
<1>1. /\ e \in Told(log) \cup Told(cdp)
      /\ e.r \in Requests /\ e.hop \in Hops /\ Real(e) /\ e.stamp \in Nat
      /\ book.navigation \in Nat
      /\ e.kind = "start" => StartLeaves(book, e, book')
      /\ e.kind # "start" => OtherLeaves(book, e, book')
      /\ book'.navigation = book.navigation /\ book.seen \subseteq book'.seen
  BY EntersSays, EntersBook
<1> HIDE DEF e
<1>2. items \in Seq(MainDocuments) /\ n \in Nat
  <2>1. book \in Books
    BY TimesAreNumbers
  <2>2. items \in Seq(MainDocuments)
    BY <2>1 DEF Books
  <2>3. QED
    BY <2>2
<1>3. /\ \A i \in 1 .. n : <<items[i].r, items[i].hop>> \in book.seen
      /\ \A i, j \in 1 .. n : i < j /\ items[i].r = "doc2" => items[j].r = "doc2"
      /\ \A h \in Hops : <<"doc2", h>> \in book.seen =>
            \E i \in 1 .. n : items[i].r = "doc2" /\ items[i].stamp >= book.navigation
  BY DEF QuietInv, DocumentsInOrder
<1>4. ASSUME NEW h \in Hops, <<"doc2", h>> \in book'.seen, <<"doc2", h>> \notin book.seen
      PROVE  /\ e.kind = "start" /\ e.r = "doc2" /\ e.stamp >= book.navigation
             /\ book'.documents = Append(book.documents, Item(e))
  <2>1. e.kind = "start" /\ book'.seen = book.seen \cup {<<e.r, e.hop>>}
    BY <1>1, <1>4 DEF StartLeaves, OtherLeaves
  <2>2. <<"doc2", h>> = <<e.r, e.hop>>
    BY <1>4, <2>1
  <2>3. e.r = "doc2" /\ e.r \in Documents /\ ~IsKnown(book, e)
    BY <1>1, <1>4, <2>2 DEF Documents, IsKnown
  <2>4. e.stamp >= book.navigation
    BY <1>1, <2>1, <2>3, IdleConstants DEF IdleInv, BookAhead
  <2>5. ~BeforeNavigation(book, e.stamp)
    BY <1>1, <2>4 DEF BeforeNavigation
  <2>6. Belongs(book, e) /\ e.r # "feed"
    BY <2>3 DEF Belongs, OfMainFrame, MainAfter
  <2>7. QED
    BY <1>1, <2>1, <2>3, <2>4, <2>5, <2>6 DEF StartLeaves
<1>5. CASE book'.documents = book.documents
  <2>1. \A h \in Hops : <<"doc2", h>> \in book'.seen => <<"doc2", h>> \in book.seen
    <3>1. ASSUME NEW h \in Hops, <<"doc2", h>> \in book'.seen, <<"doc2", h>> \notin book.seen
          PROVE  FALSE
      <4>1. book'.documents = Append(book.documents, Item(e))
        BY <1>4, <3>1
      <4>2. Len(Append(book.documents, Item(e))) = n + 1
        BY <1>2
      <4>3. QED
        BY <1>2, <1>5, <4>1, <4>2
    <3>2. QED
      BY <3>1
  <2>2. QED
    BY <1>1, <1>3, <1>5, <2>1 DEF DocumentsInOrder
<1>6. CASE book'.documents # book.documents
  <2>1. /\ e.kind = "start" /\ e.r \in Documents /\ ~IsKnown(book, e)
        /\ book'.documents = Append(book.documents, Item(e))
        /\ book'.seen = book.seen \cup {<<e.r, e.hop>>}
    BY <1>1, <1>6 DEF StartLeaves, OtherLeaves
  <2> DEFINE after == Append(book.documents, Item(e))
  <2>2. /\ Len(after) = n + 1
        /\ \A i \in 1 .. n : after[i] = items[i]
        /\ after[n + 1] = Item(e)
    BY <1>2
  <2>3. Item(e).r = e.r /\ Item(e).hop = e.hop /\ Item(e).stamp = e.stamp
    BY DEF Item
  <2> HIDE DEF after, items, n
  <2>4. \A i \in 1 .. n + 1 : i \in 1 .. n \/ i = n + 1
    BY <1>2
  <2>5. \A i \in 1 .. n + 1 : <<after[i].r, after[i].hop>> \in book'.seen
    <3>1. ASSUME NEW i \in 1 .. n + 1
          PROVE  <<after[i].r, after[i].hop>> \in book'.seen
      <4>1. CASE i \in 1 .. n
        BY <1>1, <1>3, <2>2, <4>1
      <4>2. CASE i = n + 1
        BY <2>1, <2>2, <2>3, <4>2
      <4>3. QED
        BY <2>4, <4>1, <4>2
    <3>2. QED
      BY <3>1
  <2>6. ASSUME NEW i \in 1 .. n + 1, NEW j \in 1 .. n + 1, i < j, after[i].r = "doc2"
        PROVE  after[j].r = "doc2"
    <3>1. i \in 1 .. n
      BY <1>2, <2>6
    <3>2. items[i].r = "doc2"
      BY <2>2, <2>6, <3>1
    <3>3. CASE j \in 1 .. n
      BY <1>3, <2>2, <2>6, <3>1, <3>2, <3>3
    <3>4. CASE j = n + 1
      <4>1. items[i].hop \in Hops
        <5>1. items[i] \in MainDocuments
          BY <1>2, <3>1 DEF n, items
        <5>2. QED
          BY <5>1 DEF MainDocuments
      <4>2. DocSeen
        BY <1>3, <3>1, <3>2, <4>1 DEF IdleInv, SecondSeen
      <4>3. e.r # "doc"
        BY <1>1, <2>1, <4>2 DEF DocSeen, Real, IsKnown
      <4>4. QED
        BY <2>1, <2>2, <2>3, <3>4, <4>3, IdleConstants
    <3>5. QED
      BY <2>4, <3>3, <3>4
  <2>7. ASSUME NEW h \in Hops, <<"doc2", h>> \in book'.seen
        PROVE  \E i \in 1 .. n + 1 : after[i].r = "doc2" /\ after[i].stamp >= book.navigation
    <3>1. CASE <<"doc2", h>> \in book.seen
      <4>1. PICK i \in 1 .. n : items[i].r = "doc2" /\ items[i].stamp >= book.navigation
        BY <1>3, <3>1
      <4>2. i \in 1 .. n + 1
        BY <1>2
      <4>3. QED
        BY <2>2, <4>1, <4>2
    <3>2. CASE <<"doc2", h>> \notin book.seen
      <4>1. e.r = "doc2" /\ e.stamp >= book.navigation
        BY <1>4, <2>7, <3>2
      <4>2. n + 1 \in 1 .. n + 1
        BY <1>2
      <4>3. QED
        BY <2>2, <2>3, <4>1, <4>2
    <3>3. QED
      BY <3>1, <3>2
  <2>8. book'.documents = after /\ Len(book'.documents) = n + 1
    BY <2>1, <2>2 DEF after
  <2>9. QED
    BY <1>1, <2>5, <2>6, <2>7, <2>8 DEF DocumentsInOrder
<1>7. QED
  BY <1>5, <1>6

\* ... and has counted.
LEMMA EntersCounts ==
    ASSUME IdleInv, QuietInv, NEW s, NEW rest, NEW other, Enters(s, rest, other)
    PROVE  EnteredCounts'
<1> DEFINE e == Head(s)
<1>1. /\ e \in Told(log) \cup Told(cdp) /\ SaysTrue(e) /\ e.r \in Requests /\ Real(e)
      /\ e.stamp \in Nat /\ e.time \in Nat
      /\ Told(cdp') \subseteq Told(cdp)
      /\ book.ledger \in [Requests -> States] /\ book.navigation \in Nat
      /\ book.last \in Int /\ book'.last \in Int /\ book.last <= book'.last
      /\ e.kind = "start" => StartLeaves(book, e, book')
      /\ e.kind # "start" => OtherLeaves(book, e, book')
      /\ book'.navigation = book.navigation
  BY EntersSays, EntersBook
<1> HIDE DEF e
<1>2. UNCHANGED truth
  BY DEF Enters
<1>3. ASSUME NEW x \in Told(cdp')
      PROVE  /\ x.kind = "start" /\ <<x.r, x.hop>> \in book'.seen /\ x.stamp >= book.navigation =>
                   x.time <= book'.last
             /\ OfWork(x) /\ book'.ledger[x.r] \in {"finished", "failed", "detached"} =>
                   x.time <= book'.last
  <2>1. x \in Told(cdp) /\ x.r \in Requests /\ x.stamp \in Nat
    BY <1>1, ToldIsReal
  <2>2. x.time \in Nat
    <3>1. x \in IdleEvents
      BY <2>1, ToldIsReal
    <3>2. QED
      BY <3>1 DEF IdleEvents
  <2>3. Agree(x, e) /\ Agree(e, x)
    BY <1>1, <2>1 DEF QuietInv, EventsTrue
  <2>4. x.time <= book.last => x.time <= book'.last
    BY <1>1, <2>2
  <2>5. ASSUME x.kind = "start", <<x.r, x.hop>> \in book'.seen, x.stamp >= book.navigation
        PROVE  x.time <= book'.last
    <3>1. CASE <<x.r, x.hop>> \in book.seen
      BY <2>1, <2>4, <2>5, <3>1 DEF QuietInv, EnteredCounts
    <3>2. CASE <<x.r, x.hop>> \notin book.seen
      <4>1. e.kind = "start" /\ book'.seen = book.seen \cup {<<e.r, e.hop>>}
        BY <1>1, <2>5, <3>2 DEF StartLeaves, OtherLeaves
      <4>2. <<x.r, x.hop>> = <<e.r, e.hop>>
        BY <2>5, <3>2, <4>1
      <4>3. IsStart(e, x.r, x.hop)
        BY <4>1, <4>2 DEF IsStart
      <4>4. x.stamp = e.stamp /\ x.time = e.time
        BY <2>3, <2>5, <4>3 DEF Agree
      <4>5. ~BeforeNavigation(book, e.stamp)
        BY <1>1, <2>5, <4>4 DEF BeforeNavigation
      <4>6. book'.seen # book.seen
        BY <2>5, <3>2
      <4>7. e.time <= book'.last
        BY <1>1, <4>1, <4>5, <4>6 DEF StartLeaves
      <4>8. QED
        BY <4>4, <4>7
    <3>3. QED
      BY <3>1, <3>2
  <2>6. ASSUME OfWork(x), book'.ledger[x.r] \in {"finished", "failed", "detached"}
        PROVE  x.time <= book'.last
    <3>1. CASE book'.ledger[x.r] = book.ledger[x.r]
      BY <2>1, <2>4, <2>6, <3>1 DEF QuietInv, EnteredCounts
    <3>2. CASE book'.ledger[x.r] # book.ledger[x.r]
      <4>1. e.kind # "start"
        BY <1>1, <2>1, <2>6, <3>2 DEF StartLeaves
      <4>2. Ends(e, x.r) /\ book.ledger[x.r] = "pending"
        BY <1>1, <2>1, <3>2, <4>1 DEF OtherLeaves
      <4>3. e.time <= book'.last
        BY <1>1, <4>1, <4>2 DEF OtherLeaves, Ends
      <4>4. CASE x.kind # "detach"
        BY <1>1, <2>2, <2>3, <4>2, <4>3, <4>4 DEF Agree
      <4>5. CASE x.kind = "detach" /\ e.kind = "detach"
        BY <2>3, <4>3, <4>5 DEF Agree
      <4>6. CASE x.kind = "detach" /\ e.kind # "detach"
        <5>1. x.r = "sub" /\ truth["sub"] = "gone"
          BY <2>1, <2>6, <4>6, ToldIsReal DEF OfWork, Real
        <5>2. QED
          BY <1>1, <4>2, <4>6, <5>1 DEF Ends, SaysTrue
      <4>7. QED
        BY <4>4, <4>5, <4>6
    <3>3. QED
      BY <3>1, <3>2
  <2>7. QED
    BY <2>5, <2>6
<1>4. QED
  BY <1>1, <1>2, <1>3 DEF EnteredCounts, Told, OfWork

\* The latest event of the page, once it is read from the connection of the
\* policy, counted: now, or when the log told of it.
LEMMA AheadCounts ==
    ASSUME IdleInv, QuietInv, NEW s, NEW rest, NEW other, Enters(s, rest, other), s = cdp,
           NEW e, e = Head(s), Ahead(e), ~Underway
    PROVE  e.time <= book'.last
<1>1. /\ e \in Told(log) \cup Told(cdp) /\ SaysTrue(e) /\ e.r \in Requests /\ e.hop \in Hops
      /\ Real(e) /\ e.stamp \in Nat /\ e.time \in Nat
      /\ book.ledger \in [Requests -> States] /\ book.navigation \in Nat
      /\ book.last \in Int /\ book'.last \in Int /\ book.last <= book'.last
  BY EntersSays
<1>2. /\ NothingMissed(cdp) /\ Told(cdp) = {e} \cup Told(rest)
      /\ \A y \in Told(rest) : ~TooLate(e, y)
      /\ e.kind = "start" => StartLeaves(book, e, book')
      /\ e.kind # "start" => OtherLeaves(book, e, book')
      /\ book.navigation # Never
  BY EntersStream, EntersBook
<1>3. e.kind = "start" => Known(e.r, e.hop)'
  BY HeadKnown
<1>4. /\ OfWork(e) /\ e.r # "old" /\ e.r # "feed"
      /\ loader = "second" => e.r \in {"doc2", "img2"}
  BY DEF Ahead, OfThePage
<1>5. e \in Told(cdp)
  BY <1>2
<1>6. book.main = "second" => loader = "second"
  BY DEF Underway, QuietInv, BookTrue, IdleInv, BrowserTyped, IdleLoaders
<1>7. e.time <= book.last => e.time <= book'.last
  BY <1>1
<1>8. ~(book.initial = "second" /\ OfFirst(e.r))
  BY <1>4 DEF OfFirst, QuietInv, BookTrue
<1>9. CASE e.kind = "start"
  <2>1. e.stamp >= book.navigation
    BY <1>1, <1>2, <1>4, <1>8, <1>9 DEF QuietInv, PriorStarts
  <2>2. ~BeforeNavigation(book, e.stamp)
    BY <1>1, <2>1 DEF BeforeNavigation
  <2>3. CASE IsKnown(book, e)
    BY <1>5, <1>7, <1>9, <2>1, <2>3 DEF QuietInv, EnteredCounts, IsKnown
  <2>4. CASE ~IsKnown(book, e) /\ ~Belongs(book, e)
    <3>1. book' = book
      BY <1>2, <1>4, <1>9, <2>2, <2>4 DEF StartLeaves
    <3>2. e.r = "img" /\ book.main = "second"
      BY <1>3, <1>4, <1>9, <2>4, <3>1 DEF Known, IsKnown
    <3>3. QED
      BY <1>4, <1>6, <3>2
  <2>5. CASE ~IsKnown(book, e) /\ Belongs(book, e)
    BY <1>2, <1>4, <1>9, <2>2, <2>5 DEF StartLeaves
  <2>6. QED
    BY <2>3, <2>4, <2>5
<1>10. CASE e.kind # "start"
  <2>1. CASE book.ledger[e.r] = "pending"
    BY <1>2, <1>4, <1>10, <2>1 DEF OtherLeaves, OfWork
  <2>2. CASE book.ledger[e.r] \in {"finished", "failed", "detached"}
    BY <1>4, <1>5, <1>7, <2>2 DEF QuietInv, EnteredCounts
  <2>3. CASE book.ledger[e.r] \in {"prior", "ignored"}
    BY <1>1, <1>4, <1>8, <2>3 DEF QuietInv, BookTrue
  <2>4. CASE book.ledger[e.r] = "unseen"
    <3>1. truth[e.r] # "no"
      BY <1>1, <1>4, <1>10 DEF OfWork, SaysTrue, Real, IdleInv, BrowserTrue
    <3>2. Happened(e.r, 0) /\ 0 \in Hops
      BY <3>1 DEF Happened, Hops
    <3>3. <<e.r, 0>> \notin book.seen
      BY <1>1, <2>4, <3>2 DEF QuietInv, BookTrue
    <3>4. ~Known(e.r, 0)
      BY <1>4, <1>6, <3>3 DEF Known
    <3>5. PICK x \in Told(cdp) : IsStart(x, e.r, 0)
      BY <1>1, <1>2, <3>2, <3>4 DEF NothingMissed
    <3>6. x \in Told(rest) /\ x.stamp \in Nat
      BY <1>2, <1>10, <3>5, ToldIsReal DEF IsStart
    <3>7. ~TooLate(e, x)
      BY <1>2, <3>6
    <3>8. e.kind \in {"ok", "bad"}
      BY <1>4, <1>10, <3>5, <3>7 DEF TooLate, Ends, IsStart, OfWork
    <3>9. x.stamp < e.stamp
      <4>1. Agree(x, e)
        BY <1>5, <3>5 DEF QuietInv, EventsTrue
      <4>2. QED
        BY <3>5, <3>8, <4>1 DEF Agree, IsStart
    <3>10. QED
      BY <1>1, <3>6, <3>7, <3>9 DEF TooLate
  <2>5. QED
    BY <1>1, <2>1, <2>2, <2>3, <2>4 DEF States
<1>11. QED
  BY <1>9, <1>10

LEMMA EntersActivity ==
    ASSUME IdleInv, QuietInv, NEW s, NEW rest, NEW other, Enters(s, rest, other)
    PROVE  ActivityTold'
<1>1. /\ book.last \in Int /\ book'.last \in Int /\ book.last <= book'.last
      /\ Head(s).time \in Nat /\ Told(s) = {Head(s)} \cup Told(rest)
  BY EntersSays, EntersStream
<1>2. UNCHANGED <<truth, loader, active>> /\ active \in Nat
  BY DEF Enters, IdleInv, BrowserTyped
<1>3. Underway' <=> Underway
  BY <1>2 DEF Underway
<1>4. CASE active <= book.last
  BY <1>1, <1>2, <1>4 DEF ActivityTold
<1>5. CASE Underway
  BY <1>3, <1>5 DEF ActivityTold
<1>6. ASSUME ~Underway, NEW x \in Told(cdp), Ahead(x)
      PROVE  active <= book'.last \/ \E y \in Told(cdp') : Ahead(y)
  <2>1. CASE x \in Told(cdp')
    BY <1>6, <2>1
  <2>2. CASE x \notin Told(cdp')
    <3>1. s = cdp /\ x = Head(s)
      BY <1>1, <1>6, <2>2 DEF Enters
    <3>2. x.time <= book'.last
      BY <1>6, <3>1, AheadCounts
    <3>3. active <= x.time
      BY <1>6 DEF Ahead
    <3>4. QED
      BY <1>1, <1>2, <3>1, <3>2, <3>3
  <2>3. QED
    BY <2>1, <2>2
<1>7. \A x : Ahead(x)' <=> Ahead(x)
  BY <1>2 DEF Ahead, OfWork
<1>8. CASE active <= book'.last \/ \E y \in Told(cdp') : Ahead(y)
  BY <1>2, <1>7, <1>8 DEF ActivityTold, Told, Ahead, OfWork
<1>9. QED
  BY <1>4, <1>5, <1>6, <1>8 DEF QuietInv, ActivityTold

LEMMA EntersQuiet ==
    ASSUME IdleInv, QuietInv, NEW s, NEW rest, NEW other, Enters(s, rest, other)
    PROVE  QuietInv'
<1>1. /\ Told(log') \subseteq Told(log) /\ Told(cdp') \subseteq Told(cdp)
      /\ book'.initial = book.initial /\ book'.navigation = book.navigation
  BY EntersSays, EntersBook
<1>2. UNCHANGED <<now, truth, answer, loader, iframe>>
  BY DEF Enters
<1>3. PageTrue'
  BY <1>2 DEF QuietInv, PageTrue
<1>4. EventsTrue'
  <2>1. /\ \A x \in Told(log') \cup Told(cdp') : SaysTrue(x) /\ x.time <= now
        /\ \A x, y \in Told(log') \cup Told(cdp') : Agree(x, y)
    BY <1>1 DEF QuietInv, EventsTrue
  <2>2. QED
    BY <1>2, <2>1 DEF EventsTrue, Told, SaysTrue, Agree, IsStart, Ends
<1>5. PriorStarts'
  <2>1. book.navigation # Never =>
           \A x \in Told(log') \cup Told(cdp') : x.kind = "start" /\ x.stamp < book.navigation =>
               x.r = "old" \/ (book.initial = "second" /\ OfFirst(x.r))
    BY <1>1 DEF QuietInv, PriorStarts
  <2>2. QED
    BY <1>1, <2>1 DEF PriorStarts, Told
<1>6. QED
  BY <1>3, <1>4, <1>5, EntersBookTrue, EntersDocuments, EntersCounts, EntersActivity DEF QuietInv

LEMMA EnterEventQuiet ==
    ASSUME IdleInv, QuietInv, EnterLog \/ EnterCdp
    PROVE  QuietInv'
<1>1. CASE EnterLog
  <2>1. log # <<>>
    BY <1>1 DEF IdleInv, StreamTrue, SessionTyped, EnterLog
  <2>2. Enters(log, Tail(log), cdp)
    BY <1>1, <2>1 DEF Enters, EnterLog
  <2>3. QED
    BY <2>2, EntersQuiet
<1>2. CASE EnterCdp
  <2>1. Enters(cdp, Tail(cdp), log)
    BY <1>2 DEF Enters, EnterCdp
  <2>2. QED
    BY <2>1, EntersQuiet
<1>3. QED
  BY <1>1, <1>2

LEMMA QuietBegins ==
    ASSUME IdleInit
    PROVE  QuietInv
<1> DEFINE old == [kind |-> "start", r |-> "old", hop |-> 0, stamp |-> 1, time |-> 0]
<1>1. /\ now = 0
      /\ truth = [r \in Requests |-> IF r = "old" /\ r \in page THEN "run" ELSE "no"]
      /\ answer = [d \in Documents |-> "none"]
      /\ loader = "none" /\ iframe = "no"
      /\ log = <<>> \/ log = <<old>>
      /\ cdp = log /\ book = EmptyBook
  BY DEF IdleInit
<1>2. \A x \in Told(log) \cup Told(cdp) : x = old
  BY <1>1 DEF Told
<1>3. PageTrue
  BY <1>1, IdleConstants DEF PageTrue
<1>4. EventsTrue
  BY <1>1, <1>2 DEF EventsTrue, SaysTrue, Agree, IsStart, Ends
<1>5. BookTrue /\ DocumentsInOrder /\ PriorStarts
  BY <1>1 DEF EmptyBook, BookTrue, DocumentsInOrder, PriorStarts
<1>6. EnteredCounts
  <2>1. book.seen = {} /\ book.ledger = [r \in Requests |-> "unseen"]
    BY <1>1 DEF EmptyBook
  <2>2. ASSUME NEW x \in Told(cdp)
        PROVE  x.r \in Requests
    BY ToldIsReal, IdleBegins
  <2>3. QED
    BY <2>1, <2>2 DEF EnteredCounts
<1>7. ActivityTold
  BY <1>1 DEF ActivityTold, Underway
<1>8. QED
  BY <1>3, <1>4, <1>5, <1>6, <1>7 DEF QuietInv

LEMMA QuietSteps ==
    ASSUME IdleInv, QuietInv, [IdleNext]_idleVars
    PROVE  QuietInv'
<1>1. CASE Browser
  BY <1>1, StartQuiet, OverQuiet, RedirectQuiet, CommitQuiet, AttachQuiet, DetachQuiet
     DEF Browser, BrowserActs
<1>2. CASE Tick \/ UNCHANGED idleVars
  BY <1>2, WaitQuiet
<1>3. CASE Session
  BY <1>3, BeginQuiet, WaitQuiet, GatherQuiet, EnterEventQuiet, DecideQuiet DEF Session
<1>4. QED
  BY <1>1, <1>2, <1>3 DEF IdleNext

\* The invariant under the two action properties: the events are true and the
\* book agrees with them, and the latest event of the page is in it or to come.
THEOREM QuietInvariant == IdleSpec => [](IdleInv /\ QuietInv)
<1>1. IdleInit => IdleInv /\ QuietInv
  BY IdleBegins, QuietBegins
<1>2. IdleInv /\ QuietInv /\ [IdleNext]_idleVars => IdleInv' /\ QuietInv'
  BY IdleSteps, QuietSteps
<1>3. QED
  BY <1>1, <1>2, PTL DEF IdleSpec

\* The wait ends where the session decides, with all it was told entered.
LEMMA LoadsDecides ==
    ASSUME [IdleNext]_idleVars, Loads
    PROVE  Decide /\ Complete(book') /\ reason' = Reason(book')
<1>1. /\ pc # "loaded" /\ pc' = "loaded"
  BY DEF Loads
<1>2. pc' # pc
  BY <1>1
<1>3. ~(UNCHANGED idleVars) /\ ~Browser /\ ~Tick
  BY <1>2 DEF idleVars, sessionVars, Browser, BrowserActs, RequestStarts, RequestEnds,
              RequestFails, Redirect, Commit, Attach, Detach, Tick
<1>4. ~Begin /\ ~ReadLog /\ ~GatherEvents /\ ~EnterLog /\ ~EnterCdp /\ ~Recheck
  BY <1>1 DEF Begin, ReadLog, GatherEvents, EnterLog, EnterCdp, Recheck
<1>5. Decide
  BY <1>3, <1>4 DEF IdleNext, Session
<1>6. QED
  BY <1>1, <1>5 DEF Decide, Stop

\* With both streams entered, what happened is in the book.
LEMMA AllEntered ==
    ASSUME IdleInv, Decide
    PROVE  /\ \A r \in Requests : truth[r] # "no" => Known(r, 0)
           /\ Told(cdp) = {} /\ loader # "none"
<1>1. Told(cdp) = {}
  BY DEF Decide, Told
<1>2. ASSUME NEW r \in Requests, truth[r] # "no"
      PROVE  Known(r, 0)
  <2>1. Happened(r, 0) /\ 0 \in Hops
    BY <1>2 DEF Happened, Hops
  <2>2. QED
    BY <1>1, <2>1 DEF IdleInv, NothingMissed
<1>3. loader # "none"
  BY DEF Decide, IdleInv, BookBegun
<1>4. QED
  BY <1>1, <1>2, <1>3

\* The target is the document the browser was last sent to.
LEMMA TargetIsLast ==
    ASSUME IdleInv, QuietInv, Decide, Complete(book')
    PROVE  \E d \in Documents :
              /\ truth[d] = "done" /\ answer[d] = "ok"
              /\ "doc2" \in Documents /\ truth["doc2"] # "no" => d = "doc2"
<1>1. /\ book'.ledger = book.ledger /\ book'.status = book.status
      /\ \/ book'.target = <<>>
         \/ \E i \in InForce(book) : /\ \A j \in InForce(book) : j <= i
                                     /\ book'.target = <<book.documents[i]>>
  BY DecideBook
<1>2. PICK i \in InForce(book) : /\ \A j \in InForce(book) : j <= i
                                 /\ book'.target = <<book.documents[i]>>
  BY <1>1 DEF Complete
<1> DEFINE d == book.documents[i].r
<1>3. /\ book.documents \in Seq(MainDocuments) /\ Len(book.documents) \in Nat
      /\ i \in 1 .. Len(book.documents)
  <2>1. book.documents \in Seq(MainDocuments)
    BY TimesAreNumbers DEF Books
  <2>2. QED
    BY <2>1 DEF InForce
<1>4. d \in Documents
  <2>1. book.documents[i] \in MainDocuments
    BY <1>3
  <2>2. QED
    BY <2>1 DEF MainDocuments
<1>5. book'.target[1] = book.documents[i]
  BY <1>2
<1>6. book.ledger[d] = "finished" /\ book.status[d] = "ok"
  BY <1>1, <1>5 DEF Complete
<1>7. truth[d] = "done" /\ answer[d] = "ok"
  BY <1>4, <1>6, IdleConstants DEF QuietInv, BookTrue
<1>8. ASSUME "doc2" \in Documents, truth["doc2"] # "no"
      PROVE  d = "doc2"
  <2>1. <<"doc2", 0>> \in book.seen /\ 0 \in Hops
    BY <1>8, AllEntered, IdleConstants DEF Known, Hops
  <2>2. PICK j \in 1 .. Len(book.documents) :
           book.documents[j].r = "doc2" /\ book.documents[j].stamp >= book.navigation
    BY <2>1 DEF QuietInv, DocumentsInOrder
  <2>3. j \in InForce(book)
    <3>1. book.navigation \in Nat \cup {Never} /\ book.documents[j].stamp \in Nat
      <4>1. book.documents[j] \in MainDocuments
        BY <1>3, <2>2
      <4>2. book.documents[j].stamp \in Nat
        BY <4>1 DEF MainDocuments
      <4>3. QED
        BY <4>2, TimesAreNumbers DEF Books
    <3>2. ~BeforeNavigation(book, book.documents[j].stamp)
      BY <2>2, <3>1 DEF BeforeNavigation
    <3>3. QED
      BY <3>2 DEF InForce
  <2>4. j <= i
    BY <1>2, <2>3
  <2>5. CASE j = i
    BY <2>2, <2>5
  <2>6. CASE j < i
    BY <1>3, <2>2, <2>6 DEF QuietInv, DocumentsInOrder
  <2>7. QED
    BY <1>3, <2>4, <2>5, <2>6
<1>9. QED
  BY <1>4, <1>7, <1>8

\* The wait for a page ends with the last document there: started, answered
\* with success and complete, however late its events came.
THEOREM LoadedIsCompleteAlways == IdleSpec => LoadedIsComplete
<1>1. ASSUME IdleInv, QuietInv, [IdleNext]_idleVars, Loads
      PROVE  \E d \in Documents :
                /\ truth[d] = "done" /\ answer[d] = "ok"
                /\ \A e \in Documents \ {d} : e = "doc" \/ truth[e] = "no"
  <2>1. Decide /\ Complete(book')
    BY <1>1, LoadsDecides
  <2>2. PICK d \in Documents :
           /\ truth[d] = "done" /\ answer[d] = "ok"
           /\ "doc2" \in Documents /\ truth["doc2"] # "no" => d = "doc2"
    BY <1>1, <2>1, TargetIsLast
  <2>3. \A e \in Documents \ {d} : e = "doc" \/ truth[e] = "no"
    BY <2>2, IdleConstants
  <2>4. QED
    BY <2>2, <2>3
<1>2. IdleInv /\ QuietInv /\ [IdleNext]_idleVars =>
         (Loads => \E d \in Documents :
            /\ truth[d] = "done" /\ answer[d] = "ok"
            /\ \A e \in Documents \ {d} : e = "doc" \/ truth[e] = "no")
  BY <1>1
<1>3. QED
  BY <1>2, QuietInvariant, PTL DEF IdleSpec, LoadedIsComplete

\* A page that is idle has no request in flight, and had none do anything for
\* IdleSeconds.
LEMMA IdleStep ==
    ASSUME IdleInv, QuietInv, [IdleNext]_idleVars, Loads, reason' = "network_idle"
    PROVE  /\ \A r \in Requests : OfThePage(r) => truth[r] # "run"
           /\ now - active >= IdleSeconds
<1>1. Decide /\ Complete(book') /\ Reason(book') = "network_idle"
  BY LoadsDecides
<1>2. Pending(book') = {} /\ now - book'.last >= IdleSeconds
  BY <1>1 DEF Reason
<1>3. /\ book'.ledger = book.ledger
      /\ book'.last = IF book.last = Never THEN now ELSE book.last
  BY <1>1, DecideBook
<1>4. PICK d \in Documents :
         /\ truth[d] = "done" /\ answer[d] = "ok"
         /\ "doc2" \in Documents /\ truth["doc2"] # "no" => d = "doc2"
  BY <1>1, TargetIsLast
<1>5. "doc2" \in Documents /\ truth["doc2"] # "no" => loader = "second"
  BY <1>4 DEF QuietInv, PageTrue
<1>6. ASSUME NEW r \in Requests, OfThePage(r), truth[r] = "run"
      PROVE  FALSE
  <2>1. r # "old" /\ r # "feed" /\ (loader = "second" => r \in {"doc2", "img2"})
    BY <1>6 DEF OfThePage, QuietInv, PageTrue
  <2>2. Known(r, 0) /\ 0 \in Hops
    BY <1>1, <1>6, AllEntered DEF Hops
  <2>3. <<r, 0>> \in book.seen
    <3>1. ASSUME r = "img", book.main = "second"
          PROVE  FALSE
      BY <1>5, <2>1, <3>1 DEF QuietInv, BookTrue
    <3>2. QED
      BY <2>1, <2>2, <3>1 DEF Known
  <2>4. book.ledger[r] \in States \ {"unseen", "pending"}
    <3>1. book.ledger[r] \in States
      BY TimesAreNumbers DEF Books
    <3>2. book.ledger[r] # "unseen"
      BY <2>2, <2>3 DEF QuietInv, BookTrue
    <3>3. book.ledger[r] # "pending"
      BY <1>2, <1>3 DEF Pending
    <3>4. QED
      BY <3>1, <3>2, <3>3
  <2>5. book.ledger[r] \notin {"finished", "failed", "detached", "ignored"}
    BY <1>6, <2>1 DEF QuietInv, BookTrue, PageTrue
  <2>6. book.ledger[r] # "prior"
    BY <2>1 DEF QuietInv, BookTrue, OfFirst
  <2>7. QED
    BY <2>4, <2>5, <2>6 DEF States
<1>7. active <= book.last
  <2>1. ~Underway
    BY <1>1, <1>5, AllEntered DEF Underway
  <2>2. QED
    BY <1>1, <2>1, AllEntered DEF QuietInv, ActivityTold
<1>8. now \in Nat /\ active \in Nat /\ book.last \in Int /\ Never < 0 /\ IdleSeconds \in Nat
  BY TimesAreNumbers, NetworkIdleAssumption DEF IdleInv, BrowserTyped
<1>9. book'.last = book.last
  BY <1>3, <1>7, <1>8
<1>10. QED
  BY <1>2, <1>6, <1>7, <1>8, <1>9

\* When the wait ends for network idle, no request of the page is in flight,
\* and none did anything for IdleSeconds: for every page, every interleaving of
\* the two streams and every choice of the times.
THEOREM IdleIsQuietAlways == IdleSpec => IdleIsQuiet
<1>1. IdleInv /\ QuietInv /\ [IdleNext]_idleVars =>
         (Loads /\ reason' = "network_idle" =>
            /\ \A r \in Requests : OfThePage(r) => truth[r] # "run"
            /\ now - active >= IdleSeconds)
  BY IdleStep
<1>2. QED
  BY <1>1, QuietInvariant, PTL DEF IdleSpec, IdleIsQuiet

=============================================================================
