--------------------------- MODULE CaptureSession ---------------------------
(***************************************************************************)
(* The attempts of wiki_fetcher.py to capture one unit (a page and a       *)
(* browser), and what they leave behind.  An attempt (_run_entry,          *)
(* _fetch_with) removes the files of earlier ones, makes a browser profile *)
(* in the temporary directory, starts the capture tool and waits until it  *)
(* listens (PacketCapture, CaptureReadinessMonitor), starts the browser    *)
(* and visits the page, stops the tool, ends the browser (browser_service, *)
(* which uses ProcessOwner), copies the TLS keys, removes the profile and  *)
(* commits the unit.  Any step may raise, and the whole process may be     *)
(* killed.  Between attempts capture_temp_cleanup.py removes registered    *)
(* profiles.                                                               *)
(*                                                                         *)
(* Attempts are numbered.  A file, a profile and an entry of the registry  *)
(* are known by the attempt that made them (0: there is none), which for   *)
(* a directory is its inode: a path may be used again.                     *)
(***************************************************************************)
EXTENDS Naturals, FiniteSets

CONSTANTS
    Paths,        \* bound: names mkdtemp may choose
    MaxAttempts,  \* bound: attempts
    MaxAttemptFaults,    \* bound: operations on files, processes and pages that raise
    MaxKills      \* bound: kills of the fetcher

ASSUME SessionAssumption ==
    /\ IsFiniteSet(Paths) /\ Paths # {}
    /\ MaxAttempts \in Nat
    /\ MaxAttemptFaults \in Nat
    /\ MaxKills \in Nat

Attempts == 1..MaxAttempts
NoPath == "none"
-----------------------------------------------------------------------------
VARIABLES
    \* files of the unit
    pcap,        \* [of, whole]; the tool creates it
    keys, checkpoint,
    \* the temporary directory and data_dir/temp_cleanup
    profile,     \* [Paths -> attempt]
    registry,    \* [Paths -> attempt]: the identity an entry holds
    linked,      \* attempts whose profile holds a symbolic link
    \* processes
    tool,        \* [state, header, notice]
    browsers,    \* attempts with a live process of their browser family
    \* the attempt
    pc, n,       \* program counter; number of the last attempt
    path,        \* profile_dir
    error,       \* error_msg is set
    ready,       \* PacketCapture._ready
    driver,      \* the variable driver of _fetch_with is set
    keylog,      \* the browser has written its keys into the profile
    cleanup,     \* cleanup_summary: "ok", "retained"
    \* the cleaner
    cleaner,     \* [pc, active, left]
    attemptFaults, kills,
    \* history
    missed,      \* attempts whose traffic no tool listened to
    forgotten    \* attempts that could not register their profile

captureVars == <<pcap, keys, checkpoint>>
dirVars     == <<profile, registry, linked>>
processVars == <<tool, browsers>>
localVars   == <<path, error, ready, driver, keylog, cleanup>>
historyVars == <<missed, forgotten>>
boundVars   == <<attemptFaults, kills>>
sessionVars ==
    <<captureVars, dirVars, processVars, pc, n, localVars, cleaner, boundVars, historyVars>>

AttemptFault == attemptFaults < MaxAttemptFaults /\ attemptFaults' = attemptFaults + 1
NoTool == [state |-> "off", header |-> FALSE, notice |-> FALSE]
NoFile == [of |-> 0, whole |-> FALSE]
ToolRuns == tool.state \in {"starting", "listening"}

SessionInit ==
    /\ pcap = NoFile /\ keys = 0 /\ checkpoint = 0
    /\ profile = [p \in Paths |-> 0] /\ registry = [p \in Paths |-> 0]
    /\ linked = {}
    /\ tool = NoTool /\ browsers = {}
    /\ pc = "idle" /\ n = 0
    /\ path = NoPath /\ error = FALSE /\ ready = FALSE /\ driver = FALSE
    /\ keylog = FALSE /\ cleanup = "ok"
    /\ cleaner = [pc |-> "idle", active |-> FALSE, left |-> {}]
    /\ attemptFaults = 0 /\ kills = 0
    /\ missed = {} /\ forgotten = {}

\* The checkpoint names the unit and the sizes of its files.  Sizes of other
\* captures of the page may be the same.
CheckpointValid == checkpoint # 0 /\ pcap.of # 0 /\ keys # 0

Goto(here, there) == pc = here /\ pc' = there
-----------------------------------------------------------------------------
(* _run_entry: the unit is captured anew                                   *)

\* A unit without a valid checkpoint; there is room on the disk.  (Bound: some
\* name for a profile is free.)
Begin ==
    /\ Goto("idle", "clear keys")
    /\ cleaner.pc = "idle"
    /\ ~CheckpointValid
    /\ n < MaxAttempts
    /\ \E p \in Paths : profile[p] = 0
    /\ n' = n + 1
    /\ error' = FALSE /\ ready' = FALSE /\ driver' = FALSE /\ keylog' = FALSE
    /\ cleanup' = "ok" /\ path' = NoPath
    /\ UNCHANGED <<captureVars, dirVars, processVars, cleaner, boundVars, historyVars>>

\* _clear_incomplete_artifacts: the checkpoint goes last.  What cannot be removed
\* ends the run.
ClearFails ==
    /\ pc \in {"clear keys", "clear pcap", "clear checkpoint"}
    /\ pc' = "idle"
    /\ AttemptFault
    /\ UNCHANGED <<captureVars, dirVars, processVars, n, localVars, cleaner, kills, historyVars>>

clearRest == <<dirVars, processVars, n, localVars, cleaner, boundVars, historyVars>>

ClearKeys ==
    /\ Goto("clear keys", "clear pcap")
    /\ keys' = 0
    /\ UNCHANGED <<pcap, checkpoint, clearRest>>

ClearPcap ==
    /\ Goto("clear pcap", "clear checkpoint")
    /\ pcap' = NoFile
    /\ UNCHANGED <<keys, checkpoint, clearRest>>

ClearMarker ==
    /\ Goto("clear checkpoint", "make")
    /\ checkpoint' = 0
    /\ UNCHANGED <<pcap, keys, clearRest>>
-----------------------------------------------------------------------------
(* _fetch_with: profile, capture tool, browser                             *)

MakeProfile ==
    /\ Goto("make", "register")
    /\ \E p \in Paths :
         /\ profile[p] = 0
         /\ profile' = [profile EXCEPT ![p] = n]
         /\ path' = p
    /\ UNCHANGED <<captureVars, registry, linked, processVars, n, error, ready, driver, keylog, cleanup,
                   cleaner, boundVars, historyVars>>

\* register_retained_directory; a failure is only logged
Register(here, there) ==
    /\ Goto(here, there)
    /\ \/ /\ registry' = [registry EXCEPT ![path] = n]
          /\ forgotten' = forgotten \ {n}
          /\ UNCHANGED attemptFaults
       \/ /\ forgotten' = IF registry[path] = n THEN forgotten ELSE forgotten \cup {n}
          /\ AttemptFault
          /\ UNCHANGED registry
    /\ UNCHANGED <<captureVars, profile, linked, processVars, n, localVars, cleaner, kills, missed>>

\* Mutant: a profile is registered only after the cleanup of its attempt.
RegisterLater ==
    /\ Goto("register", "start tool")
    /\ UNCHANGED <<captureVars, dirVars, processVars, n, localVars, cleaner, boundVars,
                   historyVars>>

\* before anything is launched: a kill may never reach the finally clause
RegisterProfile == Register("register", "start tool")

attemptRest == <<dirVars, n, path, keylog, cleanup, cleaner, kills, forgotten>>

\* PacketCapture.start
StartTool ==
    /\ \/ /\ Goto("start tool", "await tool")
          /\ tool' = [NoTool EXCEPT !.state = "starting"]
          /\ UNCHANGED <<error, attemptFaults>>
       \/ /\ Goto("start tool", "stop tool")     \* no tool, no interface, Popen raises
          /\ error' = TRUE
          /\ AttemptFault
          /\ UNCHANGED tool
    /\ UNCHANGED <<captureVars, browsers, ready, driver, attemptRest, missed>>

toolRest == <<keys, checkpoint, dirVars, browsers, pc, n, localVars, cleaner, kills, forgotten>>

\* The tool creates its file, opens the interface and says so, in its own
\* time: the file may be there before the interface is open.
ToolWrites ==
    /\ ToolRuns /\ ~tool.header
    /\ tool' = [tool EXCEPT !.header = TRUE]
    /\ pcap' = [of |-> n, whole |-> FALSE]
    /\ UNCHANGED <<toolRest, attemptFaults, missed>>

ToolListens ==
    /\ tool.state = "starting"
    /\ tool' = [tool EXCEPT !.state = "listening"]
    /\ UNCHANGED <<pcap, toolRest, attemptFaults, missed>>

ToolNotifies ==
    /\ tool.state = "listening" /\ ~tool.notice
    /\ tool' = [tool EXCEPT !.notice = TRUE]
    /\ UNCHANGED <<pcap, toolRest, attemptFaults, missed>>

ToolDies ==
    /\ ToolRuns
    /\ tool' = [tool EXCEPT !.state = "dead"]
    /\ missed' = IF n \in browsers THEN missed \cup {n} ELSE missed
    /\ AttemptFault
    /\ UNCHANGED <<pcap, toolRest>>

\* Mutant: the file alone shows that the tool is ready.
IsReadyByFile == ToolRuns /\ tool.header

\* wait_ready: the tool has said that it listens, its file has a header, and
\* it is alive
IsReady == ToolRuns /\ tool.notice /\ tool.header

ToolReady ==
    /\ Goto("await tool", "launch")
    /\ IsReady
    /\ ready' = TRUE
    /\ UNCHANGED <<captureVars, processVars, error, driver, attemptRest, attemptFaults, missed>>

\* It died, or five seconds have passed; start stops it.
NotReady ==
    /\ Goto("await tool", "stop tool")
    /\ tool.state # "dead" => attemptFaults < MaxAttemptFaults
    /\ attemptFaults' = IF tool.state = "dead" THEN attemptFaults ELSE attemptFaults + 1
    /\ tool' = NoTool
    /\ error' = TRUE
    /\ UNCHANGED <<captureVars, browsers, ready, driver, attemptRest, missed>>

Unheard == IF tool.state = "listening" THEN missed ELSE missed \cup {n}

\* build hands the driver over
Launch ==
    /\ Goto("launch", "visit")
    /\ browsers' = browsers \cup {n}
    /\ driver' = TRUE
    /\ missed' = Unheard
    /\ UNCHANGED <<captureVars, tool, error, ready, attemptRest, attemptFaults>>

\* Chromium marks a profile in use with links (SingletonLock), which it leaves
\* when it is killed.
Links == linked' \in {linked, linked \cup {n}}

\* build raises: before there is a process, or after; then the constructor of
\* Selenium, or _initialize_chromium_network, has quit the driver, which may
\* leave processes.  Nobody reads what that quit reports.
LaunchFails ==
    /\ Goto("launch", "stop tool")
    /\ error' = TRUE
    /\ browsers' \in {browsers, browsers \cup {n}}
    /\ missed' = IF n \in browsers' THEN Unheard ELSE missed
    /\ Links
    /\ AttemptFault
    /\ UNCHANGED <<captureVars, tool, profile, registry, n, path, ready, driver, keylog, cleanup,
                   cleaner, kills, forgotten>>

\* _prepare_navigation, get, _wait_for_normal_page, the metadata, the second
\* wait and the check of the cache policy; the tool may die meanwhile.
Visit ==
    /\ \/ Goto("visit", "recheck") /\ UNCHANGED <<error, attemptFaults>>
       \/ Goto("recheck", "stop tool") /\ UNCHANGED <<error, attemptFaults>>
       \/ /\ pc \in {"visit", "recheck"} /\ pc' = "stop tool"
          /\ error' = TRUE
          /\ AttemptFault
    /\ keylog' \in {keylog, TRUE}
    /\ UNCHANGED <<captureVars, processVars, ready, driver, dirVars, n, path, cleanup, cleaner,
                   kills, historyVars>>
-----------------------------------------------------------------------------
(* _fetch_with: the finally clause                                         *)

\* PacketCapture.stop: an interrupt, then a kill; the file is kept for good
\* only if the tool was ready, lived until now, ended by itself with status 0
\* and left complete records.
StopTool ==
    /\ Goto("stop tool", "close policy")
    /\ tool' = NoTool
    /\ IF ToolRuns
       THEN \/ /\ pcap.of = n /\ ready
               /\ pcap' = [pcap EXCEPT !.whole = TRUE]
               /\ UNCHANGED <<error, attemptFaults>>
            \/ /\ error' = TRUE
               /\ UNCHANGED pcap
               /\ AttemptFault
       ELSE error' = TRUE /\ UNCHANGED <<pcap, attemptFaults>>
    /\ UNCHANGED <<keys, checkpoint, browsers, ready, driver, attemptRest, missed>>

\* the policy is checked again, recorded and closed
ClosePolicy ==
    /\ Goto("close policy", "quit")
    /\ \/ UNCHANGED <<error, attemptFaults>>
       \/ driver /\ error' = TRUE /\ AttemptFault
    /\ UNCHANGED <<captureVars, processVars, ready, driver, attemptRest, missed>>

quitRest == <<captureVars, profile, registry, tool, n, path, ready, driver, keylog, cleaner, kills,
              historyVars>>

\* driver.quit ends the session, the driver service and what is left of its
\* family.  A service that had to be forced gives a warning, one with processes
\* left an error.
Quit ==
    /\ Goto("quit", "copy keys")
    /\ IF driver
       THEN \/ /\ browsers' = browsers \ {n}
               /\ UNCHANGED <<cleanup, error, attemptFaults, linked>>
            \/ /\ browsers' = browsers \ {n}
               /\ cleanup' = "retained"
               /\ UNCHANGED error
               /\ AttemptFault /\ Links
            \/ /\ browsers' \in {browsers, browsers \ {n}}
               /\ cleanup' = "retained"
               /\ error' = TRUE
               /\ AttemptFault /\ Links
       ELSE UNCHANGED <<browsers, cleanup, error, attemptFaults, linked>>
    /\ UNCHANGED quitRest

CopyKeys ==
    /\ Goto("copy keys", "remove")
    /\ \/ keys' = (IF keylog THEN n ELSE keys) /\ UNCHANGED <<error, attemptFaults>>
       \/ keylog /\ UNCHANGED keys /\ error' = TRUE /\ AttemptFault
    /\ UNCHANGED <<pcap, checkpoint, processVars, ready, driver, attemptRest, missed>>

removeRest == <<captureVars, registry, linked, processVars, n, path, error, ready, driver, keylog, cleaner,
                kills, historyVars>>

\* Mutant: the profile is removed whatever quit reported.
RemoveAnyProfile ==
    /\ Goto("remove", "retain")
    /\ \/ /\ profile' = [profile EXCEPT ![path] = 0]
          /\ UNCHANGED <<cleanup, attemptFaults>>
       \/ /\ cleanup' = "retained"
          /\ AttemptFault
          /\ UNCHANGED profile
    /\ UNCHANGED removeRest

\* rmtree, unless the browser may have left something; a profile that cannot
\* be removed is retained.
RemoveProfile ==
    /\ Goto("remove", "retain")
    /\ \/ /\ cleanup = "ok"
          /\ profile' = [profile EXCEPT ![path] = 0]
          /\ UNCHANGED <<cleanup, attemptFaults>>
       \/ /\ cleanup = "ok"
          /\ cleanup' = "retained"
          /\ AttemptFault
          /\ UNCHANGED profile
       \/ /\ cleanup = "retained"
          /\ UNCHANGED <<profile, cleanup, attemptFaults>>
    /\ UNCHANGED removeRest

\* What is retained is registered once more.
RetainProfile == cleanup = "retained" /\ Register("retain", "commit")

NothingToRetain ==
    /\ Goto("retain", "commit")
    /\ cleanup = "ok"
    /\ UNCHANGED <<captureVars, dirVars, processVars, n, localVars, cleaner, boundVars,
                   historyVars>>

attemptEnds == /\ Goto("commit", "idle") /\ path' = NoPath
               /\ UNCHANGED <<pcap, keys, dirVars, processVars, n, error, ready, driver, keylog,
                              cleanup, cleaner, kills, historyVars>>

\* The record of the attempt, then _mark_complete: a checkpoint needs an
\* attempt without an error, a capture and its keys.
CommitAttempt ==
    /\ attemptEnds
    /\ checkpoint' = IF ~error /\ pcap.of # 0 /\ keys # 0 THEN n ELSE checkpoint
    /\ UNCHANGED attemptFaults
-----------------------------------------------------------------------------
(* Kills, the Worker and the browsers                                      *)

\* The fetcher is killed: cancel, deadline, stall, crash; or a status file that
\* cannot be written ends its run, before the checkpoint.  The Worker ends its
\* process family, of which browsers may be left.
FetcherKilled ==
    /\ pc # "idle" /\ kills < MaxKills
    /\ kills' = kills + 1
    /\ pc' = "idle"
    /\ tool' = NoTool
    /\ browsers' \in SUBSET browsers
    /\ forgotten' = IF pc = "register" THEN forgotten \cup {n} ELSE forgotten
    /\ path' = NoPath
    /\ IF n \in browsers THEN Links ELSE UNCHANGED linked
    /\ UNCHANGED <<captureVars, profile, registry, n, error, ready, driver, keylog, cleanup, cleaner,
                   attemptFaults, missed>>

\* What was left of a browser ends.
BrowserEnds ==
    /\ \E a \in browsers :
         /\ a # n \/ pc = "idle"
         /\ browsers' = browsers \ {a}
    /\ UNCHANGED <<captureVars, dirVars, tool, pc, n, localVars, cleaner, boundVars, historyVars>>

\* A file of the unit is lost.
Damage ==
    /\ pc = "idle" /\ CheckpointValid
    /\ AttemptFault
    /\ \/ keys' = 0 /\ UNCHANGED pcap
       \/ pcap' = NoFile /\ UNCHANGED keys
    /\ UNCHANGED <<checkpoint, dirVars, processVars, pc, n, localVars, cleaner, kills, historyVars>>
-----------------------------------------------------------------------------
(* cleanup_retained_directories, between attempts                          *)

cleanerRest == <<captureVars, processVars, pc, n, localVars, kills, historyVars>>

\* The processes are listed once, before the entries are read.
Survey ==
    /\ pc = "idle" /\ cleaner.pc = "idle"
    /\ \E p \in Paths : registry[p] # 0
    /\ cleaner' = [pc |-> "entries", active |-> browsers # {},
                   left |-> {p \in Paths : registry[p] # 0}]
    /\ UNCHANGED <<dirVars, attemptFaults, cleanerRest>>

\* idle, the directory that was registered, and no link in it.  (A name that
\* mkdtemp gave is a directory of ours in the temporary directory.)
MayRemove(p) ==
    /\ ~cleaner.active
    /\ profile[p] = registry[p]
    /\ profile[p] \notin linked

Pass(p) == cleaner' = [cleaner EXCEPT !.left = @ \ {p}]

\* An entry without directory goes.
CleanMissing(p) ==
    /\ profile[p] = 0
    /\ registry' = [registry EXCEPT ![p] = 0]
    /\ Pass(p)
    /\ UNCHANGED <<profile, linked, attemptFaults>>

\* rmtree; the entry is unlinked in the next step, if the cleaner gets there
CleanProfile(p) ==
    /\ profile[p] # 0 /\ MayRemove(p)
    /\ profile' = [profile EXCEPT ![p] = 0]
    /\ UNCHANGED <<registry, linked, attemptFaults, cleaner>>

CleanSkips(p) ==
    /\ profile[p] # 0
    /\ \/ ~MayRemove(p) /\ UNCHANGED attemptFaults
       \/ MayRemove(p) /\ AttemptFault                  \* rmtree raises
    /\ Pass(p)
    /\ UNCHANGED dirVars

Clean ==
    /\ cleaner.pc = "entries"
    /\ \E p \in cleaner.left : CleanMissing(p) \/ CleanProfile(p) \/ CleanSkips(p)
    /\ UNCHANGED cleanerRest

CleanEnds ==
    /\ cleaner.pc = "entries" /\ cleaner.left = {}
    /\ cleaner' = [pc |-> "idle", active |-> FALSE, left |-> {}]
    /\ UNCHANGED <<dirVars, attemptFaults, cleanerRest>>
-----------------------------------------------------------------------------
Fetch ==
    \/ ClearKeys \/ ClearPcap \/ ClearMarker \/ ClearFails
    \/ MakeProfile \/ RegisterProfile \/ StartTool
    \/ ToolReady \/ NotReady \/ Launch \/ LaunchFails \/ Visit
    \/ StopTool \/ ClosePolicy \/ Quit \/ CopyKeys
    \/ RemoveProfile \/ RetainProfile \/ NothingToRetain \/ CommitAttempt
Tool == ToolWrites \/ ToolListens \/ ToolNotifies \/ ToolDies
Cleaner == Survey \/ Clean \/ CleanEnds

SessionNext == Begin \/ Fetch \/ Tool \/ FetcherKilled \/ BrowserEnds \/ Damage \/ Cleaner

SessionSpec == SessionInit /\ [][SessionNext]_sessionVars

\* Every step of an attempt has a timeout, and the cleaner is called between
\* attempts and by the idle Worker; nothing makes a left browser end.
FairSessionSpec ==
    SessionSpec /\ WF_sessionVars(Fetch) /\ WF_sessionVars(Tool) /\ WF_sessionVars(Cleaner)
-----------------------------------------------------------------------------
Steps == {"idle", "clear keys", "clear pcap", "clear checkpoint", "make", "register", "start tool",
          "await tool", "launch", "visit", "recheck", "stop tool", "close policy", "quit",
          "copy keys", "remove", "retain", "commit"}

\* Every variable keeps its type.
SessionTypeOK ==
    /\ pcap \in [of : 0..MaxAttempts, whole : BOOLEAN]
    /\ keys \in 0..MaxAttempts /\ checkpoint \in 0..MaxAttempts
    /\ profile \in [Paths -> 0..MaxAttempts]
    /\ registry \in [Paths -> 0..MaxAttempts]
    /\ linked \subseteq Attempts
    /\ tool \in [state : {"off", "starting", "listening", "dead"}, header : BOOLEAN,
                 notice : BOOLEAN]
    /\ browsers \subseteq Attempts
    /\ pc \in Steps /\ n \in 0..MaxAttempts
    /\ path \in Paths \cup {NoPath}
    /\ error \in BOOLEAN /\ ready \in BOOLEAN /\ driver \in BOOLEAN /\ keylog \in BOOLEAN
    /\ cleanup \in {"ok", "retained"}
    /\ cleaner \in [pc : {"idle", "entries"}, active : BOOLEAN, left : SUBSET Paths]
    /\ attemptFaults \in 0..MaxAttemptFaults /\ kills \in 0..MaxKills
    /\ missed \subseteq Attempts /\ forgotten \subseteq Attempts

\* A unit that the next run would skip (_checkpoint_valid) holds the capture
\* and the keys of one and the same attempt; the capture is whole, and the tool
\* listened from before the browser of that attempt started to the end of its visit.
ValidIsWhole ==
    pc = "idle" /\ CheckpointValid =>
        /\ pcap.of = checkpoint /\ keys = checkpoint
        /\ pcap.whole
        /\ checkpoint \notin missed

\* The capture tool never outlives its attempt, whatever fails in it.
ToolEndsWithAttempt ==
    tool.state # "off" =>
        pc \in {"await tool", "launch", "visit", "recheck", "stop tool"}

\* What a unit that is skipped holds, and how far a tool runs.
CapturesAreWhole == SessionTypeOK /\ ValidIsWhole /\ ToolEndsWithAttempt

\* No profile is removed, by the attempt or by the cleaner, while a browser
\* that was handed over to the attempt may still use it.
KeepsUsedProfiles ==
    \A p \in Paths :
        profile[p] # 0 /\ profile'[p] = 0 /\ (pc = "idle" \/ driver) =>
            profile[p] \notin browsers

ProfileOutlivesDriver == [][KeepsUsedProfiles]_sessionVars

Left(p, a) == pc = "idle" /\ profile[p] = a /\ a \notin forgotten

\* A profile that an attempt leaves, killed or not, is removed in the end,
\* unless its registration failed, some browser goes on for ever, or a browser
\* that was killed has left a link in it: that profile the cleaner never removes
\* (cleanup_retained_directories, _contains_links).
LeftProfilesGo ==
    \A p \in Paths, a \in Attempts :
        Left(p, a) ~> (profile[p] # a \/ browsers # {} \/ a \in linked)
=============================================================================
