---------------------------- MODULE ProgressFeed ----------------------------
(***************************************************************************)
(* How the Master learns what a Worker has captured while the capture goes *)
(* on: the fetcher commits a marker for each unit and records its position *)
(* (wiki_fetcher.py), the Worker answers with pages of committed units     *)
(* (task_runner.py capture_progress), the Master follows with a cursor     *)
(* that lives in the thread of the target (dispatcher.py                   *)
(* _sync_worker_capture_progress).  A retry or a resume starts a new run   *)
(* of the fetcher, which begins at the first item again.                   *)
(*                                                                         *)
(* Abstracted: a marker and the artifacts it names are one thing, valid or *)
(* not; the run IDs are numbers in the order of the runs, which no code    *)
(* compares but for equality.  An end with a manifest, whose units replace *)
(* the rows, is left out, and what the task's status goes through on its   *)
(* way is in WorkerTask and JobDispatch.                                   *)
(***************************************************************************)
EXTENDS Naturals, FiniteSets, FiniteSetsExt

CONSTANTS
    Total,          \* items of the task
    Browsers,
    PageSize,       \* limit of a page
    MaxFetches,     \* bound: runs of the fetcher
    MaxFeedFaults   \* bound: kills, lost answers, damaged artifacts, restarts of the Master

ASSUME FeedAssumption == Total \in Nat /\ PageSize \in Nat \ {0}

VARIABLES
    run,        \* progress_run_id of the last run, 0 before the first
    fetcher,    \* [pc, at, todo]: its item and the browsers left of it
    markers,    \* unit -> the run that committed it, 0 when it has no valid checkpoint
    progress,   \* capture_progress.json: [run, position], run 0 before the first write
    task,       \* the Worker's task: "active", or "ended" without a manifest
    cursor,     \* the Master: progress_run_id and progress_position
    sync,       \* the call under way: [pc, final, run, position, page]
    evidence,   \* the units whose rows carry a result
    ending,     \* the target: "no", or how its last sync went, "heard" or "missed"
    feedFaults

workerVars == <<run, fetcher, markers, progress, task>>
masterVars == <<cursor, sync, evidence, ending>>
feedVars == <<workerVars, masterVars, feedFaults>>

Units == (1 .. Total) \X Browsers
ItemOf(u) == u[1]
NoProgress == [run |-> 0, position |-> 0]
Down == [pc |-> "down", at |-> 0, todo |-> {}]
NoPage == [run |-> 0, to |-> 0, observed |-> 0, left |-> {}, found |-> {}]
Resting == [pc |-> "idle", final |-> FALSE, run |-> 0, position |-> 0, page |-> NoPage]

FeedInit ==
    /\ run = 0 /\ fetcher = Down /\ markers = [u \in Units |-> 0] /\ progress = NoProgress
    /\ task = "active" /\ cursor = NoProgress /\ sync = Resting /\ evidence = {} /\ ending = "no"
    /\ feedFaults = 0

FeedFault == feedFaults < MaxFeedFaults /\ feedFaults' = feedFaults + 1

-----------------------------------------------------------------------------
(* The fetcher. *)

StartRun ==
    /\ task = "active" /\ fetcher = Down /\ run < MaxFetches
    /\ run' = run + 1 /\ fetcher' = [pc |-> "entry", at |-> 1, todo |-> {}]
    /\ UNCHANGED <<markers, progress, task, masterVars, feedFaults>>

\* Mutant: the position is recorded when the item begins.
EntryRecords ==
    /\ fetcher.pc = "entry"
    /\ fetcher' = [fetcher EXCEPT !.pc = "units",
                                  !.todo = {b \in Browsers : markers[<<fetcher.at, b>>] = 0}]
    /\ progress' = [run |-> run, position |-> fetcher.at]
    /\ UNCHANGED <<run, markers, task, masterVars, feedFaults>>

\* _run_entry: the browsers whose checkpoint is valid are left out.
Entry ==
    /\ fetcher.pc = "entry"
    /\ fetcher' = [fetcher EXCEPT !.pc = "units",
                                  !.todo = {b \in Browsers : markers[<<fetcher.at, b>>] = 0}]
    /\ UNCHANGED <<run, markers, progress, task, masterVars, feedFaults>>

\* A unit is fetched, and committed unless the attempt has failed.
Fetch(b) ==
    /\ fetcher.pc = "units" /\ b \in fetcher.todo
    /\ \E mark \in {0, run} : markers' = [markers EXCEPT ![<<fetcher.at, b>>] = mark]
    /\ fetcher' = [fetcher EXCEPT !.todo = @ \ {b}]
    /\ UNCHANGED <<run, progress, task, masterVars, feedFaults>>

\* _write_progress, once all browsers of the item have had their turn.
WriteProgress ==
    /\ fetcher.pc = "units" /\ fetcher.todo = {}
    /\ progress' = [run |-> run, position |-> fetcher.at]
    /\ fetcher' = IF fetcher.at < Total THEN [pc |-> "entry", at |-> fetcher.at + 1, todo |-> {}]
                  ELSE Down
    /\ UNCHANGED <<run, markers, task, masterVars, feedFaults>>

\* The run is killed, or ends by an exception.
RunBreaks ==
    /\ fetcher # Down /\ FeedFault /\ fetcher' = Down
    /\ UNCHANGED <<run, markers, progress, task, masterVars>>

\* The task ends FAILED, CANCELED or INTERRUPTED when no run is left.
TaskEnds ==
    /\ task = "active" /\ fetcher = Down /\ task' = "ended"
    /\ UNCHANGED <<run, fetcher, markers, progress, masterVars, feedFaults>>

\* An artifact of a committed unit is lost or changed.
LoseArtifact(u) ==
    /\ markers[u] # 0 /\ FeedFault /\ markers' = [markers EXCEPT ![u] = 0]
    /\ UNCHANGED <<run, fetcher, progress, task, masterVars>>

-----------------------------------------------------------------------------
(* One call of _sync_worker_capture_progress, with the Worker's answers. *)

\* A poll of an active task, or the last look at one that has ended.
BeginSync ==
    /\ sync.pc = "idle" /\ ending = "no"
    /\ sync' = [Resting EXCEPT !.pc = "ask", !.final = (task = "ended"),
                               !.run = cursor.run, !.position = cursor.position]
    /\ UNCHANGED <<workerVars, cursor, evidence, ending, feedFaults>>

\* capture_progress: the items after the cursor, from the first one when the
\* cursor is of another run, and no further than the recorded position.
Page(position, ofRun) ==
    LET start == IF ofRun = progress.run THEN Min({position, progress.position}) ELSE 0
        end == Min({progress.position, start + PageSize})
    IN  [run |-> progress.run, to |-> end, observed |-> progress.position,
         left |-> {u \in Units : start < ItemOf(u) /\ ItemOf(u) <= end}, found |-> {}]

\* The progress file is read first; a file that cannot be read gives an empty page.
Ask ==
    /\ sync.pc = "ask"
    /\ \/ sync' = [sync EXCEPT !.pc = "scan", !.page = Page(sync.position, sync.run)]
          /\ UNCHANGED feedFaults
       \/ sync' = [sync EXCEPT !.pc = "scan", !.page = NoPage] /\ FeedFault
    /\ UNCHANGED <<workerVars, cursor, evidence, ending>>

\* Then the markers of the page, one after another, while the fetcher goes on.
ReadMarker(u) ==
    /\ sync.pc = "scan" /\ u \in sync.page.left
    /\ sync' = [sync EXCEPT !.page.left = @ \ {u},
                            !.page.found = IF markers[u] # 0 THEN @ \cup {u} ELSE @]
    /\ UNCHANGED <<workerVars, cursor, evidence, ending, feedFaults>>

\* The call ends: a final one is followed by the result of the task.
Ends(how) ==
    /\ sync' = Resting
    /\ ending' = IF sync.final THEN how ELSE "no"

\* A page arrives: its units are written, and the next one is asked for when
\* there is more and this one got further.
Receive ==
    /\ sync.pc = "scan" /\ sync.page.left = {}
    /\ LET page == sync.page
           ofRun == IF page.run # 0 THEN page.run ELSE sync.run
           previous == IF ofRun # sync.run THEN 0 ELSE sync.position
       IN  /\ evidence' = evidence \cup page.found
           /\ IF page.to < page.observed /\ page.to > previous
              THEN /\ sync' = [sync EXCEPT !.pc = "ask", !.run = ofRun, !.position = page.to,
                                           !.page = NoPage]
                   /\ UNCHANGED <<cursor, ending>>
              ELSE /\ cursor' = [run |-> ofRun, position |-> page.to]
                   /\ Ends(IF page.run = 0 THEN "missed" ELSE "heard")
    /\ UNCHANGED <<workerVars, feedFaults>>

\* WorkerRequestError: the cursor stays where the call began.
Lost ==
    /\ sync.pc \in {"ask", "scan"} /\ FeedFault
    /\ Ends("missed")
    /\ UNCHANGED <<workerVars, cursor, evidence>>

\* The Master is started again: the thread begins with a cursor of its own.
MasterRestarts ==
    /\ ending = "no" /\ FeedFault
    /\ cursor' = NoProgress /\ sync' = Resting
    /\ UNCHANGED <<workerVars, evidence, ending>>

\* The operator resumes the job: the rows are emptied, the Worker takes the task up.
Resume ==
    /\ ending # "no" /\ run < MaxFetches
    /\ evidence' = {} /\ cursor' = NoProgress /\ ending' = "no" /\ task' = "active"
    /\ UNCHANGED <<run, fetcher, markers, progress, sync, feedFaults>>

FeedNext ==
    \/ StartRun \/ Entry \/ WriteProgress \/ RunBreaks \/ TaskEnds
    \/ \E b \in Browsers : Fetch(b)
    \/ \E u \in Units : LoseArtifact(u) \/ ReadMarker(u)
    \/ BeginSync \/ Ask \/ Receive \/ Lost
    \/ MasterRestarts \/ Resume

FeedSpec == FeedInit /\ [][FeedNext]_feedVars

-----------------------------------------------------------------------------
(* Properties. *)

Recorded(u, at) == markers[u] # 0 /\ markers[u] <= at.run /\ ItemOf(u) <= at.position

\* _sync_worker_capture_progress: what lies behind the cursor is in the rows,
\* whichever run committed it, although the fetcher began anew, pages were lost
\* or a unit had failed when its page was read before.
SyncedIsReported == \A u \in Units : Recorded(u, cursor) => u \in evidence

\* _run_target, "include the last committed URL": when the last look at an
\* ended task was answered, the rows end with every unit the run had recorded.
EndIncludesRecorded ==
    ending = "heard" => \A u \in Units : Recorded(u, progress) => u \in evidence

\* What the rows of the Master have of the units that the Worker recorded.
CheckpointsAreReported == SyncedIsReported /\ EndIncludesRecorded
=============================================================================
