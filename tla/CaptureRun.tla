----------------------------- MODULE CaptureRun -----------------------------
(***************************************************************************)
(* Runs of wiki_fetcher.py over one input, as the Worker starts them: the  *)
(* main thread captures the units of the input in order (main, run,        *)
(* _run_captures, _run_entry), hands each committed unit to the            *)
(* ExtractionQueue of capture_extraction.py, and closes that queue at the  *)
(* end; the consumer thread of the queue runs one extraction process at a  *)
(* time, slowed down while captures go on.  A run may be killed between    *)
(* any two steps; the Worker then removes what is left of it and may start *)
(* another run, which continues from the checkpoints.                      *)
(*                                                                         *)
(* A unit is a page directory and a browser.  Its files are a checkpoint   *)
(* and a receipt; ExtractReceipt models how they are made.                 *)
(***************************************************************************)
EXTENDS Integers, Sequences, FiniteSets

CONSTANTS
    Units,
    Plan,        \* units in the order of the input; a unit may occur again
    MaxRuns,     \* bound: runs started by the Worker
    MaxFaults    \* bound: writes, starts and captures that raise

NoUnit == "none"
End == "end"      \* the None that close puts in the queue

\* None is no unit.
ASSUME CaptureRunAssumption ==
    /\ Plan \in Seq(Units)
    /\ Plan # <<>>
    /\ End \notin Units
    /\ MaxRuns \in Nat
    /\ MaxFaults \in Nat
-----------------------------------------------------------------------------
VARIABLES
    \* files
    marker,       \* units with a valid checkpoint
    receipt,      \* units with a receipt verified for that checkpoint
    record,       \* extraction_progress.json
    \* the process
    linux,        \* platform: process ownership and pausing exist
    main,         \* [pc, pos, incomplete, raised, exit] of the main thread
    queue, seen, failures, finished, stop, draining,
    consumer,     \* [pc, unit, error, left] of the consumer thread: the error
                  \* it died of, a process of an extraction it could not end
    child,        \* extraction process: [state, unit, late]
    runs, faults

fileVars  == <<marker, receipt>>
queueVars == <<queue, seen, failures, finished, stop, draining>>
vars == <<fileVars, record, linux, main, queueVars, consumer, child, runs, faults>>

MainAt(pc) == main.pc = pc
ConsumerAt(pc) == consumer.pc = pc

NoRecord == [draining |-> FALSE, queued |-> 0, finished |-> 0, failed |-> 0,
             done |-> FALSE]

\* what _progress writes of the queue
Progress(done) ==
    [draining |-> draining, queued |-> Len(queue), finished |-> finished,
     failed |-> Cardinality(failures), done |-> done]

NoChild == [state |-> "none", unit |-> NoUnit, late |-> FALSE]
ChildLives == child.state \in {"running", "paused"}

Fault == faults < MaxFaults /\ faults' = faults + 1
NoFault == UNCHANGED faults

Init ==
    /\ marker = {} /\ receipt = {} /\ record = NoRecord
    /\ linux \in BOOLEAN
    /\ main = [pc |-> "idle", pos |-> 0, incomplete |-> 0, raised |-> FALSE,
               exit |-> -1]
    /\ queue = <<>> /\ seen = {} /\ failures = {} /\ finished = 0
    /\ stop = FALSE /\ draining = FALSE
    /\ consumer = [pc |-> "none", unit |-> NoUnit, error |-> FALSE, left |-> FALSE]
    /\ child = NoChild
    /\ runs = 0 /\ faults = 0
-----------------------------------------------------------------------------
(* The Worker and the start of a run                                       *)

\* The Worker starts a run, or starts one again: a retry of a run that failed,
\* a resume of the task of any run.  It has cleared the drain flag of the earlier run and removed
\* the processes it left.
Start ==
    /\ MainAt("idle") \/ MainAt("exited")
    /\ runs < MaxRuns
    /\ runs' = runs + 1
    /\ record' = NoRecord
    /\ child' = NoChild
    /\ main' = [pc |-> "open", pos |-> 1, incomplete |-> 0, raised |-> FALSE,
                exit |-> -1]
    /\ queue' = <<>> /\ seen' = {} /\ failures' = {} /\ finished' = 0
    /\ stop' = FALSE /\ draining' = FALSE
    /\ consumer' = [pc |-> "none", unit |-> NoUnit, error |-> FALSE, left |-> FALSE]
    /\ UNCHANGED <<fileVars, linux, faults>>

\* The process is gone: its threads with it, the extraction process not.
Gone(exit) ==
    /\ main' = [main EXCEPT !.pc = "exited", !.exit = exit]
    /\ consumer' = [consumer EXCEPT !.pc = "none"]

\* ExtractionQueue.__init__: the first record, then the consumer.
Open ==
    /\ MainAt("open")
    /\ \/ /\ record' = Progress(FALSE)
          /\ main' = [main EXCEPT !.pc = "unit"]
          /\ consumer' = [consumer EXCEPT !.pc = "loop"]
          /\ NoFault
       \/ Fault /\ Gone(1) /\ UNCHANGED record
    /\ UNCHANGED <<fileVars, linux, queueVars, child, runs>>
-----------------------------------------------------------------------------
(* The main thread                                                         *)

Offer(u) ==
    IF u \in seen THEN UNCHANGED <<queue, seen>>
    ELSE queue' = Append(queue, u) /\ seen' = seen \cup {u}

Unit == Plan[main.pos]

AfterUnit == [main EXCEPT !.pc = IF main.pos < Len(Plan) THEN "unit" ELSE "close",
                          !.pos = IF main.pos < Len(Plan) THEN @ + 1 ELSE @]

\* Mutant: a unit captured by an earlier run is not offered.
SkipOnly ==
    /\ MainAt("unit") /\ Unit \in marker
    /\ UNCHANGED <<queue, seen>>
    /\ main' = AfterUnit
    /\ UNCHANGED <<fileVars, record, linux, failures, finished, stop, draining,
                   consumer, child, runs, faults>>

\* A unit with a valid checkpoint is not captured again but offered again.
Skip ==
    /\ MainAt("unit") /\ Unit \in marker
    /\ Offer(Unit)
    /\ main' = AfterUnit
    /\ UNCHANGED <<fileVars, record, linux, failures, finished, stop, draining,
                   consumer, child, runs, faults>>

\* _clear_incomplete_artifacts and _fetch_with: the files of an earlier
\* capture go, and with them what its receipt was verified for.
Capture ==
    /\ MainAt("unit") /\ Unit \notin marker
    /\ receipt' = receipt \ {Unit}
    /\ main' = [main EXCEPT !.pc = "captured"]
    /\ UNCHANGED <<marker, record, linux, queueVars, consumer, child, runs, faults>>

\* _mark_complete commits the checkpoint and the unit is offered for
\* extraction, or the unit is counted incomplete.
MarkComplete ==
    /\ MainAt("captured")
    /\ \/ /\ marker' = marker \cup {Unit}
          /\ Offer(Unit)
          /\ main' = AfterUnit
          /\ NoFault
       \/ /\ main' = [AfterUnit EXCEPT !.incomplete = @ + 1]
          /\ Fault
          /\ UNCHANGED <<marker, queue, seen>>
    /\ UNCHANGED <<receipt, record, linux, failures, finished, stop, draining,
                   consumer, child, runs>>

\* ensure_capture_storage, _mark_complete, _write_progress or _write_summary
\* raises: run closes the queue with cancel.
CapturesRaise ==
    /\ MainAt("unit") \/ MainAt("captured") \/ MainAt("close")
    /\ ~main.raised
    /\ Fault
    /\ main' = [main EXCEPT !.pc = "close", !.raised = TRUE]
    /\ UNCHANGED <<fileVars, record, linux, queueVars, consumer, child, runs>>

\* close: the drain flag and its record; if the record cannot be written the
\* exception leaves close, and main ends with the consumer still at work.
Close ==
    /\ MainAt("close")
    /\ draining' = TRUE
    /\ \/ /\ record' = [Progress(FALSE) EXCEPT !.draining = TRUE]
          /\ main' = [main EXCEPT !.pc = "closing"]
          /\ NoFault /\ UNCHANGED consumer
       \/ Fault /\ Gone(1) /\ UNCHANGED record
    /\ UNCHANGED <<fileVars, linux, queue, seen, failures, finished, stop, child, runs>>

\* Mutant: close does not wake the consumer.
CloseWithoutEnd ==
    /\ MainAt("closing")
    /\ stop' = main.raised
    /\ UNCHANGED queue
    /\ main' = [main EXCEPT !.pc = "join"]
    /\ UNCHANGED <<fileVars, record, linux, seen, failures, finished, draining,
                   consumer, child, runs, faults>>

CloseStop ==
    /\ MainAt("closing")
    /\ stop' = main.raised
    /\ queue' = Append(queue, End)
    /\ main' = [main EXCEPT !.pc = "join"]
    /\ UNCHANGED <<fileVars, record, linux, seen, failures, finished, draining,
                   consumer, child, runs, faults>>

ConsumerEnded == consumer.pc = "ended"

\* Mutant: a consumer that ended early is not looked at.
SucceededSoFar == failures = {} /\ ~stop

\* close returns whether every extraction succeeded
Succeeded == failures = {} /\ ~consumer.error /\ ~stop

\* the exit code of main
ExitCode ==
    CASE main.raised -> 1
      [] ~main.raised /\ main.incomplete > 0 -> 2
      [] ~main.raised /\ main.incomplete = 0 /\ ~Succeeded -> 3
      [] OTHER -> 0

Join ==
    /\ MainAt("join") /\ ConsumerEnded
    /\ \/ record' = Progress(TRUE) /\ Gone(ExitCode) /\ NoFault
       \/ Fault /\ Gone(1) /\ UNCHANGED record
    /\ UNCHANGED <<fileVars, linux, queueVars, child, runs>>

\* The Worker kills the run: canceled, timed out, or without progress.
Killed ==
    /\ main.pc \notin {"idle", "exited"}
    /\ Gone(1)
    /\ UNCHANGED <<fileVars, record, linux, queueVars, child, runs, faults>>
-----------------------------------------------------------------------------
(* The consumer thread                                                     *)

ConsumerGoes(pc) == consumer' = [consumer EXCEPT !.pc = pc]
ConsumerDies == consumer' = [consumer EXCEPT !.pc = "ended", !.error = TRUE]

\* An exception in the loop that watches the process: the finally clause is
\* still to come.
ConsumerFails == consumer' = [consumer EXCEPT !.pc = "release", !.error = TRUE]

\* The flag is looked at before the wait in get; set later, it does not reach
\* a consumer that waits there.
Loop ==
    /\ ConsumerAt("loop")
    /\ ConsumerGoes(IF stop THEN "ended" ELSE "get")
    /\ UNCHANGED <<fileVars, record, linux, main, queueVars, child, runs, faults>>

Get ==
    /\ ConsumerAt("get") /\ queue # <<>>
    /\ queue' = Tail(queue)
    /\ consumer' = IF Head(queue) = End
                   THEN [consumer EXCEPT !.pc = "ended"]
                   ELSE [consumer EXCEPT !.pc = "start", !.unit = Head(queue)]
    /\ UNCHANGED <<fileVars, record, linux, main, seen, failures, finished, stop,
                   draining, child, runs, faults>>

\* the record, the log and the process
StartChild ==
    /\ ConsumerAt("start")
    /\ \/ /\ record' = Progress(FALSE)
          /\ child' = [state |-> "running", unit |-> consumer.unit, late |-> FALSE]
          /\ ConsumerGoes("poll")
          /\ NoFault
       \/ Fault /\ ConsumerDies /\ UNCHANGED <<record, child>>
    /\ UNCHANGED <<fileVars, linux, main, queueVars, runs>>

\* One round of the loop: a process that has ended is judged, one that is to
\* stop or has had its 6000 s is terminated, and on Linux one that runs while
\* captures go on is paused for a part of the round.
Poll ==
    /\ ConsumerAt("poll")
    /\ ConsumerGoes(CASE ~ChildLives -> "release"
                      [] ChildLives /\ (stop \/ child.late) -> "terminate"
                      [] OTHER -> IF linux /\ ~draining THEN "pause" ELSE "wait")
    /\ UNCHANGED <<fileVars, record, linux, main, queueVars, child, runs, faults>>

Pause ==
    /\ ConsumerAt("pause")
    /\ child' = IF ChildLives THEN [child EXCEPT !.state = "paused"] ELSE child
    /\ ConsumerGoes("paused")
    /\ UNCHANGED <<fileVars, record, linux, main, queueVars, runs, faults>>

Continue ==
    /\ ConsumerAt("paused")
    /\ child' = IF ChildLives THEN [child EXCEPT !.state = "running"] ELSE child
    /\ ConsumerGoes("wait")
    /\ UNCHANGED <<fileVars, record, linux, main, queueVars, runs, faults>>

\* The record is written again every two seconds.
Wait ==
    /\ ConsumerAt("wait")
    /\ \/ ConsumerGoes("poll") /\ record' = Progress(FALSE) /\ NoFault
       \/ ConsumerGoes("poll") /\ NoFault /\ UNCHANGED record
       \/ Fault /\ ConsumerFails /\ UNCHANGED record
    /\ UNCHANGED <<fileVars, linux, main, queueVars, child, runs>>

\* A process that is terminated has failed, unless it has ended before.  The
\* owner may raise, and owner or taskkill may fail to end the process, so that
\* the wait that follows raises.
Terminate ==
    /\ ConsumerAt("terminate")
    /\ \/ /\ child' = IF ChildLives THEN [child EXCEPT !.state = "failed"] ELSE child
          /\ ConsumerGoes("release")
          /\ NoFault
       \/ (linux \/ ChildLives) /\ Fault /\ ConsumerFails /\ UNCHANGED child
    /\ UNCHANGED <<fileVars, record, linux, main, queueVars, runs>>

Released == ConsumerGoes(IF consumer.error THEN "ended" ELSE "judge")

\* The finally clause: the owner, if there is one, ends what is left of the
\* extraction.  It may raise, and what it reports as remaining is not looked
\* at: the process itself, or a stage of one that failed.  (One that succeeded
\* has waited for its stages.)
Release ==
    /\ ConsumerAt("release")
    /\ \/ /\ child' = IF linux /\ ChildLives THEN [child EXCEPT !.state = "failed"] ELSE child
          /\ Released /\ NoFault
       \/ linux /\ Fault /\ ConsumerDies /\ UNCHANGED child
       \/ /\ child.state # "done" /\ Fault /\ UNCHANGED child
          /\ consumer' = [consumer EXCEPT !.pc = IF consumer.error THEN "ended" ELSE "judge",
                                          !.left = TRUE]
    /\ UNCHANGED <<fileVars, record, linux, main, queueVars, runs>>

\* The exit code and the receipt decide; then the record is written.
Judge ==
    /\ ConsumerAt("judge")
    /\ failures' = IF child.state = "done" /\ consumer.unit \in receipt
                   THEN failures ELSE failures \cup {consumer.unit}
    /\ finished' = finished + 1
    /\ child' = NoChild
    /\ \/ /\ record' = [Progress(FALSE) EXCEPT !.finished = finished',
                                              !.failed = Cardinality(failures')]
          /\ consumer' = [consumer EXCEPT !.pc = "loop", !.unit = NoUnit]
          /\ NoFault
       \/ Fault /\ ConsumerDies /\ UNCHANGED record
    /\ UNCHANGED <<fileVars, linux, main, queue, seen, stop, draining, runs>>
-----------------------------------------------------------------------------
(* The extraction process                                                  *)

\* It ends with its receipt published, or without; it may also hang, until
\* its time is over.
ChildEnds ==
    /\ child.state = "running"
    /\ \/ /\ receipt' = receipt \cup {child.unit}
          /\ child' = [child EXCEPT !.state = "done"]
          /\ NoFault
       \/ /\ child' = [child EXCEPT !.state = "failed"]
          /\ Fault /\ UNCHANGED receipt
    /\ UNCHANGED <<marker, record, linux, main, queueVars, consumer, runs>>

TimePasses ==
    /\ ChildLives /\ ~child.late
    /\ child' = [child EXCEPT !.late = TRUE]
    /\ UNCHANGED <<fileVars, record, linux, main, queueVars, consumer, runs, faults>>

MainStep == Open \/ Skip \/ Capture \/ MarkComplete \/ CapturesRaise
               \/ Close \/ CloseStop \/ Join
ConsumerStep == Loop \/ Get \/ StartChild \/ Poll \/ Pause \/ Continue
                   \/ Wait \/ Terminate \/ Release \/ Judge

Next == Start \/ Killed \/ MainStep \/ ConsumerStep \/ ChildEnds \/ TimePasses

\* The threads are scheduled and time passes; nothing makes an extraction
\* process end, nor the Worker start or kill a run.
Fairness ==
    /\ WF_vars(MainStep)
    /\ WF_vars(ConsumerStep)
    /\ WF_vars(TimePasses)

Spec == Init /\ [][Next]_vars /\ Fairness
-----------------------------------------------------------------------------
(* Properties                                                              *)

TypeOK ==
    /\ marker \subseteq Units /\ receipt \subseteq Units
    /\ record \in [draining : BOOLEAN, queued : Nat, finished : Nat, failed : Nat,
                   done : BOOLEAN]
    /\ linux \in BOOLEAN /\ stop \in BOOLEAN /\ draining \in BOOLEAN
    /\ main.pc \in {"idle", "open", "unit", "captured", "close", "closing", "join",
                    "exited"}
    /\ main.exit \in {-1, 0, 1, 2, 3}
    /\ queue \in Seq(Units \cup {End}) /\ seen \subseteq Units
    /\ failures \subseteq Units /\ finished \in Nat
    /\ consumer.pc \in {"none", "loop", "get", "start", "poll", "pause", "paused", "wait",
                        "terminate", "release", "judge", "ended"}
    /\ child.state \in {"none", "running", "paused", "done", "failed"}

Planned == {Plan[i] : i \in DOMAIN Plan}

\* The exit code says what the files say: 0 that every unit of the input is
\* captured and its extraction verified, 3 that every unit is captured.  It
\* is all the Worker knows, and 3 stops its retries.
ExitIsHonest ==
    /\ main.exit = 0 => Planned \subseteq marker \cap receipt
    /\ main.exit = 3 => Planned \subseteq marker

\* The checkpoints are the queue that survives a run: a run that closes its
\* queue in order has offered every captured unit of the input, those of
\* earlier runs included.
CheckpointsAreOffered ==
    main.pc \in {"closing", "join"} /\ ~main.raised => Planned \cap marker \subseteq seen

\* A run that reports success has left no process of an extraction behind.  One
\* that ended in order with another result has left the extraction process only
\* if its consumer died of an error, which the record names.
NoExtractionLeft ==
    MainAt("exited") =>
        /\ main.exit = 0 => ~ChildLives /\ ~consumer.left
        /\ main.exit \in {2, 3} /\ ~consumer.error => ~ChildLives

\* The drain flag, by which the Worker stops watching a run for progress, is
\* never seen while that run still captures.
WatchedWhileCapturing ==
    main.pc \in {"open", "unit", "captured"} => ~record.draining

\* The last record of a run that ended in order accounts for every unit that
\* was offered.
RecordIsFinal ==
    main.pc = "exited" /\ record.done /\ ~consumer.error /\ ~main.raised =>
        /\ record.queued = 0
        /\ record.finished = Cardinality(seen)
        /\ record.failed = Cardinality(failures)

\* The files of a unit are never captured again while they are extracted,
\* even when the input names the unit twice.
ExtractionApart == ChildLives /\ MainAt("captured") => child.unit # Unit

\* The exit code and the record tell the truth about the files.
RecordsAreTrue == TypeOK /\ ExitIsHonest /\ RecordIsFinal /\ WatchedWhileCapturing

\* Every checkpoint is offered to the extraction, which keeps away from the
\* unit that is captured and does not outlive a run that succeeds.
QueueIsAccounted == CheckpointsAreOffered /\ NoExtractionLeft /\ ExtractionApart

\* A run ends, whatever its extraction processes do.
RunEnds == MainAt("open") ~> MainAt("exited")
=============================================================================
