----------------------------- MODULE WorkerTask -----------------------------
(***************************************************************************)
(* The life of a capture task inside one Worker Agent: the SQLite task     *)
(* table (worker_agent/task_store.py), the in-memory capture queue, the    *)
(* single consumer thread and the HTTP handler threads that call submit,   *)
(* cancel and resume of TaskManager (worker_agent/task_runner.py).         *)
(*                                                                         *)
(* A step is one access to the table (each TaskStore call is its own       *)
(* SQLite transaction) together with the thread-local work next to it, so  *)
(* every window in which another thread may run between two calls of the   *)
(* store is a window of the model.  Extraction jobs, the second kind of    *)
(* task of the same table, are not in this module.                         *)
(***************************************************************************)
EXTENDS Naturals, Sequences, FiniteSets

CONSTANTS
    Tasks,              \* capture task ids
    Handlers,           \* HTTP handler threads (waitress runs four)
    Tokens,             \* resume tokens the Master sends
    Pipelined,          \* tasks with analysis.pipeline (background extraction)
    Analysed,           \* tasks with analysis.steps
    CancelTargets,      \* tasks a client may cancel
    ResumeTargets,      \* tasks a client may resume
    MaxQueueSize,       \* config.max_queue_size
    MaxCaptureRetries,  \* MAX_CAPTURE_RETRIES
    HasDeadline,        \* config.task_timeout_seconds > 0
    DiskFull,           \* whether writes under the task directory may fail
    MaxCalls,           \* bound: cancel and resume calls in a behaviour
    MaxStops,           \* bound: crashes and shutdowns in a behaviour
    NoTask, NoToken, NoHandler

ASSUME ConstantsAssumption ==
    /\ IsFiniteSet(Tasks)
    /\ NoTask \notin Tasks
    /\ NoToken \notin Tokens
    /\ NoHandler \notin Handlers
    /\ Pipelined \subseteq Tasks
    /\ Analysed \subseteq Tasks
    /\ CancelTargets \subseteq Tasks
    /\ ResumeTargets \subseteq Tasks
    /\ MaxQueueSize \in Nat
    /\ MaxCaptureRetries \in Nat
    /\ HasDeadline \in BOOLEAN
    /\ DiskFull \in BOOLEAN
    /\ MaxCalls \in Nat
    /\ MaxStops \in Nat
-----------------------------------------------------------------------------
VARIABLES
    \* the tasks table and the task directories: they survive the process
    status,           \* [Tasks -> status], "ABSENT" when there is no row
    cancelRequested,  \* [Tasks -> BOOLEAN]
    resumeToken,      \* [Tasks -> Tokens \cup {NoToken}]
    hasResult,        \* [Tasks -> BOOLEAN]: result_json is not null
    createdAt,        \* [Tasks -> Nat]: rank of the row, 0 without a row
    taskDir,          \* [Tasks -> BOOLEAN]: the task directory exists
    \* the memory of the process
    up,               \* the Worker process is running
    stopEvent,        \* "no", "set" (shutdown began), "killed" (child signalled)
    queue,            \* the capture queue; NoTask stands for the None sentinel
    lock,             \* holder of _submission_lock
    active,           \* _active_task_id
    process,          \* _active_process: "none", "running", "killed"
    \* the consumer thread
    pc, cur, cmd, retries,
    \* the handler threads
    call,             \* [Handlers -> next step, task, status read earlier, token]
    \* bounds of the environment
    calls, stops

rowRest     == <<cancelRequested, resumeToken, hasResult, createdAt, taskDir>>
tableVars   == <<status, rowRest>>
serviceVars == <<up, stopEvent>>
runnerVars  == <<active, process, pc, cur, cmd, retries>>
boundVars   == <<calls, stops>>
vars == <<tableVars, serviceVars, queue, lock, runnerVars, call, boundVars>>

TerminalStatuses == {"SUCCEEDED", "PARTIAL", "FAILED", "CANCELED", "INTERRUPTED"}
RunningStatuses  == {"PREPARING", "CAPTURING", "ANALYZING", "VALIDATING"}
ActiveStatuses   == {"QUEUED", "CANCELING"} \cup RunningStatuses
Statuses         == TerminalStatuses \cup ActiveStatuses \cup {"ABSENT"}

\* What _build_manifest reports: it looks at the artifacts, not at exit codes.
ManifestStatuses == {"SUCCEEDED", "PARTIAL", "FAILED"}

\* Program points of the consumer while it holds a task it has started.
RunPcs == {"prepare", "attempt", "launch", "spawn", "wait", "backoff", "analyze",
           "checkpoint", "validate", "publish", "cancel", "fail", "pause"}
HoldPcs   == {"fetch", "check", "skip", "start", "log"} \cup RunPcs
RunnerPcs == {"polling", "exited", "dead"} \cup HoldPcs
HandlerPcs == {"idle", "create", "mkdir", "put", "flag", "apply", "mark", "kill",
               "update", "enqueue"}

Calls == [pc : HandlerPcs, task : Tasks \cup {NoTask},
          seen : Statuses, token : Tokens \cup {NoToken}]
Idle  == [pc |-> "idle", task |-> NoTask, seen |-> "ABSENT", token |-> NoToken]

InQueue(t) == \E i \in 1..Len(queue) : queue[i] = t

Init ==
    /\ status = [t \in Tasks |-> "ABSENT"]
    /\ cancelRequested = [t \in Tasks |-> FALSE]
    /\ resumeToken = [t \in Tasks |-> NoToken]
    /\ hasResult = [t \in Tasks |-> FALSE]
    /\ createdAt = [t \in Tasks |-> 0]
    /\ taskDir = [t \in Tasks |-> FALSE]
    /\ up = TRUE
    /\ stopEvent = "no"
    /\ queue = <<>>
    /\ lock = NoHandler
    /\ active = NoTask
    /\ process = "none"
    /\ pc = "polling"
    /\ cur = NoTask
    /\ cmd = "capture"
    /\ retries = 0
    /\ call = [h \in Handlers |-> Idle]
    /\ calls = 0
    /\ stops = 0
-----------------------------------------------------------------------------
(* Handler threads.                                                        *)

At(h, p)   == call[h].pc = p
Goto(h, p) == call' = [call EXCEPT ![h].pc = p]
Finish(h)  == call' = [call EXCEPT ![h] = Idle]

\* A handler takes a request about task t; the service no longer accepts
\* requests once shutdown has begun.
Accept(h, t, p, k) ==
    /\ up
    /\ stopEvent = "no"
    /\ At(h, "idle")
    /\ call' = [call EXCEPT ![h] = [pc |-> p, task |-> t, seen |-> status[t], token |-> k]]

\* submit: no row, room in the queue, no stray directory.  Every refusal and
\* the answer "already there" leave the state as it is.  Neither this check
\* nor what follows is under _submission_lock.
SubmitCheck(h, t) ==
    /\ Accept(h, t, "create", NoToken)
    /\ status[t] = "ABSENT"
    /\ Len(queue) < MaxQueueSize
    /\ ~taskDir[t]
    /\ UNCHANGED <<tableVars, serviceVars, queue, lock, runnerVars, boundVars>>

\* create_task: the primary key lets one of two racing handlers through.
SubmitCreate(h) ==
    /\ At(h, "create")
    /\ IF status[call[h].task] = "ABSENT"
       THEN /\ status' = [status EXCEPT ![call[h].task] = "QUEUED"]
            /\ createdAt' = [createdAt EXCEPT
                   ![call[h].task] = 1 + Cardinality({u \in Tasks : status[u] # "ABSENT"})]
            /\ Goto(h, "mkdir")
       ELSE /\ Finish(h)
            /\ UNCHANGED <<status, createdAt>>
    /\ UNCHANGED <<cancelRequested, resumeToken, hasResult, taskDir,
                   serviceVars, queue, lock, runnerVars, boundVars>>

\* mkdir(exist_ok=False); a failure marks the row FAILED / SUBMIT_FAILED.
SubmitMkdir(h) ==
    LET t == call[h].task IN
    /\ At(h, "mkdir")
    /\ \/ /\ ~taskDir[t]
          /\ taskDir' = [taskDir EXCEPT ![t] = TRUE]
          /\ Goto(h, "put")
          /\ UNCHANGED status
       \/ /\ taskDir[t] \/ DiskFull
          /\ status' = [status EXCEPT ![t] = "FAILED"]
          /\ Finish(h)
          /\ UNCHANGED taskDir
    /\ UNCHANGED <<cancelRequested, resumeToken, hasResult, createdAt,
                   serviceVars, queue, lock, runnerVars, boundVars>>

SubmitPut(h) ==
    /\ At(h, "put")
    /\ queue' = Append(queue, call[h].task)
    /\ Finish(h)
    /\ UNCHANGED <<tableVars, serviceVars, lock, runnerVars, boundVars>>

\* cancel reads the task; a missing or terminal task is returned unchanged.
CancelRead(h, t) ==
    /\ t \in CancelTargets
    /\ calls < MaxCalls
    /\ calls' = calls + 1
    /\ Accept(h, t, "flag", NoToken)
    /\ status[t] \in ActiveStatuses
    /\ UNCHANGED <<tableVars, serviceVars, queue, lock, runnerVars, stops>>

\* request_cancel: conditional on the status the row has now.
CancelFlag(h) ==
    LET t == call[h].task IN
    /\ At(h, "flag")
    /\ cancelRequested' =
           IF status[t] \in TerminalStatuses THEN cancelRequested
           ELSE [cancelRequested EXCEPT ![t] = TRUE]
    /\ Goto(h, "apply")
    /\ UNCHANGED <<status, resumeToken, hasResult, createdAt, taskDir,
                   serviceVars, queue, lock, runnerVars, boundVars>>

\* The branch is taken on the status read in CancelRead; update_task writes
\* whatever the row holds by now.
CancelApply(h) ==
    LET t == call[h].task IN
    /\ At(h, "apply")
    /\ \/ /\ call[h].seen = "QUEUED"
          /\ status' = [status EXCEPT ![t] = "CANCELED"]
          /\ Finish(h)
       \/ /\ call[h].seen # "QUEUED"
          /\ IF active = t THEN Goto(h, "mark") ELSE Finish(h)
          /\ UNCHANGED status
    /\ UNCHANGED <<rowRest, serviceVars, queue, lock, runnerVars, boundVars>>

CancelMark(h) ==
    /\ At(h, "mark")
    /\ status' = [status EXCEPT ![call[h].task] = "CANCELING"]
    /\ Goto(h, "kill")
    /\ UNCHANGED <<rowRest, serviceVars, queue, lock, runnerVars, boundVars>>

\* cancel_active_process terminates whatever child is active.
KillActive == process' = IF process = "running" THEN "killed" ELSE process

CancelKill(h) ==
    /\ At(h, "kill")
    /\ KillActive
    /\ Finish(h)
    /\ UNCHANGED <<tableVars, serviceVars, queue, lock, active, pc, cur, cmd, retries, boundVars>>

\* Mutant: a repeated token is not recognised.
ResumeSelectAnyToken(h, t, k) ==
    /\ t \in ResumeTargets
    /\ calls < MaxCalls
    /\ calls' = calls + 1
    /\ lock = NoHandler
    /\ Accept(h, t, "update", k)
    /\ status[t] # "ABSENT"
    /\ lock' = h
    /\ UNCHANGED <<tableVars, serviceVars, queue, runnerVars, stops>>

\* resume takes _submission_lock; the SELECT of resume_task runs before, and
\* outside the transaction of, its UPDATE.  A repeated token changes nothing.
ResumeSelect(h, t, k) ==
    /\ t \in ResumeTargets
    /\ calls < MaxCalls
    /\ calls' = calls + 1
    /\ lock = NoHandler
    /\ Accept(h, t, "update", k)
    /\ status[t] # "ABSENT"
    /\ resumeToken[t] # k
    /\ lock' = h
    /\ UNCHANGED <<tableVars, serviceVars, queue, runnerVars, stops>>

\* Mutant: every resumed row says QUEUED, seen terminal or not.
ResumeUpdateAlways(h) ==
    LET t == call[h].task IN
    /\ At(h, "update")
    /\ resumeToken' = [resumeToken EXCEPT ![t] = call[h].token]
    /\ cancelRequested' = [cancelRequested EXCEPT ![t] = FALSE]
    /\ status' = [status EXCEPT ![t] = "QUEUED"]
    /\ hasResult' = [hasResult EXCEPT ![t] = FALSE]
    /\ IF call[h].seen \in TerminalStatuses
       THEN Goto(h, "enqueue") /\ UNCHANGED lock
       ELSE Finish(h) /\ lock' = NoHandler
    /\ UNCHANGED <<createdAt, taskDir, serviceVars, queue, runnerVars, boundVars>>

\* The UPDATE: a task seen terminal goes back to the queue, any other only
\* takes the token; both drop the cancel request.
ResumeUpdate(h) ==
    LET t == call[h].task IN
    /\ At(h, "update")
    /\ resumeToken' = [resumeToken EXCEPT ![t] = call[h].token]
    /\ cancelRequested' = [cancelRequested EXCEPT ![t] = FALSE]
    /\ \/ /\ call[h].seen \in TerminalStatuses
          /\ status' = [status EXCEPT ![t] = "QUEUED"]
          /\ hasResult' = [hasResult EXCEPT ![t] = FALSE]
          /\ Goto(h, "enqueue")
          /\ UNCHANGED lock
       \/ /\ call[h].seen \notin TerminalStatuses
          /\ lock' = NoHandler
          /\ Finish(h)
          /\ UNCHANGED <<status, hasResult>>
    /\ UNCHANGED <<createdAt, taskDir, serviceVars, queue, runnerVars, boundVars>>

ResumeEnqueue(h) ==
    /\ At(h, "enqueue")
    /\ queue' = Append(queue, call[h].task)
    /\ lock' = NoHandler
    /\ Finish(h)
    /\ UNCHANGED <<tableVars, serviceVars, runnerVars, boundVars>>

HandlerStep(h) ==
    \/ SubmitCreate(h) \/ SubmitMkdir(h) \/ SubmitPut(h)
    \/ CancelFlag(h) \/ CancelApply(h) \/ CancelMark(h) \/ CancelKill(h)
    \/ ResumeUpdate(h) \/ ResumeEnqueue(h)

Request(h) ==
    \E t \in Tasks :
        \/ SubmitCheck(h, t)
        \/ CancelRead(h, t)
        \/ \E k \in Tokens : ResumeSelect(h, t, k)
-----------------------------------------------------------------------------
(* The consumer thread (_worker_loop, _run_task, _run_command).            *)

\* What no step of the consumer but Take touches.
RunnerOnly == UNCHANGED <<serviceVars, queue, lock, call, boundVars>>

\* The consumer moves on; Step reads only, Write also updates the status.
Goes(p)     == pc' = p /\ UNCHANGED <<active, cur, cmd, retries>>
Step(p)     == Goes(p) /\ UNCHANGED <<tableVars, process>> /\ RunnerOnly
SetStatus(s) == status' = [status EXCEPT ![cur] = s] /\ UNCHANGED rowRest
Write(s, p) == SetStatus(s) /\ Goes(p) /\ UNCHANGED process /\ RunnerOnly

\* The loop head and queue.get.  The stop event is looked at before get, so a
\* task may still be taken after shutdown has set it; None ends the thread.
Take ==
    /\ up
    /\ pc = "polling"
    /\ queue # <<>>
    /\ queue' = Tail(queue)
    /\ cur' = Head(queue)
    /\ pc' = IF Head(queue) = NoTask THEN "exited" ELSE "fetch"
    /\ cmd' = "capture"
    /\ retries' = 0
    /\ UNCHANGED <<tableVars, serviceVars, lock, active, process, call, boundVars>>

\* queue.Empty after half a second: back to the loop head, which sees the stop
\* event whatever has been queued meanwhile.
StopPolling ==
    /\ up
    /\ pc = "polling"
    /\ stopEvent # "no"
    /\ Step("exited")

\* The finally clause, and the loop head that follows it.  The locals of
\* _run_task end with it.
ReleaseTo(p) ==
    /\ pc' = p
    /\ cur' = NoTask
    /\ active' = NoTask
    /\ process' = "none"
    /\ cmd' = "capture"
    /\ retries' = 0

Release == ReleaseTo(IF stopEvent = "no" THEN "polling" ELSE "exited")

\* get_task: a task that ended while it was queued is skipped.
Fetch ==
    /\ pc = "fetch"
    /\ \/ status[cur] \in TerminalStatuses /\ Release /\ UNCHANGED tableVars /\ RunnerOnly
       \/ status[cur] \notin TerminalStatuses /\ Step("check")

\* is_cancel_requested, then _active_task_id = task_id.
Check ==
    /\ pc = "check"
    /\ \/ cancelRequested[cur] /\ Step("skip")
       \/ /\ ~cancelRequested[cur]
          /\ active' = cur
          /\ pc' = "start"
          /\ UNCHANGED <<tableVars, process, cur, cmd, retries>>
          /\ RunnerOnly

Skip == pc = "skip" /\ SetStatus("CANCELED") /\ Release /\ RunnerOnly

\* PREPARING is written whatever the row holds by now.
Start == pc = "start" /\ Write("PREPARING", "prepare")

\* _write_task_inputs needs the task directory; then CAPTURING.
Prepare ==
    /\ pc = "prepare"
    /\ \/ taskDir[cur] /\ Write("CAPTURING", "attempt")
       \/ (~taskDir[cur] \/ DiskFull) /\ Step("fail")

\* Head of the retry loop: a pipelined task writes CAPTURING again.
Attempt ==
    /\ pc = "attempt"
    /\ IF cur \in Pipelined THEN SetStatus("CAPTURING") ELSE UNCHANGED tableVars
    /\ pc' = "launch"
    /\ cmd' = "capture"
    /\ UNCHANGED <<process, active, cur, retries>>
    /\ RunnerOnly

\* Entry of _run_command and every turn of _wait_interruptibly: the cancel
\* request first, then the stop event, then the deadline.
Interrupted ==
    \/ cancelRequested[cur] /\ Step("cancel")
    \/ ~cancelRequested[cur] /\ stopEvent # "no" /\ Step("pause")
    \/ ~cancelRequested[cur] /\ stopEvent = "no" /\ HasDeadline /\ Step("fail")

MayGoOn == ~cancelRequested[cur] /\ stopEvent = "no"

Launch ==
    /\ pc = "launch"
    /\ \/ Interrupted
       \/ MayGoOn /\ Step("spawn")
       \/ MayGoOn /\ DiskFull /\ Step("fail")

\* Popen; from now on _active_process names the child.
Spawn ==
    /\ pc = "spawn"
    /\ process' = "running"
    /\ Goes("wait")
    /\ UNCHANGED tableVars
    /\ RunnerOnly

\* Where the pipeline goes when the command has returned.  ok: exit 0;
\* drained: exit 3 of a pipelined capture; bad: any other code, a killed
\* child and the 124 of a stalled capture included.
AfterCommand(code) ==
    IF cmd = "analysis" THEN "checkpoint"
    ELSE IF code = "ok" THEN (IF cur \in Analysed THEN "analyze" ELSE "checkpoint")
    ELSE IF code = "drained" THEN "checkpoint"
    ELSE IF retries >= MaxCaptureRetries THEN "fail" ELSE "backoff"

\* Mutant: the retries are not counted.
ReturnsUncounted(code) ==
    /\ process' = "none"
    /\ Goes(AfterCommand(code))
    /\ UNCHANGED tableVars
    /\ RunnerOnly

Returns(code) ==
    /\ process' = "none"
    /\ pc' = AfterCommand(code)
    /\ retries' = IF pc' = "backoff" THEN retries + 1 ELSE retries
    /\ UNCHANGED <<tableVars, active, cur, cmd>>
    /\ RunnerOnly

\* poll() finds that the command has ended by itself ...
CommandExit ==
    /\ pc = "wait"
    /\ process = "running"
    /\ \/ Returns("ok")
       \/ cur \in Pipelined /\ cmd # "analysis" /\ Returns("drained")
       \/ Returns("bad")

\* ... or that cancel or shutdown has killed it.
KilledExit == pc = "wait" /\ process = "killed" /\ Returns("bad")

\* No checkpoint progress for capture_stall_seconds: killed, code 124.
Stall == pc = "wait" /\ cmd = "capture" /\ Returns("bad")

\* A pipelined capture has fetched everything and drains its extraction
\* queue: ANALYZING, and no stall check any more.
Drain ==
    /\ pc = "wait"
    /\ cmd = "capture"
    /\ cur \in Pipelined
    /\ SetStatus("ANALYZING")
    /\ cmd' = "drain"
    /\ UNCHANGED <<process, active, pc, cur, retries>>
    /\ RunnerOnly

\* The child is terminated and _run_command raises.
Abandon(p) == process' = "none" /\ Goes(p) /\ UNCHANGED tableVars /\ RunnerOnly

\* Mutant: the poll loop does not look at the cancel request.
WaitDeadlineOnly == pc = "wait" /\ HasDeadline /\ Abandon("fail")

\* The poll loop sees the cancel request, or the deadline.
WaitInterrupted ==
    /\ pc = "wait"
    /\ \/ cancelRequested[cur] /\ Abandon("cancel")
       \/ ~cancelRequested[cur] /\ HasDeadline /\ Abandon("fail")

\* However the command ends, a child that survives owner.terminate raises
\* RuntimeError from the finally clause.
Leftover == pc = "wait" /\ Abandon("fail")

Backoff == pc = "backoff" /\ (Interrupted \/ (MayGoOn /\ Step("attempt")))

Analyze ==
    /\ pc = "analyze"
    /\ SetStatus("ANALYZING")
    /\ pc' = "launch"
    /\ cmd' = "analysis"
    /\ UNCHANGED <<process, active, cur, retries>>
    /\ RunnerOnly

\* _raise_if_canceled, the last look at the cancel request.
Checkpoint == pc = "checkpoint" /\ Step(IF cancelRequested[cur] THEN "cancel" ELSE "validate")

Validate == pc = "validate" /\ Write("VALIDATING", "publish")

\* The last update_task of a run: the status and the result, null or not.
FinalWrite(s, r) ==
    /\ status' = [status EXCEPT ![cur] = s]
    /\ hasResult' = [hasResult EXCEPT ![cur] = r]
    /\ UNCHANGED <<cancelRequested, resumeToken, createdAt>>

\* _build_manifest, manifest.json and the final update.
Publish ==
    /\ pc = "publish"
    /\ \/ /\ \E s \in ManifestStatuses : FinalWrite(s, TRUE)
          /\ Goes("log")
          /\ UNCHANGED <<taskDir, process>>
          /\ RunnerOnly
       \/ DiskFull /\ Step("fail")

\* The log line after the final update is still inside the try block.
Log ==
    /\ pc = "log"
    /\ \/ Release /\ UNCHANGED tableVars /\ RunnerOnly
       \/ DiskFull /\ Step("fail")

\* A log write that fails in an except clause leaves _worker_loop, which has
\* a finally clause and no except clause: the thread is gone.
ReleaseOrDie == Release \/ (DiskFull /\ ReleaseTo("dead"))

\* except TaskCanceledError
EndCanceled == pc = "cancel" /\ SetStatus("CANCELED") /\ ReleaseOrDie /\ RunnerOnly

\* except TaskTimedOutError, except Exception: _finish_failed_task judges the
\* artifacts too; without a manifest the task is FAILED and has no result.
\* The log line creates the task directory when it is missing.
EndFailed ==
    /\ pc = "fail"
    /\ (\E s \in ManifestStatuses : FinalWrite(s, TRUE)) \/ FinalWrite("FAILED", FALSE)
    /\ \/ Release /\ taskDir' = [taskDir EXCEPT ![cur] = TRUE]
       \/ DiskFull /\ ReleaseTo("dead") /\ UNCHANGED taskDir
    /\ RunnerOnly

\* except TaskServiceStoppingError: back to the queue of the next start.
EndPaused == pc = "pause" /\ SetStatus("QUEUED") /\ ReleaseOrDie /\ RunnerOnly

RunnerStep ==
    \/ Take \/ StopPolling \/ Fetch \/ Check \/ Skip \/ Start \/ Prepare
    \/ Attempt \/ Launch \/ Spawn \/ KilledExit \/ WaitInterrupted \/ Backoff
    \/ Analyze \/ Checkpoint \/ Validate \/ Publish \/ Log
    \/ EndCanceled \/ EndFailed \/ EndPaused

\* What the child does; nothing but the stall check bounds how long it takes.
CommandStep == CommandExit \/ Stall \/ Drain \/ Leftover
-----------------------------------------------------------------------------
(* The process: shutdown, death and the recovery of the next start.        *)

\* shutdown: the stop event and the None sentinel ...
ShutdownBegin ==
    /\ up
    /\ stopEvent = "no"
    /\ stops < MaxStops
    /\ stopEvent' = "set"
    /\ queue' = Append(queue, NoTask)
    /\ UNCHANGED <<tableVars, up, lock, runnerVars, call, boundVars>>

\* ... then cancel_active_process.
ShutdownKill ==
    /\ stopEvent = "set"
    /\ stopEvent' = "killed"
    /\ KillActive
    /\ UNCHANGED <<tableVars, up, queue, lock, active, pc, cur, cmd, retries, call, boundVars>>

\* The end of the process: a crash at any time, or the end of shutdown, whose
\* join gives up after its timeout.  The memory of every thread is lost.
Exit ==
    /\ up
    /\ stops < MaxStops
    /\ stops' = stops + 1
    /\ up' = FALSE
    /\ stopEvent' = "no"
    /\ queue' = <<>>
    /\ lock' = NoHandler
    /\ active' = NoTask
    /\ process' = "none"
    /\ pc' = "polling"
    /\ cur' = NoTask
    /\ cmd' = "capture"
    /\ retries' = 0
    /\ call' = [h \in Handlers |-> Idle]
    /\ UNCHANGED <<tableVars, calls>>

\* Mutant: ACTIVE_STATUSES without VALIDATING.
RecoveredSome(t) ==
    IF status[t] \notin ActiveStatuses \ {"VALIDATING"} THEN status[t]
    ELSE IF cancelRequested[t] THEN "CANCELED" ELSE "QUEUED"

\* recover_incomplete_tasks
Recovered(t) ==
    IF status[t] \notin ActiveStatuses THEN status[t]
    ELSE IF cancelRequested[t] THEN "CANCELED" ELSE "QUEUED"

\* queued_task_ids: the rows in S, ORDER BY created_at.
CreationOrder(q, S) ==
    /\ \A i, j \in DOMAIN q : i < j => createdAt[q[i]] <= createdAt[q[j]]
    /\ \A t \in S : \E i \in DOMAIN q : q[i] = t

Restart ==
    /\ ~up
    /\ up' = TRUE
    /\ status' = [t \in Tasks |-> Recovered(t)]
    /\ LET S == {t \in Tasks : status'[t] = "QUEUED"} IN
       \E q \in [1..Cardinality(S) -> S] : CreationOrder(q, S) /\ queue' = q
    /\ UNCHANGED <<rowRest, stopEvent, lock, runnerVars, call, boundVars>>
-----------------------------------------------------------------------------
Next ==
    \/ \E h \in Handlers : Request(h) \/ HandlerStep(h)
    \/ RunnerStep
    \/ CommandStep
    \/ ShutdownBegin
    \/ ShutdownKill
    \/ Exit
    \/ Restart

Spec == Init /\ [][Next]_vars

\* Threads that can run do run: the consumer, each handler, the shutdown of a
\* service told to stop and its supervisor's restart.
ThreadFairness ==
    /\ WF_vars(RunnerStep)
    /\ \A h \in Handlers : WF_vars(HandlerStep(h))
    /\ WF_vars(ShutdownKill)
    /\ WF_vars(stopEvent = "killed" /\ Exit)
    /\ WF_vars(Restart)

\* A command may hang for ever.
FairSpec == Spec /\ ThreadFairness

\* A command ends: capture_stall_seconds is 600 by default, and extraction
\* and analysis run under timeouts of their own.
CommandsEnd == WF_vars(CommandExit \/ Stall)
-----------------------------------------------------------------------------
TypeOK ==
    /\ status \in [Tasks -> Statuses]
    /\ cancelRequested \in [Tasks -> BOOLEAN]
    /\ resumeToken \in [Tasks -> Tokens \cup {NoToken}]
    /\ hasResult \in [Tasks -> BOOLEAN]
    /\ createdAt \in [Tasks -> Nat]
    /\ taskDir \in [Tasks -> BOOLEAN]
    /\ up \in BOOLEAN
    /\ stopEvent \in {"no", "set", "killed"}
    /\ queue \in Seq(Tasks \cup {NoTask})
    /\ lock \in Handlers \cup {NoHandler}
    /\ active \in Tasks \cup {NoTask}
    /\ process \in {"none", "running", "killed"}
    /\ pc \in RunnerPcs
    /\ cur \in Tasks \cup {NoTask}
    /\ cmd \in {"capture", "drain", "analysis"}
    /\ retries \in 0..MaxCaptureRetries
    /\ call \in [Handlers -> Calls]
    /\ calls \in 0..MaxCalls
    /\ stops \in 0..MaxStops

\* A handler that has created or re-queued the row of t and has still to put
\* t into the queue.
PutPending(t) ==
    \E h \in Handlers : call[h].task = t /\ call[h].pc \in {"mkdir", "put", "enqueue"}

\* The consumer has taken t and has not yet written PREPARING or CANCELED.
TakenUp(t) == cur = t /\ pc \in {"fetch", "check", "skip", "start"}

\* No accepted task is lost: while the Worker serves, a row that says QUEUED
\* is in the in-memory queue, in the consumer's hands, or about to be queued
\* by the handler that wrote it (submit, resume, cancel and _worker_loop share
\* the rows without a common lock).
NoQueuedTaskLost ==
    up /\ stopEvent = "no" =>
        \A t \in Tasks : status[t] = "QUEUED" => InQueue(t) \/ TakenUp(t) \/ PutPending(t)

\* The table never shows a task as running that nothing runs: PREPARING,
\* CAPTURING, ANALYZING and VALIDATING are backed by the consumer working on
\* that very task, whatever cancel, resume, shutdown and restart do meanwhile.
RunningTaskHasRunner ==
    up => \A t \in Tasks : status[t] \in RunningStatuses => cur = t /\ pc \in RunPcs

\* What the consumer and the handlers know at their program points: they hold
\* a task wherever they use one, only a stopping service pauses a task, and a
\* resume is alone between its SELECT and its UPDATE, so that its token is
\* still a new one.
RunnerHoldsTask  == pc \in HoldPcs => cur \in Tasks
HandlerHoldsTask == \A h \in Handlers : call[h].pc # "idle" => call[h].task \in Tasks
PauseMeansStop   == pc = "pause" => stopEvent # "no"
ResumeHoldsLock  == \A h \in Handlers : call[h].pc \in {"update", "enqueue"} => lock = h
ResumeTokenIsNew ==
    \A h \in Handlers : At(h, "update") => resumeToken[call[h].task] # call[h].token

\* The inductive invariant: the two invariants above with what the threads of
\* _worker_loop, submit, cancel and resume know at each step.
IInv ==
    /\ TypeOK
    /\ RunnerHoldsTask
    /\ HandlerHoldsTask
    /\ PauseMeansStop
    /\ ResumeHoldsLock
    /\ ResumeTokenIsNew
    /\ NoQueuedTaskLost
    /\ RunningTaskHasRunner

\* A resume token restarts a finished task at most once while it is the
\* stored token, however many times the Master repeats the call, and from
\* whichever handler: resume_task.  The consumer's own way back to QUEUED, a
\* stopping service, is the exception.
RestartTakesNewToken ==
    \A t \in Tasks :
        status[t] \in TerminalStatuses /\ status'[t] = "QUEUED" /\ pc # "pause"
            => resumeToken'[t] # resumeToken[t]

TokenRestartsOnce == [][RestartTakesNewToken]_vars

\* Every accepted task ends although commands fail, stall, are canceled and
\* resumed and the service stops and restarts, provided that commands end:
\* bounded retries, recovery from the table, one consumer for all.
AcceptedTaskEnds ==
    CommandsEnd => \A t \in Tasks : status[t] = "QUEUED" ~> status[t] \in TerminalStatuses

\* A cancel request frees the consumer even when the command would run for
\* ever, unless the request is withdrawn by a resume: the flag is read at every
\* turn of every loop of _run_command and _wait_interruptibly.
CancelEndsRun ==
    \A t \in Tasks :
        cur = t /\ cancelRequested[t] ~> cur # t \/ ~cancelRequested[t]

\* What the README says of cancel: the task and its process tree.  The child
\* that a cancel call kills belongs to the task it was called for.
CancelKillsOwnChild ==
    [][\A h \in Handlers :
          At(h, "kill") /\ call'[h] # call[h] /\ process' # process
              => cur = call[h].task]_vars
=============================================================================
