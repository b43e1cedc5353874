---------------------------- MODULE JobDispatch ----------------------------
(***************************************************************************)
(* How the Master carries an experiment (a job) to its Workers: the jobs   *)
(* and executions tables (master_server/store.py), the routing thread, the *)
(* one-thread pool per Worker and the done callbacks of JobDispatcher      *)
(* (master_server/dispatcher.py), and the routes that create, cancel,      *)
(* resume and delete jobs (master_server/app.py).  The Workers are behind  *)
(* HTTP: a call may fail before or after it took effect.                   *)
(*                                                                         *)
(* Every job targets every machine, with one URL and one browser, so that  *)
(* a target has one execution row.  A section under JobDispatcher._lock is *)
(* one step, except for cancel, which is one step per future; a write of a *)
(* non-terminal execution status and the _sync_job_status after it are one *)
(* step.  ACTIVE stands for every status a Worker reports of a task that   *)
(* has not ended (beside a target that has not started, the code shows a   *)
(* Worker's CANCELING as CREATED, the model as RUNNING), a round number    *)
(* for a resume token (0: the job was never resumed).                      *)
(***************************************************************************)
EXTENDS Naturals, Sequences, FiniteSets, SequencesExt

CONSTANTS
    Jobs, Machines,
    MaxQueueSize,  \* config.max_queue_size
    Unfit,         \* a machine may be disabled or lack a browser
    Faults,        \* _run_target may raise (a failed store access, a reply it cannot read)
    MaxRounds,     \* bound: resumes of a job
    MaxLosses,     \* bound: HTTP calls that fail
    MaxStops,      \* bound: crashes and shutdowns
    NoJob

ASSUME ConstantsAssumption ==
    /\ IsFiniteSet(Jobs)
    /\ IsFiniteSet(Machines) /\ Machines # {}
    /\ NoJob \notin Jobs
    /\ MaxQueueSize \in Nat \ {0}
    /\ Unfit \in BOOLEAN
    /\ Faults \in BOOLEAN
    /\ MaxRounds \in Nat /\ MaxLosses \in Nat /\ MaxStops \in Nat
-----------------------------------------------------------------------------
VARIABLES
    \* the jobs and executions tables
    jobStatus,        \* [Jobs -> status], "ABSENT" when there is no row
    cancelRequested,  \* [Jobs -> BOOLEAN]
    deleted,          \* [Jobs -> BOOLEAN]: deleted_at is set
    round,            \* [Jobs -> Nat]: resume_token
    createdAt,        \* [Jobs -> Nat]: rank of the row
    exec,             \* [Jobs -> [Machines -> status]]
    evidence,         \* [Jobs -> [Machines -> status in result_json, or "none"]]
    \* the memory of the Master
    up, stopping,
    submitting,       \* [Jobs -> "no", "enqueue", "refuse"]: _create_job at work
    queue,            \* _queue
    queued,           \* _queued: accepted jobs that have not ended
    lock,             \* the job whose cancel holds _lock
    futures,          \* the keys of _futures
    remaining,        \* [Jobs -> Nat]: the counter of the finished callbacks
    router,           \* [pc, job, round]: the routing thread
    pool,             \* [Machines -> pending futures]
    thread,           \* [Machines -> the pool thread and the target it runs]
    \* the task of each job on each Worker
    work,             \* [Jobs -> [Machines -> [status, token, cancel, result]]]
    losses, stops

jobRest    == <<deleted, round, createdAt>>
jobVars    == <<jobStatus, cancelRequested, jobRest>>
execVars   == <<exec, evidence>>
queueVars  == <<queue, queued, submitting>>
futureVars == <<futures, remaining>>
modeVars   == <<up, stopping>>
vars == <<jobVars, execVars, modeVars, queueVars, lock, futureVars, router, pool, thread,
          work, losses, stops>>

TerminalStatuses == {"SUCCEEDED", "PARTIAL", "FAILED", "CANCELED"}

\* Mutant: a job that succeeded can be resumed.
ResumableAll == TerminalStatuses

ResumableStatuses == TerminalStatuses \ {"SUCCEEDED"}
ActiveJobStatuses == {"CREATED", "DISPATCHING", "RUNNING", "CANCELING"}
ExecStatuses ==
    TerminalStatuses \cup {"CREATED", "RESUMING", "WAITING_FOR_WORKER", "ACTIVE", "CAPTURED"}
Results == {"SUCCEEDED", "PARTIAL", "FAILED"}

TargetPcs == {"idle", "start", "check", "contact", "submit", "resume", "waiting", "poll",
              "capture", "wait", "cancel", "get", "result", "tail", "apply", "end"}
Idle == [pc |-> "idle", job |-> NoJob, round |-> 0, seen |-> "none", result |-> "none",
         sent |-> FALSE, fault |-> FALSE]
Parked == [pc |-> "get", job |-> NoJob, round |-> 0]
NoTask == [status |-> "none", token |-> 0, cancel |-> FALSE, result |-> "none"]

Init ==
    /\ jobStatus = [j \in Jobs |-> "ABSENT"]
    /\ cancelRequested = [j \in Jobs |-> FALSE]
    /\ deleted = [j \in Jobs |-> FALSE]
    /\ round = [j \in Jobs |-> 0]
    /\ createdAt = [j \in Jobs |-> 0]
    /\ exec = [j \in Jobs |-> [m \in Machines |-> "CREATED"]]
    /\ evidence = [j \in Jobs |-> [m \in Machines |-> "none"]]
    /\ up = TRUE /\ stopping = FALSE
    /\ submitting = [j \in Jobs |-> "no"]
    /\ queue = <<>> /\ queued = {}
    /\ lock = NoJob
    /\ futures = {} /\ remaining = [j \in Jobs |-> 0]
    /\ router = Parked
    /\ pool = [m \in Machines |-> <<>>]
    /\ thread = [m \in Machines |-> Idle]
    /\ work = [j \in Jobs |-> [m \in Machines |-> NoTask]]
    /\ losses = 0 /\ stops = 0
-----------------------------------------------------------------------------
(* Aggregation of the execution rows (dispatcher.py, store.py).            *)

\* _aggregate_execution_statuses, as far as _sync_job_status tells apart.
Aggregate(row) ==
    LET S == {row[m] : m \in Machines}
        N == S \ TerminalStatuses
    IN  IF N # {} THEN (IF N = {"CREATED"} THEN "CREATED" ELSE "RUNNING")
        ELSE IF S = {"SUCCEEDED"} THEN "SUCCEEDED"
        ELSE IF S = {"CANCELED"} THEN "CANCELED"
        ELSE IF S \cap {"SUCCEEDED", "PARTIAL"} # {} THEN "PARTIAL"
        ELSE "FAILED"

\* _sync_job_status_locked: a terminal status is published only by the last
\* done callback, or when nothing is in flight.
Synced(j, row, finished) ==
    IF deleted[j] THEN jobStatus[j]
    ELSE IF Aggregate(row) \in TerminalStatuses
         THEN (IF j \in futures /\ ~finished THEN jobStatus[j] ELSE Aggregate(row))
    ELSE IF finished THEN "FAILED" ELSE Aggregate(row)

\* update_worker_results without units: what was captured is not lost.
Kept(status, proof) ==
    IF status # "FAILED" THEN status
    ELSE IF proof \in {"SUCCEEDED", "PARTIAL"} THEN proof
    ELSE IF proof = "CAPTURED" THEN "PARTIAL"
    ELSE "FAILED"

SetExec(j, m, s) == exec' = [exec EXCEPT ![j][m] = s]
Sync(j, finished) == jobStatus' = [jobStatus EXCEPT ![j] = Synced(j, exec'[j], finished)]

InPool(j, m) == \E i \in DOMAIN pool[m] : pool[m][i].job = j
InFlight(j)  == {m \in Machines : InPool(j, m) \/ thread[m].job = j}
-----------------------------------------------------------------------------
(* The HTTP routes.  Requests are served until the process ends.           *)

\* _create_job inserts the job and its executions ...
Create(j) ==
    /\ up
    /\ jobStatus[j] = "ABSENT"
    /\ jobStatus' = [jobStatus EXCEPT ![j] = "CREATED"]
    /\ createdAt' = [createdAt EXCEPT ![j] = 1 + Cardinality({i \in Jobs : createdAt[i] # 0})]
    /\ submitting' = [submitting EXCEPT ![j] = "enqueue"]
    /\ UNCHANGED <<cancelRequested, deleted, round, execVars, modeVars, queue, queued, lock,
                   futureVars, router, pool, thread, work, losses, stops>>

\* ... then enqueues the job: the capacity counts every job that has not ended.
Enqueue(j) ==
    /\ submitting[j] = "enqueue"
    /\ lock = NoJob
    /\ IF Cardinality(queued) < MaxQueueSize
       THEN /\ queue' = Append(queue, j)
            /\ queued' = queued \cup {j}
            /\ submitting' = [submitting EXCEPT ![j] = "no"]
       ELSE /\ submitting' = [submitting EXCEPT ![j] = "refuse"]
            /\ UNCHANGED <<queue, queued>>
    /\ UNCHANGED <<jobVars, execVars, modeVars, lock, futureVars, router, pool, thread, work,
                   losses, stops>>

\* QueueFullError: the job is closed, whatever cancel wrote in between.
Refuse(j) ==
    /\ submitting[j] = "refuse"
    /\ jobStatus' = [jobStatus EXCEPT ![j] = "FAILED"]
    /\ submitting' = [submitting EXCEPT ![j] = "no"]
    /\ UNCHANGED <<cancelRequested, jobRest, execVars, modeVars, queue, queued, lock, futureVars,
                   router, pool, thread, work, losses, stops>>

\* The end of a future: its done callback writes status s, publishes the job
\* and counts down; a service that stops leaves the tables alone.
Leave(j) ==
    /\ remaining' = [remaining EXCEPT ![j] = @ - 1]
    /\ futures' = IF remaining[j] = 1 THEN futures \ {j} ELSE futures
    /\ queued' = IF remaining[j] = 1 THEN queued \ {j} ELSE queued

\* Mutant: the job is published before the execution is written.
FinishedSwapped(j, m, s) ==
    /\ IF stopping THEN UNCHANGED <<jobStatus, exec>>
       ELSE /\ SetExec(j, m, s)
            /\ jobStatus' = [jobStatus EXCEPT ![j] = Synced(j, exec[j], remaining[j] = 1)]
    /\ Leave(j)

Finished(j, m, s) ==
    /\ IF stopping THEN UNCHANGED <<jobStatus, exec>>
       ELSE SetExec(j, m, s) /\ Sync(j, remaining[j] = 1)
    /\ Leave(j)

\* cancel: the flag, conditional on the status the row has now.  A repeated
\* cancel is taken where it finds a future it can cancel ...
Cancel(j) ==
    /\ up
    /\ lock = NoJob
    /\ jobStatus[j] \in ActiveJobStatuses
    /\ ~cancelRequested[j] \/ \E m \in Machines : InPool(j, m)
    /\ lock' = j
    /\ cancelRequested' = [cancelRequested EXCEPT ![j] = TRUE]
    /\ jobStatus' = [jobStatus EXCEPT ![j] = "CANCELING"]
    /\ UNCHANGED <<jobRest, execVars, modeVars, queueVars, futureVars, router, pool, thread,
                   work, losses, stops>>

\* ... then future.cancel for each target no pool thread has taken yet.
CancelPending(m) ==
    /\ lock \in Jobs
    /\ \E i \in DOMAIN pool[m] :
          /\ pool[m][i].job = lock
          /\ pool' = [pool EXCEPT ![m] = RemoveAt(pool[m], i)]
    /\ Finished(lock, m, "CANCELED")
    /\ UNCHANGED <<cancelRequested, jobRest, evidence, modeVars, queue, submitting, lock, router,
                   thread, work, losses, stops>>

CancelReturns ==
    /\ lock \in Jobs
    /\ \A m \in Machines : ~InPool(lock, m)
    /\ lock' = NoJob
    /\ UNCHANGED <<jobVars, execVars, modeVars, queueVars, futureVars, router, pool, thread,
                   work, losses, stops>>

\* resume: resume_job resets the rows of an ended job, enqueue follows under
\* the same lock.
Resume(j) ==
    /\ up
    /\ lock = NoJob
    /\ jobStatus[j] \in ResumableStatuses
    /\ ~deleted[j]
    /\ round[j] < MaxRounds
    /\ j \in queued \/ Cardinality(queued) < MaxQueueSize
    /\ jobStatus' = [jobStatus EXCEPT ![j] = "CREATED"]
    /\ cancelRequested' = [cancelRequested EXCEPT ![j] = FALSE]
    /\ round' = [round EXCEPT ![j] = @ + 1]
    /\ exec' = [exec EXCEPT ![j] = [m \in Machines |-> "RESUMING"]]
    /\ evidence' = [evidence EXCEPT ![j] = [m \in Machines |-> "none"]]
    /\ IF j \in queued THEN UNCHANGED <<queue, queued>>
       ELSE queue' = Append(queue, j) /\ queued' = queued \cup {j}
    /\ UNCHANGED <<deleted, createdAt, modeVars, submitting, lock, futureVars, router, pool,
                   thread, work, losses, stops>>

\* delete_job: not under the lock of the dispatcher.
Delete(j) ==
    /\ up
    /\ jobStatus[j] \in TerminalStatuses
    /\ ~deleted[j]
    /\ deleted' = [deleted EXCEPT ![j] = TRUE]
    /\ UNCHANGED <<jobStatus, cancelRequested, round, createdAt, execVars, modeVars, queueVars,
                   lock, futureVars, router, pool, thread, work, losses, stops>>
-----------------------------------------------------------------------------
(* The routing thread (_loop, _run_job).                                   *)

\* The loop ends when the stop event is seen at its head.
Park == IF stopping THEN [Parked EXCEPT !.pc = "exited"] ELSE Parked

\* queue.get and get_job_control.  A job that has ended or was deleted is
\* dropped from _queued.
Route ==
    /\ router.pc = "get"
    /\ queue # <<>>
    /\ queue' = Tail(queue)
    /\ LET j == Head(queue) IN
       IF jobStatus[j] \in TerminalStatuses \/ deleted[j]
       THEN queued' = queued \ {j} /\ router' = Park
       ELSE /\ router' = [pc |-> IF cancelRequested[j] THEN "cancel" ELSE "mark",
                          job |-> j, round |-> round[j]]
            /\ UNCHANGED queued
    /\ UNCHANGED <<jobVars, execVars, modeVars, submitting, lock, futureVars, pool, thread,
                   work, losses, stops>>

\* A job canceled before it is dispatched: its Workers are not asked.
RouteCanceled ==
    LET j == router.job IN
    /\ router.pc = "cancel"
    /\ lock = NoJob
    /\ exec' = [exec EXCEPT ![j] = [m \in Machines |-> "CANCELED"]]
    /\ Sync(j, FALSE)
    /\ queued' = queued \ {j}
    /\ router' = Park
    /\ UNCHANGED <<cancelRequested, jobRest, evidence, modeVars, queue, submitting, lock,
                   futureVars, pool, thread, work, losses, stops>>

\* DISPATCHING is written whatever the row holds by now.
RouteMark ==
    /\ router.pc = "mark"
    /\ jobStatus' = [jobStatus EXCEPT ![router.job] = "DISPATCHING"]
    /\ router' = [router EXCEPT !.pc = "dispatch"]
    /\ UNCHANGED <<cancelRequested, jobRest, execVars, modeVars, queueVars, lock, futureVars,
                   pool, thread, work, losses, stops>>

\* Mutant: one target is not counted.
RouteDispatchOne ==
    LET j == router.job IN
    /\ router.pc = "dispatch"
    /\ lock = NoJob
    /\ router' = Park
    /\ IF stopping THEN UNCHANGED <<pool, futureVars>>
       ELSE /\ pool' = [m \in Machines |->
                           Append(pool[m], [job |-> j, round |-> router.round])]
            /\ futures' = futures \cup {j}
            /\ remaining' = [remaining EXCEPT ![j] = Cardinality(Machines) - 1]
    /\ UNCHANGED <<jobVars, execVars, modeVars, queueVars, lock, thread, work, losses, stops>>

\* One future per target, in the pool of its Worker.
RouteDispatch ==
    LET j == router.job IN
    /\ router.pc = "dispatch"
    /\ lock = NoJob
    /\ router' = Park
    /\ IF stopping THEN UNCHANGED <<pool, futureVars>>
       ELSE /\ pool' = [m \in Machines |->
                           Append(pool[m], [job |-> j, round |-> router.round])]
            /\ futures' = futures \cup {j}
            /\ remaining' = [remaining EXCEPT ![j] = Cardinality(Machines)]
    /\ UNCHANGED <<jobVars, execVars, modeVars, queueVars, lock, thread, work, losses, stops>>

RouterStep == Route \/ RouteCanceled \/ RouteMark \/ RouteDispatch
-----------------------------------------------------------------------------
(* The pool thread of machine m, and _run_target on it.                    *)

\* What a step of _run_target leaves alone.
TargetOnly == UNCHANGED <<cancelRequested, jobRest, modeVars, queueVars, lock, futureVars,
                          router, pool, stops>>
TableOnly  == UNCHANGED <<jobStatus, execVars>>
WorkerOnly == UNCHANGED <<work, losses>>

At(m, p)   == thread[m].pc = p
Goto(m, p) == thread' = [thread EXCEPT ![m].pc = p]

\* A terminal status for the execution ends _run_target; the done callback
\* publishes it later.  A FAILED one goes through update_worker_results.
Conclude(m, s) ==
    /\ SetExec(thread[m].job, m, Kept(s, evidence[thread[m].job][m]))
    /\ Goto(m, "end")
    /\ UNCHANGED <<jobStatus, evidence>>
    /\ WorkerOnly

\* A non-terminal status, and _sync_job_status under the lock.
Report(m, s) ==
    /\ lock = NoJob
    /\ SetExec(thread[m].job, m, s)
    /\ Sync(thread[m].job, FALSE)

\* update_worker_capture_progress leaves a terminal execution alone.
ReportCaptured(m) ==
    LET j == thread[m].job IN
    /\ lock = NoJob
    /\ IF exec[j][m] \in TerminalStatuses THEN UNCHANGED execVars
       ELSE SetExec(j, m, "CAPTURED") /\ evidence' = [evidence EXCEPT ![j][m] = "CAPTURED"]
    /\ Sync(j, FALSE)

\* A call to the Worker that leaves its task in one of the states W: the answer
\* takes the thread to p, WorkerRequestError to the handler that waits.  The
\* call may have taken effect before it failed.
Call(m, W, p) ==
    LET j == thread[m].job IN
    /\ \/ \E w \in W :
              /\ work' = [work EXCEPT ![j][m] = w]
              /\ thread' = [thread EXCEPT ![m].pc = p, ![m].seen = w.status]
              /\ UNCHANGED losses
       \/ /\ losses < MaxLosses
          /\ losses' = losses + 1
          /\ \E w \in W \cup {work[j][m]} : work' = [work EXCEPT ![j][m] = w]
          /\ Goto(m, "waiting")
    /\ TableOnly

TargetTake(m) ==
    /\ At(m, "idle")
    /\ pool[m] # <<>>
    /\ pool' = [pool EXCEPT ![m] = Tail(@)]
    /\ thread' = [thread EXCEPT ![m] = [Idle EXCEPT !.pc = "start", !.job = Head(pool[m]).job,
                                                     !.round = Head(pool[m]).round]]
    /\ UNCHANGED <<jobVars, execVars, modeVars, queueVars, lock, futureVars, router, work,
                   losses, stops>>

\* The machine is gone or disabled, or it is asked.
TargetStart(m) ==
    /\ At(m, "start")
    /\ \/ Goto(m, "check") /\ TableOnly /\ WorkerOnly
       \/ Unfit /\ Conclude(m, "FAILED")
    /\ TargetOnly

\* Head of the submission loop.
TargetCheck(m) ==
    LET j == thread[m].job IN
    /\ At(m, "check")
    /\ \/ (stopping \/ deleted[j]) /\ Goto(m, "end") /\ TableOnly /\ WorkerOnly
       \/ /\ ~stopping /\ ~deleted[j]
          /\ IF cancelRequested[j] THEN Conclude(m, "CANCELED")
             ELSE Goto(m, "contact") /\ TableOnly /\ WorkerOnly
    /\ TargetOnly

\* health and capabilities; a missing browser ends the target.
TargetContact(m) ==
    /\ At(m, "contact")
    /\ \/ Goto(m, "submit") /\ TableOnly /\ WorkerOnly
       \/ /\ losses < MaxLosses
          /\ losses' = losses + 1
          /\ Goto(m, "waiting")
          /\ TableOnly /\ UNCHANGED work
       \/ Unfit /\ Conclude(m, "FAILED")
    /\ TargetOnly

\* The Worker's submit: a task id that is already there is returned as it is.
Submitted(w) == IF w.status = "none" THEN [NoTask EXCEPT !.status = "active"] ELSE w

TargetSubmit(m) ==
    /\ At(m, "submit")
    /\ Call(m, {Submitted(work[thread[m].job][m])},
            IF thread[m].round > 0 THEN "resume" ELSE "poll")
    /\ TargetOnly

\* The Worker's resume: once per token, from the start when the task has ended.
Resumed(w, k) ==
    IF w.token = k THEN w
    ELSE IF w.status \in TerminalStatuses
         THEN [status |-> "active", token |-> k, cancel |-> FALSE, result |-> "none"]
    ELSE [w EXCEPT !.token = k, !.cancel = FALSE]

\* When this call fails, the task that submit returned stays in the variable
\* the submission loop tests.
TargetResume(m) ==
    /\ At(m, "resume")
    /\ Call(m, {Resumed(work[thread[m].job][m], thread[m].round)}, "poll")
    /\ TargetOnly

\* except WorkerRequestError, of each loop: the status is written unless it
\* was the last one written with the same message.  Stopping is looked at in
\* the submission and result loops only.
TargetWaiting(m) ==
    LET j == thread[m].job IN
    /\ At(m, "waiting")
    /\ \/ Report(m, "WAITING_FOR_WORKER") /\ UNCHANGED evidence
       \/ exec[j][m] = "WAITING_FOR_WORKER" /\ TableOnly
    /\ Goto(m, IF stopping /\ thread[m].seen # "active" THEN "end"
               ELSE IF thread[m].seen = "none" THEN "check" ELSE "poll")
    /\ TargetOnly /\ WorkerOnly

\* Head of the polling loop: a progress that differs from the last one is
\* written.
TargetPoll(m) ==
    LET j == thread[m].job IN
    /\ At(m, "poll")
    /\ IF thread[m].seen \in TerminalStatuses THEN Goto(m, "result") /\ TableOnly
       ELSE /\ Goto(m, "capture")
            /\ \/ Report(m, "ACTIVE") /\ UNCHANGED evidence
               \/ exec[j][m] \in {"ACTIVE", "CAPTURED"} /\ TableOnly
    /\ TargetOnly /\ WorkerOnly

\* _sync_worker_capture_progress may find new checkpoints; its failure is
\* passed over.
TargetCapture(m) ==
    /\ At(m, "capture")
    /\ ReportCaptured(m) \/ TableOnly
    /\ Goto(m, "wait")
    /\ TargetOnly /\ WorkerOnly

\* Mutant: the cancel request is not passed on.
TargetWaitDeaf(m) ==
    LET j == thread[m].job IN
    /\ At(m, "wait")
    /\ Goto(m, IF stopping \/ deleted[j] THEN "end" ELSE "get")
    /\ TableOnly /\ WorkerOnly /\ TargetOnly

\* The poll interval, then the job's row again.
TargetWait(m) ==
    LET j == thread[m].job IN
    /\ At(m, "wait")
    /\ Goto(m, IF stopping \/ deleted[j] THEN "end"
               ELSE IF cancelRequested[j] /\ ~thread[m].sent THEN "cancel" ELSE "get")
    /\ TableOnly /\ WorkerOnly /\ TargetOnly

\* The Worker's cancel: a queued task ends at once, a running one is told to.
CancelEffects(w) ==
    IF w.status = "active"
    THEN {[w EXCEPT !.cancel = TRUE], [w EXCEPT !.cancel = TRUE, !.status = "CANCELED"]}
    ELSE {w}

TargetCancel(m) ==
    LET W == CancelEffects(work[thread[m].job][m]) IN
    /\ At(m, "cancel")
    /\ \/ /\ \E w \in W :
                /\ work' = [work EXCEPT ![thread[m].job][m] = w]
                /\ thread' = [thread EXCEPT ![m].pc = "poll", ![m].seen = w.status,
                                            ![m].sent = TRUE]
          /\ UNCHANGED losses
          /\ TableOnly
       \/ Call(m, W, "poll") /\ thread'[m].pc = "waiting"
    /\ TargetOnly

TargetGet(m) ==
    /\ At(m, "get")
    /\ Call(m, {work[thread[m].job][m]}, "poll")
    /\ TargetOnly

\* Head of the result loop, get_result, and the rest of the checkpoints of a
\* task that did not succeed.  A task that is active again answers 409.
TargetResult(m) ==
    LET w == work[thread[m].job][m] IN
    /\ At(m, "result")
    /\ \/ stopping /\ Goto(m, "end") /\ UNCHANGED losses
       \/ /\ ~stopping
          /\ w.status \in TerminalStatuses
          /\ thread' = [thread EXCEPT ![m].result = w.result,
                 ![m].pc = IF thread[m].seen \in {"FAILED", "CANCELED"} THEN "tail" ELSE "apply"]
          /\ UNCHANGED losses
       \/ /\ ~stopping
          /\ w.status \notin TerminalStatuses
          /\ Goto(m, "waiting")
          /\ UNCHANGED losses
       \/ /\ ~stopping
          /\ losses < MaxLosses
          /\ losses' = losses + 1
          /\ Goto(m, "waiting")
    /\ TableOnly /\ UNCHANGED work /\ TargetOnly

TargetTail(m) ==
    /\ At(m, "tail")
    /\ ReportCaptured(m) \/ TableOnly
    /\ Goto(m, "apply")
    /\ TargetOnly /\ WorkerOnly

\* _apply_worker_result: the unit's own status, or the task's without units.
TargetApply(m) ==
    LET j == thread[m].job
        s == thread[m].seen
        r == thread[m].result
    IN
    /\ At(m, "apply")
    /\ IF r # "none"
       THEN SetExec(j, m, r) /\ evidence' = [evidence EXCEPT ![j][m] = r]
       ELSE /\ SetExec(j, m, Kept(s, evidence[j][m]))
            /\ IF s \in {"FAILED", "CANCELED"} THEN UNCHANGED evidence
               ELSE evidence' = [evidence EXCEPT ![j][m] = "none"]
    /\ Goto(m, "end")
    /\ UNCHANGED jobStatus
    /\ TargetOnly /\ WorkerOnly

\* _run_target raises.
TargetFault(m) ==
    /\ Faults
    /\ thread[m].pc \notin {"idle", "end"}
    /\ thread' = [thread EXCEPT ![m].pc = "end", ![m].fault = TRUE]
    /\ TableOnly /\ TargetOnly /\ WorkerOnly

\* The future is done: its callback, and the thread waits for the next one.
TargetFinish(m) ==
    LET j == thread[m].job IN
    /\ At(m, "end")
    /\ lock = NoJob
    /\ Finished(j, m, IF thread[m].fault THEN Kept("FAILED", evidence[j][m]) ELSE exec[j][m])
    /\ thread' = [thread EXCEPT ![m] = Idle]
    /\ UNCHANGED <<cancelRequested, jobRest, evidence, modeVars, queue, submitting, lock,
                   router, pool, work, losses, stops>>

TargetStep(m) ==
    \/ TargetTake(m) \/ TargetStart(m) \/ TargetCheck(m) \/ TargetContact(m)
    \/ TargetSubmit(m) \/ TargetResume(m) \/ TargetWaiting(m) \/ TargetPoll(m)
    \/ TargetCapture(m) \/ TargetWait(m) \/ TargetCancel(m) \/ TargetGet(m)
    \/ TargetResult(m) \/ TargetTail(m) \/ TargetApply(m) \/ TargetFinish(m)
-----------------------------------------------------------------------------
(* The Workers, and the process of the Master.                             *)

WorkerWrites(j, m, w) ==
    /\ work[j][m].status = "active"
    /\ work' = [work EXCEPT ![j][m] = w]
    /\ UNCHANGED <<jobVars, execVars, modeVars, queueVars, lock, futureVars, router, pool,
                   thread, losses, stops>>

\* A task ends with a result, or failed without one; WorkerTask says how.
WorkerEnds(j, m) ==
    \/ \E s \in Results :
          WorkerWrites(j, m, [work[j][m] EXCEPT !.status = s, !.result = s])
    \/ WorkerWrites(j, m, [work[j][m] EXCEPT !.status = "FAILED"])

\* A task ends because it was told to.
WorkerCanceled(j, m) ==
    /\ work[j][m].cancel
    /\ WorkerWrites(j, m, [work[j][m] EXCEPT !.status = "CANCELED"])

\* shutdown: the stop event ...
Stop ==
    /\ up /\ ~stopping
    /\ stops < MaxStops
    /\ stopping' = TRUE
    /\ UNCHANGED <<jobVars, execVars, up, queueVars, lock, futureVars, router, pool, thread,
                   work, losses, stops>>

\* ... then the futures no thread has taken are canceled, each with its callback.
PoolDrain(m) ==
    /\ stopping
    /\ lock = NoJob
    /\ pool[m] # <<>>
    /\ pool' = [pool EXCEPT ![m] = Tail(@)]
    /\ Leave(Head(pool[m]).job)
    /\ UNCHANGED <<jobVars, execVars, modeVars, queue, submitting, lock, router, thread, work,
                   losses, stops>>

\* The process ends: a crash at any time, or after shutdown.
Exit ==
    /\ up
    /\ stops < MaxStops
    /\ stops' = stops + 1
    /\ up' = FALSE /\ stopping' = FALSE
    /\ submitting' = [j \in Jobs |-> "no"]
    /\ queue' = <<>> /\ queued' = {}
    /\ lock' = NoJob
    /\ futures' = {} /\ remaining' = [j \in Jobs |-> 0]
    /\ router' = Parked
    /\ pool' = [m \in Machines |-> <<>>]
    /\ thread' = [m \in Machines |-> Idle]
    /\ UNCHANGED <<jobVars, execVars, work, losses>>

\* Mutant: CANCELING is not among the statuses to recover.
IncompleteSome == {j \in Jobs : jobStatus[j] \in ActiveJobStatuses \ {"CANCELING"} /\ ~deleted[j]}

\* incomplete_job_ids
Incomplete == {j \in Jobs : jobStatus[j] \in ActiveJobStatuses /\ ~deleted[j]}

\* start: every job that has not ended, the oldest first, whatever the capacity.
Restart ==
    /\ ~up
    /\ up' = TRUE
    /\ queued' = Incomplete
    /\ \E q \in [1..Cardinality(Incomplete) -> Incomplete] :
          /\ \A i, k \in DOMAIN q : i < k => createdAt[q[i]] < createdAt[q[k]]
          /\ queue' = q
    /\ UNCHANGED <<jobVars, execVars, stopping, submitting, lock, futureVars, router, pool,
                   thread, work, losses, stops>>
-----------------------------------------------------------------------------
Submission(j) == Enqueue(j) \/ Refuse(j)
Client(j)     == Create(j) \/ Cancel(j) \/ Resume(j) \/ Delete(j)
CancelStep    == CancelReturns \/ \E m \in Machines : CancelPending(m)

Next ==
    \/ \E j \in Jobs : Client(j) \/ Submission(j)
    \/ CancelStep
    \/ RouterStep
    \/ \E m \in Machines : TargetStep(m) \/ TargetFault(m) \/ PoolDrain(m)
    \/ \E j \in Jobs, m \in Machines : WorkerEnds(j, m) \/ WorkerCanceled(j, m)
    \/ Stop \/ Exit \/ Restart

Spec == Init /\ [][Next]_vars

\* Threads that can run do run, and a service told to stop ends and is started
\* again.  Nothing is assumed of the Workers.
FairSpec ==
    /\ Spec
    /\ WF_vars(CancelStep)
    /\ WF_vars(RouterStep)
    /\ \A j \in Jobs : WF_vars(Submission(j))
    /\ \A m \in Machines : WF_vars(TargetStep(m))
    /\ WF_vars(stopping /\ Exit)
    /\ WF_vars(Restart)

\* A Worker ends every task: AcceptedTaskEnds of WorkerTask.
WorkersEnd == \A j \in Jobs, m \in Machines : WF_vars(WorkerEnds(j, m))

\* A Worker ends every task that it is told to cancel.  It may not: its cancel may
\* write CANCELING over a status that has ended, and the task then stays so until
\* the Worker is restarted (CancelingEnds of ExtractionJobs).
WorkersCancel ==
    \A j \in Jobs, m \in Machines :
        work[j][m].cancel /\ work[j][m].status = "active" ~> work[j][m].status # "active"
-----------------------------------------------------------------------------
Threads == [pc : TargetPcs, job : Jobs \cup {NoJob}, round : 0..MaxRounds,
            seen : {"none", "active"} \cup TerminalStatuses, result : Results \cup {"none"},
            sent : BOOLEAN, fault : BOOLEAN]
WorkStates == [status : {"none", "active"} \cup TerminalStatuses, token : 0..MaxRounds,
               cancel : BOOLEAN, result : Results \cup {"none"}]

TypeOK ==
    /\ jobStatus \in [Jobs -> {"ABSENT"} \cup ActiveJobStatuses \cup TerminalStatuses]
    /\ cancelRequested \in [Jobs -> BOOLEAN]
    /\ deleted \in [Jobs -> BOOLEAN]
    /\ round \in [Jobs -> 0..MaxRounds]
    /\ createdAt \in [Jobs -> Nat]
    /\ exec \in [Jobs -> [Machines -> ExecStatuses]]
    /\ evidence \in [Jobs -> [Machines -> Results \cup {"none", "CAPTURED"}]]
    /\ up \in BOOLEAN /\ stopping \in BOOLEAN
    /\ submitting \in [Jobs -> {"no", "enqueue", "refuse"}]
    /\ queue \in Seq(Jobs)
    /\ queued \subseteq Jobs
    /\ lock \in Jobs \cup {NoJob}
    /\ futures \subseteq Jobs
    /\ remaining \in [Jobs -> Nat]
    /\ router \in [pc : {"get", "cancel", "mark", "dispatch", "exited"},
                   job : Jobs \cup {NoJob}, round : 0..MaxRounds]
    /\ pool \in [Machines -> Seq([job : Jobs, round : 0..MaxRounds])]
    /\ thread \in [Machines -> Threads]
    /\ work \in [Jobs -> [Machines -> WorkStates]]
    /\ losses \in 0..MaxLosses
    /\ stops \in 0..MaxStops

InQueue(j) == \E i \in DOMAIN queue : queue[i] = j
Routed(j)  == router.pc \in {"cancel", "mark", "dispatch"} /\ router.job = j

\* No experiment is lost and none is kept after its end: while the Master
\* serves, the jobs the table shows as active are exactly those in _queued or
\* still being submitted, and each job in _queued is in one place: the entry
\* queue, the routing thread, or the futures (enqueue, _run_job, finished,
\* cancel, resume and start keep the three in step with the table).
ActiveJobIsTracked ==
    up /\ ~stopping =>
        /\ \A j \in Jobs :
              jobStatus[j] \in ActiveJobStatuses <=> (j \in queued \/ submitting[j] # "no")
        /\ \A j \in queued :
              Cardinality({p \in {"queue", "router", "futures"} :
                              \/ p = "queue" /\ InQueue(j)
                              \/ p = "router" /\ Routed(j)
                              \/ p = "futures" /\ j \in futures}) = 1

\* No job is lost and none is kept after its end, with its types beside it.
JobsAreTracked == TypeOK /\ ActiveJobIsTracked

\* No run of an earlier round is alive: whatever the routing thread, the pools
\* and the pool threads hold of a job carries the resume token the job has
\* now, and the counter of the callbacks counts exactly the targets in flight
\* (the comment in _sync_job_status_locked: a resume must not cross an old
\* callback).
RunIsCurrent ==
    /\ \A j \in Jobs : Routed(j) => router.round = round[j]
    /\ \A m \in Machines :
          /\ thread[m].job # NoJob => thread[m].round = round[thread[m].job]
          /\ \A i \in DOMAIN pool[m] : pool[m][i].round = round[pool[m][i].job]
    /\ \A j \in Jobs : remaining[j] = Cardinality(InFlight(j))

\* What a client reads of an ended job agrees with its execution rows: the
\* status is their aggregate, however callbacks, cancel and shutdown were
\* ordered.  A job refused for lack of room is FAILED with untouched rows.
OutcomeAgrees ==
    \A j \in Jobs :
        jobStatus[j] \in TerminalStatuses =>
            \/ jobStatus[j] = Aggregate(exec[j])
            \/ jobStatus[j] = "FAILED" /\ exec[j] = [m \in Machines |-> "CREATED"]

\* The lifecycle that clients rely on (JobLifecycle): a job's outcome appears
\* with the end of its last target, stays until a resume, and nothing runs for
\* a job that has ended.
Lifecycle == INSTANCE JobLifecycle WITH
    phase <- [j \in Jobs |-> IF jobStatus[j] \in ActiveJobStatuses THEN "ACTIVE" ELSE jobStatus[j]],
    inFlight <- [j \in Jobs |-> InFlight(j)]

FollowsLifecycle == Lifecycle!Spec

\* Every experiment ends although Workers are unreachable for a while, calls
\* are repeated, targets raise and the Master restarts, provided that Workers
\* end their tasks.
JobEnds ==
    WorkersEnd =>
        \A j \in Jobs : jobStatus[j] \in ActiveJobStatuses ~> jobStatus[j] \in TerminalStatuses

\* A canceled experiment, never resumed before, ends even when a Worker would
\* never finish its task, provided that Workers end what they are told to cancel:
\* the submission and polling loops of _run_target pass the cancel on.  (The
\* result loop does not, and after a resume it may wait for a task that is active
\* again.)
CancelEnds ==
    WorkersCancel =>
        \A j \in Jobs :
            cancelRequested[j] /\ round[j] = 0
                ~> jobStatus[j] \in TerminalStatuses \/ ~cancelRequested[j]

\* README of the Master on an unreachable Worker: the thread retries and one
\* failed connection does not end the experiment.  A target whose resume has
\* not reached the Worker goes back to the loop that resumes it, not on to the
\* result of the round before.
FailedResumeIsRetried ==
    [][\A m \in Machines :
          /\ At(m, "waiting")
          /\ thread[m].seen \in TerminalStatuses
          /\ work[thread[m].job][m].token # thread[m].round
          => ~At(m, "poll")']_vars
=============================================================================
