------------------------------ MODULE MCWorker ------------------------------
(***************************************************************************)
(* The consumer thread of the Worker with its HTTP handlers, and the       *)
(* processes of the command it runs, each with an instance of its own:     *)
(* WorkerTask and ProcessOwner.  A behaviour is a behaviour of the one     *)
(* that component names, the other stays as it begins.                     *)
(***************************************************************************)
EXTENDS ProcessOwner

CONSTANTS
    \* WorkerTask
    Tasks, Handlers, Tokens, Pipelined, Analysed, CancelTargets, ResumeTargets, MaxQueueSize,
    MaxCaptureRetries, HasDeadline, DiskFull, MaxRequests, MaxStops, NoTask, NoToken, NoHandler

VARIABLES
    component,
    \* WorkerTask
    status, cancelRequested, resumeToken, hasResult, createdAt, taskDir, up, stopEvent, queue,
    lock, active, process, pc, cur, cmd, retries, request, requests, stops

taskVars == <<status, cancelRequested, resumeToken, hasResult, createdAt, taskDir, up, stopEvent,
              queue, lock, active, process, pc, cur, cmd, retries, request, requests, stops>>
allVars == <<component, vars, taskVars>>

Worker == INSTANCE WorkerTask WITH MaxCalls <- MaxRequests, call <- request, calls <- requests

ASSUME Worker!ConstantsAssumption

AllInit ==
    /\ component \in {"tasks", "owner"}
    /\ Init /\ Worker!Init

OfTasks(A) == component = "tasks" /\ A /\ UNCHANGED <<component, vars>>

AllNext ==
    \/ OfTasks(Worker!Next)
    \/ component = "owner" /\ Next /\ UNCHANGED <<component, taskVars>>

\* ThreadFairness of WorkerTask: no assumption that a command ends.
AllSpec ==
    /\ AllInit /\ [][AllNext]_allVars
    /\ WF_allVars(OfTasks(Worker!RunnerStep))
    /\ \A h \in Handlers : WF_allVars(OfTasks(Worker!HandlerStep(h)))
    /\ WF_allVars(OfTasks(Worker!ShutdownKill))
    /\ WF_allVars(OfTasks(stopEvent = "killed" /\ Worker!Exit))
    /\ WF_allVars(OfTasks(Worker!Restart))

-----------------------------------------------------------------------------
\* WorkerTask: a cancel request frees the consumer, whatever its command does;
\* and an accepted task ends, provided that commands end.
CancelEndsRun == Worker!CancelEndsRun
AcceptedTaskEnds == Worker!AcceptedTaskEnds

=============================================================================
