------------------------- MODULE WorkerTask_proofs -------------------------
(***************************************************************************)
(* Proofs about WorkerTask, for every set of tasks, handlers and tokens    *)
(* and every value of the limits.                                          *)
(***************************************************************************)
EXTENDS WorkerTask, FiniteSetTheorems, TLAPS

\* The parts of the inductive invariant that only speak of types.
TInv == TypeOK /\ RunnerHoldsTask /\ HandlerHoldsTask

\* The names of the statuses are statuses.
LEMMA StatusNames ==
    /\ \A s \in {"SUCCEEDED", "PARTIAL", "FAILED", "CANCELED", "QUEUED", "CANCELING",
                 "PREPARING", "CAPTURING", "ANALYZING", "VALIDATING", "ABSENT"} : s \in Statuses
    /\ ManifestStatuses \subseteq Statuses
  BY DEF Statuses, TerminalStatuses, ActiveStatuses, RunningStatuses, ManifestStatuses

\* The names of the consumer's program points are program points.
LEMMA PcNames ==
    /\ \A p \in {"fetch", "check", "skip", "start", "log", "prepare", "attempt", "launch",
                 "spawn", "wait", "backoff", "analyze", "checkpoint", "validate", "publish",
                 "cancel", "fail", "pause"} : p \in HoldPcs /\ p \in RunnerPcs
    /\ \A p \in {"polling", "exited", "dead"} : p \notin HoldPcs /\ p \in RunnerPcs
  BY DEF RunPcs, HoldPcs, RunnerPcs

\* What a handler's record becomes when the handler goes on, or ends.
LEMMA CallRecords ==
    /\ Idle \in Calls /\ Idle.pc = "idle"
    /\ \A c \in Calls, p \in HandlerPcs :
           /\ [c EXCEPT !.pc = p] \in Calls
           /\ [c EXCEPT !.pc = p].task = c.task
           /\ [c EXCEPT !.pc = p].pc = p
    /\ {"idle", "mkdir", "put", "apply", "mark", "kill", "enqueue"} \subseteq HandlerPcs
  BY StatusNames DEF Idle, Calls, HandlerPcs

\* A handler that goes on keeps its task, the status it read and its token.
LEMMA GotoRecord ==
    ASSUME call \in [Handlers -> Calls], NEW h \in Handlers, NEW p \in HandlerPcs, Goto(h, p)
    PROVE  \E c \in Calls : call' = [call EXCEPT ![h] = c] /\ c.pc = p
<1> DEFINE d == [call[h] EXCEPT !.pc = p]
<1>1. d \in Calls /\ d.pc = p
  BY CallRecords
<1>2. call' = [call EXCEPT ![h] = d]
  BY DEF Goto
<1> HIDE DEF d
<1> QED
  BY <1>1, <1>2

\* A handler that ends is idle again, and the others stay as they are.
LEMMA FinishRecord ==
    ASSUME NEW h \in Handlers, Finish(h)
    PROVE  \E c \in Calls : call' = [call EXCEPT ![h] = c] /\ c.pc = "idle"
  BY CallRecords DEF Finish

\* Tasks is finite, and with it every set of tasks.
LEMMA TaskCount == ASSUME NEW S \in SUBSET Tasks PROVE Cardinality(S) \in Nat
  BY FS_Subset, FS_CardinalityType, ConstantsAssumption

\* Every step keeps the types, and keeps tasks where threads need them.
LEMMA TypeStep == ASSUME TInv, [Next]_vars PROVE TInv'
<1> USE StatusNames, PcNames, ConstantsAssumption
<1> USE DEF TInv, TypeOK, RunnerHoldsTask, HandlerHoldsTask
<1>1. ASSUME NEW h \in Handlers, NEW t \in Tasks, SubmitCheck(h, t) PROVE TInv'
  BY <1>1
     DEF SubmitCheck, At, Accept, Calls, HandlerPcs, rowRest, tableVars, serviceVars, runnerVars,
         boundVars
<1>2. ASSUME NEW h \in Handlers, NEW t \in Tasks, CancelRead(h, t) PROVE TInv'
  BY <1>2
     DEF CancelRead, At, Accept, Calls, HandlerPcs, rowRest, tableVars, serviceVars, runnerVars
<1>3. ASSUME NEW h \in Handlers, NEW t \in Tasks, NEW k \in Tokens, ResumeSelect(h, t, k)
     PROVE  TInv'
  BY <1>3
     DEF ResumeSelect, At, Accept, Calls, HandlerPcs, rowRest, tableVars, serviceVars, runnerVars
<1>4. ASSUME NEW h \in Handlers, SubmitCreate(h) PROVE TInv'
  <2> DEFINE rows == {u \in Tasks : status[u] # "ABSENT"}
             n == 1 + Cardinality(rows)
  <2>1. n \in Nat
    <3>1. rows \in SUBSET Tasks
      OBVIOUS
    <3>2. Cardinality(rows) \in Nat
      BY <3>1, TaskCount
    <3> QED
      BY <3>2
  <2>2. /\ At(h, "create")
        /\ \/ /\ status' = [status EXCEPT ![call[h].task] = "QUEUED"]
              /\ createdAt' = [createdAt EXCEPT ![call[h].task] = n]
              /\ Goto(h, "mkdir")
           \/ Finish(h) /\ UNCHANGED <<status, createdAt>>
        /\ UNCHANGED <<cancelRequested, resumeToken, hasResult, taskDir,
                       serviceVars, queue, lock, runnerVars, boundVars>>
    BY <1>4 DEF SubmitCreate
  <2> HIDE DEF n
  <2>3. createdAt' \in [Tasks -> Nat]
    <3>1. [createdAt EXCEPT ![call[h].task] = n] \in [Tasks -> Nat]
      BY <2>1
    <3> QED
      BY <2>2, <3>1
  <2>4. status' \in [Tasks -> Statuses]
    BY <2>2
  <2>5. call' \in [Handlers -> Calls] /\ HandlerHoldsTask'
    <3>1. CASE Goto(h, "mkdir")
      BY <2>2, <3>1, CallRecords DEF At, Goto
    <3>2. CASE Finish(h)
      BY <3>2, CallRecords DEF Finish
    <3> QED
      BY <2>2, <3>1, <3>2
  <2> QED
    BY <2>2, <2>3, <2>4, <2>5 DEF serviceVars, runnerVars, boundVars
<1>5. ASSUME NEW h \in Handlers, SubmitMkdir(h) PROVE TInv'
  <2>1. call[h].task \in Tasks
    BY <1>5 DEF SubmitMkdir, At
  <2>2. CASE Goto(h, "put") /\ UNCHANGED status /\ taskDir' = [taskDir EXCEPT ![call[h].task] = TRUE]
    BY <1>5, <2>1, <2>2, CallRecords DEF SubmitMkdir, Goto, serviceVars, runnerVars, boundVars
  <2>3. CASE Finish(h) /\ UNCHANGED taskDir /\ status' = [status EXCEPT ![call[h].task] = "FAILED"]
    BY <1>5, <2>1, <2>3, CallRecords DEF SubmitMkdir, Finish, serviceVars, runnerVars, boundVars
  <2> QED
    BY <1>5, <2>2, <2>3 DEF SubmitMkdir
<1>6. ASSUME NEW h \in Handlers, SubmitPut(h) PROVE TInv'
  BY <1>6
     DEF SubmitPut, At, Finish, Idle, Calls, HandlerPcs, rowRest, tableVars, serviceVars,
         runnerVars, boundVars
<1>7. ASSUME NEW h \in Handlers, CancelFlag(h) PROVE TInv'
  <2>1. call[h].task \in Tasks
    BY <1>7 DEF CancelFlag, At
  <2>2. cancelRequested' \in [Tasks -> BOOLEAN]
    BY <1>7, <2>1 DEF CancelFlag
  <2>3. call' \in [Handlers -> Calls] /\ HandlerHoldsTask'
    BY <1>7, <2>1, CallRecords DEF CancelFlag, Goto
  <2> QED
    BY <1>7, <2>2, <2>3 DEF CancelFlag, serviceVars, runnerVars, boundVars
<1>8. ASSUME NEW h \in Handlers, CancelApply(h) PROVE TInv'
  <2>1. call[h].task \in Tasks
    BY <1>8 DEF CancelApply, At
  <2>2. status' \in [Tasks -> Statuses]
    BY <1>8 DEF CancelApply
  <2>3. CASE Goto(h, "mark")
    BY <1>8, <2>1, <2>2, <2>3, CallRecords
       DEF CancelApply, Goto, rowRest, serviceVars, runnerVars, boundVars
  <2>4. CASE Finish(h)
    BY <1>8, <2>2, <2>4, CallRecords
       DEF CancelApply, Finish, rowRest, serviceVars, runnerVars, boundVars
  <2> QED
    BY <1>8, <2>3, <2>4 DEF CancelApply
<1>9. ASSUME NEW h \in Handlers, CancelMark(h) PROVE TInv'
  <2>1. call[h].task \in Tasks
    BY <1>9 DEF CancelMark, At
  <2>2. status' \in [Tasks -> Statuses]
    BY <1>9, <2>1 DEF CancelMark
  <2>3. call' \in [Handlers -> Calls] /\ HandlerHoldsTask'
    BY <1>9, <2>1, CallRecords DEF CancelMark, Goto
  <2> QED
    BY <1>9, <2>2, <2>3 DEF CancelMark, rowRest, serviceVars, runnerVars, boundVars
<1>10. ASSUME NEW h \in Handlers, CancelKill(h) PROVE TInv'
  BY <1>10
     DEF CancelKill, At, Finish, Idle, Calls, HandlerPcs, rowRest, tableVars, serviceVars,
         boundVars, KillActive
<1>11. ASSUME NEW h \in Handlers, ResumeUpdate(h) PROVE TInv'
  <2>1. call[h].task \in Tasks /\ call[h] \in Calls
    BY <1>11 DEF ResumeUpdate, At
  <2>2. /\ resumeToken' \in [Tasks -> Tokens \cup {NoToken}]
        /\ cancelRequested' \in [Tasks -> BOOLEAN]
        /\ status' \in [Tasks -> Statuses]
        /\ hasResult' \in [Tasks -> BOOLEAN]
    <3>1. call[h].token \in Tokens \cup {NoToken}
      BY <2>1 DEF Calls
    <3>2. resumeToken' = [resumeToken EXCEPT ![call[h].task] = call[h].token]
      BY <1>11 DEF ResumeUpdate
    <3>3. resumeToken' \in [Tasks -> Tokens \cup {NoToken}]
      BY <3>1, <3>2
    <3>4. cancelRequested' \in [Tasks -> BOOLEAN]
      BY <1>11 DEF ResumeUpdate
    <3>5. status' \in [Tasks -> Statuses]
      BY <1>11 DEF ResumeUpdate
    <3>6. hasResult' \in [Tasks -> BOOLEAN]
      BY <1>11 DEF ResumeUpdate
    <3> QED
      BY <3>3, <3>4, <3>5, <3>6
  <2>3. CASE Goto(h, "enqueue") /\ UNCHANGED lock
    BY <1>11, <2>1, <2>2, <2>3, CallRecords
       DEF ResumeUpdate, Goto, serviceVars, runnerVars, boundVars
  <2>4. CASE Finish(h) /\ lock' = NoHandler
    BY <1>11, <2>2, <2>4, CallRecords
       DEF ResumeUpdate, Finish, serviceVars, runnerVars, boundVars
  <2> QED
    BY <1>11, <2>3, <2>4 DEF ResumeUpdate
<1>12. ASSUME NEW h \in Handlers, ResumeEnqueue(h) PROVE TInv'
  BY <1>12
     DEF ResumeEnqueue, At, Finish, Idle, Calls, HandlerPcs, rowRest, tableVars, serviceVars,
         runnerVars, boundVars
<1>13. CASE Take
  BY <1>13 DEF Take, rowRest, tableVars, serviceVars, boundVars
<1>14. CASE StopPolling
  BY <1>14 DEF StopPolling, Goes, Step, RunnerOnly, rowRest, tableVars, serviceVars, boundVars
<1>15. CASE Fetch
  BY <1>15
     DEF Fetch, Release, ReleaseTo, Goes, Step, RunnerOnly, rowRest, tableVars, serviceVars,
         boundVars
<1>16. CASE Check
  BY <1>16 DEF Check, Goes, Step, RunnerOnly, rowRest, tableVars, serviceVars, boundVars
<1>17. CASE Skip
  BY <1>17 DEF Skip, Release, ReleaseTo, SetStatus, RunnerOnly, rowRest, serviceVars, boundVars
<1>18. CASE Start
  BY <1>18 DEF Start, Goes, SetStatus, Write, RunnerOnly, rowRest, serviceVars, boundVars
<1>19. CASE Prepare
  <2>1. CASE Write("CAPTURING", "attempt")
    BY <1>19, <2>1
       DEF Prepare, Goes, SetStatus, Write, RunnerOnly, rowRest, serviceVars, boundVars
  <2>2. CASE Step("fail")
    BY <1>19, <2>2
       DEF Prepare, Goes, Step, RunnerOnly, rowRest, tableVars, serviceVars, boundVars
  <2> QED
    BY <1>19, <2>1, <2>2 DEF Prepare
<1>20. CASE Attempt
  <2>1. status' \in [Tasks -> Statuses] /\ UNCHANGED rowRest
    BY <1>20 DEF Attempt, SetStatus, tableVars, rowRest
  <2> QED
    BY <1>20, <2>1 DEF Attempt, RunnerOnly, rowRest, serviceVars, boundVars
<1>21. CASE Launch
  BY <1>21
     DEF Launch, Interrupted, MayGoOn, Goes, Step, RunnerOnly, rowRest, tableVars, serviceVars,
         boundVars
<1>22. CASE Spawn
  BY <1>22 DEF Spawn, Goes, RunnerOnly, rowRest, tableVars, serviceVars, boundVars
<1>23. CASE KilledExit
  BY <1>23
     DEF KilledExit, Returns, AfterCommand, RunnerOnly, rowRest, tableVars, serviceVars, boundVars
<1>24. CASE WaitInterrupted
  BY <1>24
     DEF WaitInterrupted, Abandon, Goes, RunnerOnly, rowRest, tableVars, serviceVars, boundVars
<1>25. CASE Backoff
  BY <1>25
     DEF Backoff, Interrupted, MayGoOn, Goes, Step, RunnerOnly, rowRest, tableVars, serviceVars,
         boundVars
<1>26. CASE Analyze
  BY <1>26 DEF Analyze, SetStatus, RunnerOnly, rowRest, serviceVars, boundVars
<1>27. CASE Checkpoint
  BY <1>27 DEF Checkpoint, Goes, Step, RunnerOnly, rowRest, tableVars, serviceVars, boundVars
<1>28. CASE Validate
  BY <1>28 DEF Validate, Goes, SetStatus, Write, RunnerOnly, rowRest, serviceVars, boundVars
<1>29. CASE Publish
  BY <1>29
     DEF Publish, FinalWrite, Goes, Step, RunnerOnly, rowRest, tableVars, serviceVars, boundVars
<1>30. CASE Log
  BY <1>30
     DEF Log, Release, ReleaseTo, Goes, Step, RunnerOnly, rowRest, tableVars, serviceVars,
         boundVars
<1>31. CASE EndCanceled
  BY <1>31
     DEF EndCanceled, Release, ReleaseTo, ReleaseOrDie, SetStatus, RunnerOnly, rowRest,
         serviceVars, boundVars
<1>32. CASE EndFailed
  <2>1. cur \in Tasks
    BY <1>32 DEF EndFailed
  <2>2. /\ status' \in [Tasks -> Statuses]
        /\ hasResult' \in [Tasks -> BOOLEAN]
        /\ UNCHANGED <<cancelRequested, resumeToken, createdAt>>
    <3>1. PICK s \in Statuses, r \in BOOLEAN : FinalWrite(s, r)
      BY <1>32 DEF EndFailed
    <3> QED
      BY <3>1, <2>1 DEF FinalWrite
  <2>3. CASE Release /\ taskDir' = [taskDir EXCEPT ![cur] = TRUE]
    BY <1>32, <2>2, <2>3 DEF EndFailed, Release, ReleaseTo, RunnerOnly, serviceVars, boundVars
  <2>4. CASE ReleaseTo("dead") /\ UNCHANGED taskDir
    BY <1>32, <2>2, <2>4 DEF EndFailed, ReleaseTo, RunnerOnly, serviceVars, boundVars
  <2> QED
    BY <1>32, <2>3, <2>4 DEF EndFailed
<1>33. CASE EndPaused
  BY <1>33
     DEF EndPaused, Release, ReleaseTo, ReleaseOrDie, SetStatus, RunnerOnly, rowRest, serviceVars,
         boundVars
<1>34. CASE CommandExit
  BY <1>34
     DEF CommandExit, Returns, AfterCommand, RunnerOnly, rowRest, tableVars, serviceVars,
         boundVars
<1>35. CASE Stall
  BY <1>35
     DEF Stall, Returns, AfterCommand, RunnerOnly, rowRest, tableVars, serviceVars, boundVars
<1>36. CASE Drain
  BY <1>36 DEF Drain, SetStatus, RunnerOnly, rowRest, serviceVars, boundVars
<1>37. CASE Leftover
  BY <1>37 DEF Leftover, Abandon, Goes, RunnerOnly, rowRest, tableVars, serviceVars, boundVars
<1>38. CASE ShutdownBegin
  BY <1>38 DEF ShutdownBegin, rowRest, tableVars, runnerVars, boundVars
<1>39. CASE ShutdownKill
  BY <1>39 DEF ShutdownKill, KillActive, rowRest, tableVars, boundVars
<1>40. CASE Exit
  <2>1. call' \in [Handlers -> Calls] /\ HandlerHoldsTask'
    BY <1>40, CallRecords DEF Exit
  <2>2. UNCHANGED <<tableVars, calls>> /\ stops' \in 0..MaxStops
    BY <1>40 DEF Exit
  <2>3. pc' = "polling" /\ queue' = <<>> /\ cur' = NoTask
    BY <1>40 DEF Exit
  <2>4. queue' \in Seq(Tasks \cup {NoTask})
    BY <2>3
  <2>5. pc' \in RunnerPcs /\ RunnerHoldsTask'
    BY <2>3
  <2>6. /\ up' \in BOOLEAN /\ stopEvent' \in {"no", "set", "killed"}
        /\ lock' \in Handlers \cup {NoHandler}
        /\ active' \in Tasks \cup {NoTask} /\ cur' \in Tasks \cup {NoTask}
        /\ process' \in {"none", "running", "killed"}
        /\ cmd' \in {"capture", "drain", "analysis"}
    BY <1>40 DEF Exit
  <2>7. retries' \in 0..MaxCaptureRetries
    <3>1. retries' = 0
      BY <1>40 DEF Exit
    <3> QED
      BY <3>1
  <2> QED
    BY <2>1, <2>2, <2>4, <2>5, <2>6, <2>7 DEF tableVars, rowRest
<1>41. CASE Restart
  <2>1. status' \in [Tasks -> Statuses]
    BY <1>41 DEF Restart, Recovered
  <2> DEFINE S == {t \in Tasks : status'[t] = "QUEUED"}
  <2>2. PICK q \in [1..Cardinality(S) -> S] : queue' = q
    BY <1>41 DEF Restart
  <2>3. Cardinality(S) \in Nat
    BY TaskCount
  <2> DEFINE n == Cardinality(S)
  <2> HIDE DEF n
  <2>4. queue' \in [1..n -> Tasks \cup {NoTask}] /\ n \in Nat
    BY <2>2, <2>3 DEF n
  <2>5. queue' \in Seq(Tasks \cup {NoTask})
    BY <2>4
  <2> QED
    BY <1>41, <2>1, <2>5 DEF Restart, rowRest, runnerVars, boundVars
<1>42. CASE UNCHANGED vars
  BY <1>42 DEF vars, rowRest, tableVars, serviceVars, runnerVars, boundVars
<1> HIDE DEF TInv
<1> QED
  BY <1>1, <1>2, <1>3, <1>4, <1>5, <1>6, <1>7, <1>8, <1>9, <1>10, <1>11, <1>12, <1>13,
     <1>14, <1>15, <1>16, <1>17, <1>18, <1>19, <1>20, <1>21, <1>22, <1>23, <1>24, <1>25,
     <1>26, <1>27, <1>28, <1>29, <1>30, <1>31, <1>32, <1>33, <1>34, <1>35, <1>36, <1>37,
     <1>38, <1>39, <1>40, <1>41, <1>42
     DEF Next, Request, HandlerStep, RunnerStep, CommandStep

\* Which names are program points of a running task, and which statuses are
\* those of a task that runs.
LEMMA RunNames ==
    /\ \A p \in {"prepare", "attempt", "launch", "spawn", "wait", "backoff", "analyze",
                 "checkpoint", "validate", "publish", "cancel", "fail", "pause"} : p \in RunPcs
    /\ \A p \in {"polling", "exited", "dead", "fetch", "check", "skip", "start", "log"} :
           p \notin RunPcs
    /\ \A s \in {"FAILED", "CANCELED", "QUEUED", "CANCELING", "ABSENT"} \cup ManifestStatuses :
           s \notin RunningStatuses
    /\ \A s \in TerminalStatuses : s \notin RunningStatuses
  BY DEF RunPcs, RunningStatuses, ManifestStatuses, TerminalStatuses

\* The handlers and the consumer write disjoint parts of the state; a running
\* status is written by the consumer alone.
LEMMA RunningStep ==
    ASSUME TInv, RunningTaskHasRunner, [Next]_vars PROVE RunningTaskHasRunner'
<1> USE RunNames DEF RunningTaskHasRunner, TInv, TypeOK, RunnerHoldsTask
<1>1. ASSUME NEW h \in Handlers, NEW t \in Tasks, SubmitCheck(h, t) PROVE RunningTaskHasRunner'
  BY <1>1 DEF SubmitCheck, tableVars, serviceVars, runnerVars
<1>2. ASSUME NEW h \in Handlers, NEW t \in Tasks, CancelRead(h, t) PROVE RunningTaskHasRunner'
  BY <1>2 DEF CancelRead, tableVars, serviceVars, runnerVars
<1>3. ASSUME NEW h \in Handlers, NEW t \in Tasks, NEW k \in Tokens, ResumeSelect(h, t, k)
     PROVE  RunningTaskHasRunner'
  BY <1>3 DEF ResumeSelect, tableVars, serviceVars, runnerVars
<1>4. ASSUME NEW h \in Handlers, SubmitCreate(h) PROVE RunningTaskHasRunner'
  BY <1>4 DEF SubmitCreate, serviceVars, runnerVars
<1>5. ASSUME NEW h \in Handlers, SubmitMkdir(h) PROVE RunningTaskHasRunner'
  BY <1>5 DEF SubmitMkdir, serviceVars, runnerVars
<1>6. ASSUME NEW h \in Handlers, SubmitPut(h) PROVE RunningTaskHasRunner'
  BY <1>6 DEF SubmitPut, tableVars, rowRest, serviceVars, runnerVars
<1>7. ASSUME NEW h \in Handlers, CancelFlag(h) PROVE RunningTaskHasRunner'
  BY <1>7 DEF CancelFlag, serviceVars, runnerVars
<1>8. ASSUME NEW h \in Handlers, CancelApply(h) PROVE RunningTaskHasRunner'
  BY <1>8 DEF CancelApply, rowRest, serviceVars, runnerVars
<1>9. ASSUME NEW h \in Handlers, CancelMark(h) PROVE RunningTaskHasRunner'
  BY <1>9 DEF CancelMark, rowRest, serviceVars, runnerVars
<1>10. ASSUME NEW h \in Handlers, CancelKill(h) PROVE RunningTaskHasRunner'
  BY <1>10 DEF CancelKill, tableVars, rowRest, serviceVars
<1>11. ASSUME NEW h \in Handlers, ResumeUpdate(h) PROVE RunningTaskHasRunner'
  BY <1>11 DEF ResumeUpdate, serviceVars, runnerVars
<1>12. ASSUME NEW h \in Handlers, ResumeEnqueue(h) PROVE RunningTaskHasRunner'
  BY <1>12 DEF ResumeEnqueue, tableVars, rowRest, serviceVars, runnerVars
<1>13. CASE Take
  BY <1>13 DEF Take, tableVars, serviceVars
<1>14. CASE StopPolling
  BY <1>14 DEF StopPolling, Goes, Step, RunnerOnly, tableVars, serviceVars
<1>15. CASE Fetch
  BY <1>15 DEF Fetch, Release, ReleaseTo, Goes, Step, RunnerOnly, tableVars, serviceVars
<1>16. CASE Check
  BY <1>16 DEF Check, Goes, Step, RunnerOnly, tableVars, serviceVars
<1>17. CASE Skip
  BY <1>17 DEF Skip, Release, ReleaseTo, SetStatus, RunnerOnly, serviceVars
<1>18. CASE Start
  BY <1>18 DEF Start, Goes, SetStatus, Write, RunnerOnly, serviceVars
<1>19. CASE Prepare
  BY <1>19 DEF Prepare, Goes, Step, SetStatus, Write, RunnerOnly, tableVars, serviceVars
<1>20. CASE Attempt
  BY <1>20 DEF Attempt, SetStatus, RunnerOnly, tableVars, serviceVars
<1>21. CASE Launch
  BY <1>21 DEF Launch, Interrupted, MayGoOn, Goes, Step, RunnerOnly, tableVars, serviceVars
<1>22. CASE Spawn
  BY <1>22 DEF Spawn, Goes, RunnerOnly, tableVars, serviceVars
<1>23. CASE KilledExit
  BY <1>23 DEF KilledExit, Returns, AfterCommand, RunnerOnly, tableVars, serviceVars
<1>24. CASE WaitInterrupted
  BY <1>24 DEF WaitInterrupted, Abandon, Goes, RunnerOnly, tableVars, serviceVars
<1>25. CASE Backoff
  BY <1>25 DEF Backoff, Interrupted, MayGoOn, Goes, Step, RunnerOnly, tableVars, serviceVars
<1>26. CASE Analyze
  BY <1>26 DEF Analyze, SetStatus, RunnerOnly, serviceVars
<1>27. CASE Checkpoint
  BY <1>27 DEF Checkpoint, Goes, Step, RunnerOnly, tableVars, serviceVars
<1>28. CASE Validate
  BY <1>28 DEF Validate, Goes, SetStatus, Write, RunnerOnly, serviceVars
<1>29. CASE Publish
  BY <1>29 DEF Publish, FinalWrite, Goes, Step, RunnerOnly, tableVars, serviceVars
<1>30. CASE Log
  BY <1>30 DEF Log, Release, ReleaseTo, Goes, Step, RunnerOnly, tableVars, serviceVars
<1>31. CASE EndCanceled
  BY <1>31 DEF EndCanceled, Release, ReleaseTo, ReleaseOrDie, SetStatus, RunnerOnly, serviceVars
<1>32. CASE EndFailed
  BY <1>32 DEF EndFailed, Release, ReleaseTo, FinalWrite, RunnerOnly, serviceVars
<1>33. CASE EndPaused
  BY <1>33 DEF EndPaused, Release, ReleaseTo, ReleaseOrDie, SetStatus, RunnerOnly, serviceVars
<1>34. CASE CommandExit
  BY <1>34 DEF CommandExit, Returns, AfterCommand, RunnerOnly, tableVars, serviceVars
<1>35. CASE Stall
  BY <1>35 DEF Stall, Returns, AfterCommand, RunnerOnly, tableVars, serviceVars
<1>36. CASE Drain
  BY <1>36 DEF Drain, SetStatus, RunnerOnly, serviceVars
<1>37. CASE Leftover
  BY <1>37 DEF Leftover, Abandon, Goes, RunnerOnly, tableVars, serviceVars
<1>38. CASE ShutdownBegin
  BY <1>38 DEF ShutdownBegin, tableVars, runnerVars
<1>39. CASE ShutdownKill
  BY <1>39 DEF ShutdownKill, tableVars
<1>40. CASE Exit
  BY <1>40 DEF Exit
<1>41. CASE Restart
  BY <1>41 DEF Restart, Recovered, ActiveStatuses
<1>42. CASE UNCHANGED vars
  BY <1>42 DEF vars, tableVars, serviceVars, runnerVars
<1> QED
  BY <1>1, <1>2, <1>3, <1>4, <1>5, <1>6, <1>7, <1>8, <1>9, <1>10, <1>11, <1>12, <1>13, <1>14,
     <1>15, <1>16, <1>17, <1>18, <1>19, <1>20, <1>21, <1>22, <1>23, <1>24, <1>25, <1>26, <1>27,
     <1>28, <1>29, <1>30, <1>31, <1>32, <1>33, <1>34, <1>35, <1>36, <1>37, <1>38, <1>39, <1>40,
     <1>41, <1>42
     DEF Next, Request, HandlerStep, RunnerStep, CommandStep

\* A step of the consumer alone keeps every queued task accounted for when it
\* makes no task QUEUED in a serving Worker and drops none from its hands.
LEMMA ConsumerKeepsQueued ==
    ASSUME NoQueuedTaskLost, RunnerOnly,
           \A t \in Tasks : status'[t] = "QUEUED" /\ stopEvent = "no" =>
               status[t] = "QUEUED" /\ (TakenUp(t) => TakenUp(t)')
    PROVE  NoQueuedTaskLost'
  BY DEF NoQueuedTaskLost, RunnerOnly, serviceVars, InQueue, PutPending

\* A step of one handler does when what it makes QUEUED is pending or queued.
LEMMA HandlerKeepsQueued ==
    ASSUME NoQueuedTaskLost, NEW h \in Handlers,
           UNCHANGED <<serviceVars, pc, cur>>,
           call \in [Handlers -> Calls],
           \E c \in Calls : call' = [call EXCEPT ![h] = c],
           \A t \in Tasks : InQueue(t) => InQueue(t)',
           \A t \in Tasks : status'[t] = "QUEUED" =>
               \/ /\ status[t] = "QUEUED"
                  /\ ~(call[h].task = t /\ call[h].pc \in {"mkdir", "put", "enqueue"})
               \/ InQueue(t)'
               \/ call'[h].task = t /\ call'[h].pc \in {"mkdir", "put", "enqueue"}
    PROVE  NoQueuedTaskLost'
<1> SUFFICES ASSUME up, stopEvent = "no", NEW t \in Tasks, status'[t] = "QUEUED",
                    ~InQueue(t)', ~TakenUp(t)
             PROVE  PutPending(t)'
  BY DEF NoQueuedTaskLost, serviceVars, runnerVars, TakenUp
<1>1. CASE call'[h].task = t /\ call'[h].pc \in {"mkdir", "put", "enqueue"}
  BY <1>1 DEF PutPending
<1>2. CASE /\ status[t] = "QUEUED"
           /\ ~(call[h].task = t /\ call[h].pc \in {"mkdir", "put", "enqueue"})
  <2>1. PICK g \in Handlers : call[g].task = t /\ call[g].pc \in {"mkdir", "put", "enqueue"}
    BY <1>2 DEF NoQueuedTaskLost, PutPending
  <2>2. g # h /\ call'[g] = call[g]
    BY <2>1, <1>2
  <2> QED
    BY <2>1, <2>2 DEF PutPending
<1> QED
  BY <1>1, <1>2

\* put adds a task to the queue and removes none.
LEMMA AppendKeeps ==
    ASSUME queue \in Seq(Tasks \cup {NoTask}), NEW e \in Tasks \cup {NoTask},
           queue' = Append(queue, e)
    PROVE  /\ \A t \in Tasks : InQueue(t) => InQueue(t)'
           /\ InQueue(e)'
<1>1. /\ Len(queue) \in Nat /\ Len(queue') = Len(queue) + 1
      /\ queue'[Len(queue) + 1] = e
      /\ \A i \in 1..Len(queue) : queue'[i] = queue[i]
  OBVIOUS
<1> QED
  BY <1>1 DEF InQueue

\* get removes the head alone.
LEMMA TailKeeps ==
    ASSUME queue \in Seq(Tasks \cup {NoTask}), queue # <<>>, queue' = Tail(queue),
           NEW t, InQueue(t), t # Head(queue)
    PROVE  InQueue(t)'
<1>1. PICK i \in 1..Len(queue) : queue[i] = t
  BY DEF InQueue
<1>2. /\ i # 1 /\ i - 1 \in 1..Len(queue')
      /\ queue'[i - 1] = queue[i]
  BY <1>1
<1> QED
  BY <1>1, <1>2 DEF InQueue

\* Every step keeps every queued task accounted for.
LEMMA QueuedStep ==
    ASSUME TInv, PauseMeansStop, NoQueuedTaskLost, [Next]_vars PROVE NoQueuedTaskLost'
<1> USE DEF TInv, TypeOK, RunnerHoldsTask, HandlerHoldsTask
<1>1. ASSUME NEW h \in Handlers, NEW t \in Tasks, SubmitCheck(h, t)
     PROVE  NoQueuedTaskLost'
  <2>1. [pc |-> "create", task |-> t, seen |-> status[t], token |-> NoToken] \in Calls
    BY DEF Calls, HandlerPcs
  <2>2. \A u \in Tasks : InQueue(u) => InQueue(u)'
    BY <1>1 DEF SubmitCheck, InQueue
  <2> QED
    BY <1>1, <2>1, <2>2, HandlerKeepsQueued
       DEF SubmitCheck, Accept, At, tableVars, rowRest, runnerVars
<1>2. ASSUME NEW h \in Handlers, NEW t \in Tasks, CancelRead(h, t)
     PROVE  NoQueuedTaskLost'
  <2>1. [pc |-> "flag", task |-> t, seen |-> status[t], token |-> NoToken] \in Calls
    BY DEF Calls, HandlerPcs
  <2>2. \A u \in Tasks : InQueue(u) => InQueue(u)'
    BY <1>2 DEF CancelRead, InQueue
  <2> QED
    BY <1>2, <2>1, <2>2, HandlerKeepsQueued
       DEF CancelRead, Accept, At, tableVars, rowRest, runnerVars
<1>3. ASSUME NEW h \in Handlers, NEW t \in Tasks, NEW k \in Tokens, ResumeSelect(h, t, k)
     PROVE  NoQueuedTaskLost'
  <2>1. [pc |-> "update", task |-> t, seen |-> status[t], token |-> k] \in Calls
    BY DEF Calls, HandlerPcs
  <2>2. \A u \in Tasks : InQueue(u) => InQueue(u)'
    BY <1>3 DEF ResumeSelect, InQueue
  <2> QED
    BY <1>3, <2>1, <2>2, HandlerKeepsQueued
       DEF ResumeSelect, Accept, At, tableVars, rowRest, runnerVars
<1>4. ASSUME NEW h \in Handlers, SubmitCreate(h) PROVE NoQueuedTaskLost'
  <2>1. \E c \in Calls : call' = [call EXCEPT ![h] = c]
    BY <1>4, CallRecords DEF SubmitCreate, Goto, Finish
  <2>2. \A u \in Tasks : InQueue(u) => InQueue(u)'
    BY <1>4 DEF SubmitCreate, InQueue
  <2>3. \A u \in Tasks : status'[u] = "QUEUED" =>
            \/ /\ status[u] = "QUEUED"
               /\ ~(call[h].task = u /\ call[h].pc \in {"mkdir", "put", "enqueue"})
            \/ call'[h].task = u /\ call'[h].pc \in {"mkdir", "put", "enqueue"}
    <3>1. CASE Goto(h, "mkdir")
      <4>1. /\ call'[h].task = call[h].task /\ call'[h].pc = "mkdir"
        BY <3>1, CallRecords DEF Goto
      <4> QED
        BY <1>4, <4>1 DEF SubmitCreate, At
    <3>2. CASE ~Goto(h, "mkdir")
      BY <1>4, <3>2 DEF SubmitCreate, At
    <3> QED
      BY <3>1, <3>2
  <2> QED
    BY <1>4, <2>1, <2>2, <2>3, HandlerKeepsQueued DEF SubmitCreate, runnerVars
<1>5. ASSUME NEW h \in Handlers, SubmitMkdir(h) PROVE NoQueuedTaskLost'
  <2>1. \E c \in Calls : call' = [call EXCEPT ![h] = c]
    BY <1>5, CallRecords DEF SubmitMkdir, Goto, Finish
  <2>2. \A u \in Tasks : InQueue(u) => InQueue(u)'
    BY <1>5 DEF SubmitMkdir, InQueue
  <2>3. \A u \in Tasks : status'[u] = "QUEUED" =>
            \/ /\ status[u] = "QUEUED"
               /\ ~(call[h].task = u /\ call[h].pc \in {"mkdir", "put", "enqueue"})
            \/ call'[h].task = u /\ call'[h].pc \in {"mkdir", "put", "enqueue"}
    <3>1. CASE Goto(h, "put")
      <4>1. /\ call'[h].task = call[h].task /\ call'[h].pc = "put"
        BY <3>1, CallRecords DEF Goto
      <4> QED
        BY <1>5, <4>1 DEF SubmitMkdir, At
    <3>2. CASE ~Goto(h, "put")
      BY <1>5, <3>2 DEF SubmitMkdir, At
    <3> QED
      BY <3>1, <3>2
  <2> QED
    BY <1>5, <2>1, <2>2, <2>3, HandlerKeepsQueued DEF SubmitMkdir, runnerVars
<1>6. ASSUME NEW h \in Handlers, SubmitPut(h) PROVE NoQueuedTaskLost'
  <2>1. \E c \in Calls : call' = [call EXCEPT ![h] = c]
    BY <1>6, CallRecords DEF SubmitPut, Goto, Finish
  <2>2. PICK e \in Tasks : e = call[h].task
    BY <1>6 DEF SubmitPut, At
  <2>3. /\ \A u \in Tasks : InQueue(u) => InQueue(u)'
        /\ InQueue(e)'
    BY <1>6, <2>2, AppendKeeps DEF SubmitPut
  <2> QED
    BY <1>6, <2>1, <2>2, <2>3, HandlerKeepsQueued DEF SubmitPut, At, tableVars, runnerVars
<1>7. ASSUME NEW h \in Handlers, CancelFlag(h) PROVE NoQueuedTaskLost'
  <2>1. \E c \in Calls : call' = [call EXCEPT ![h] = c]
    BY <1>7, CallRecords DEF CancelFlag, Goto, Finish
  <2>2. \A u \in Tasks : InQueue(u) => InQueue(u)'
    BY <1>7 DEF CancelFlag, InQueue
  <2>3. \A u \in Tasks : status'[u] = "QUEUED" =>
            \/ /\ status[u] = "QUEUED"
               /\ ~(call[h].task = u /\ call[h].pc \in {"mkdir", "put", "enqueue"})
            \/ call'[h].task = u /\ call'[h].pc \in {"mkdir", "put", "enqueue"}
    BY <1>7, CallRecords DEF CancelFlag, At, Goto, Finish, tableVars
  <2> QED
    BY <1>7, <2>1, <2>2, <2>3, HandlerKeepsQueued DEF CancelFlag, runnerVars
<1>8. ASSUME NEW h \in Handlers, CancelApply(h) PROVE NoQueuedTaskLost'
  <2>1. \E c \in Calls : call' = [call EXCEPT ![h] = c]
    BY <1>8, CallRecords DEF CancelApply, Goto, Finish
  <2>2. \A u \in Tasks : InQueue(u) => InQueue(u)'
    BY <1>8 DEF CancelApply, InQueue
  <2>3. \A u \in Tasks : status'[u] = "QUEUED" =>
            \/ /\ status[u] = "QUEUED"
               /\ ~(call[h].task = u /\ call[h].pc \in {"mkdir", "put", "enqueue"})
            \/ call'[h].task = u /\ call'[h].pc \in {"mkdir", "put", "enqueue"}
    BY <1>8, CallRecords DEF CancelApply, At, Goto, Finish, tableVars
  <2> QED
    BY <1>8, <2>1, <2>2, <2>3, HandlerKeepsQueued DEF CancelApply, runnerVars
<1>9. ASSUME NEW h \in Handlers, CancelMark(h) PROVE NoQueuedTaskLost'
  <2>1. \E c \in Calls : call' = [call EXCEPT ![h] = c]
    BY <1>9, CallRecords DEF CancelMark, Goto, Finish
  <2>2. \A u \in Tasks : InQueue(u) => InQueue(u)'
    BY <1>9 DEF CancelMark, InQueue
  <2>3. \A u \in Tasks : status'[u] = "QUEUED" =>
            \/ /\ status[u] = "QUEUED"
               /\ ~(call[h].task = u /\ call[h].pc \in {"mkdir", "put", "enqueue"})
            \/ call'[h].task = u /\ call'[h].pc \in {"mkdir", "put", "enqueue"}
    BY <1>9, CallRecords DEF CancelMark, At, Goto, Finish, tableVars
  <2> QED
    BY <1>9, <2>1, <2>2, <2>3, HandlerKeepsQueued DEF CancelMark, runnerVars
<1>10. ASSUME NEW h \in Handlers, CancelKill(h) PROVE NoQueuedTaskLost'
  <2>1. \E c \in Calls : call' = [call EXCEPT ![h] = c]
    BY <1>10, CallRecords DEF CancelKill, Goto, Finish
  <2>2. \A u \in Tasks : InQueue(u) => InQueue(u)'
    BY <1>10 DEF CancelKill, InQueue
  <2>3. \A u \in Tasks : status'[u] = "QUEUED" =>
            \/ /\ status[u] = "QUEUED"
               /\ ~(call[h].task = u /\ call[h].pc \in {"mkdir", "put", "enqueue"})
            \/ call'[h].task = u /\ call'[h].pc \in {"mkdir", "put", "enqueue"}
    BY <1>10, CallRecords DEF CancelKill, At, Goto, Finish, tableVars
  <2> QED
    BY <1>10, <2>1, <2>2, <2>3, HandlerKeepsQueued DEF CancelKill, runnerVars
<1>11. ASSUME NEW h \in Handlers, ResumeUpdate(h) PROVE NoQueuedTaskLost'
  <2>1. \E c \in Calls : call' = [call EXCEPT ![h] = c]
    BY <1>11, CallRecords DEF ResumeUpdate, Goto, Finish
  <2>2. \A u \in Tasks : InQueue(u) => InQueue(u)'
    BY <1>11 DEF ResumeUpdate, InQueue
  <2>3. \A u \in Tasks : status'[u] = "QUEUED" =>
            \/ /\ status[u] = "QUEUED"
               /\ ~(call[h].task = u /\ call[h].pc \in {"mkdir", "put", "enqueue"})
            \/ call'[h].task = u /\ call'[h].pc \in {"mkdir", "put", "enqueue"}
    <3>1. CASE Goto(h, "enqueue")
      <4>1. /\ call'[h].task = call[h].task /\ call'[h].pc = "enqueue"
        BY <3>1, CallRecords DEF Goto
      <4> QED
        BY <1>11, <4>1 DEF ResumeUpdate, At
    <3>2. CASE ~Goto(h, "enqueue")
      BY <1>11, <3>2 DEF ResumeUpdate, At
    <3> QED
      BY <3>1, <3>2
  <2> QED
    BY <1>11, <2>1, <2>2, <2>3, HandlerKeepsQueued DEF ResumeUpdate, runnerVars
<1>12. ASSUME NEW h \in Handlers, ResumeEnqueue(h) PROVE NoQueuedTaskLost'
  <2>1. \E c \in Calls : call' = [call EXCEPT ![h] = c]
    BY <1>12, CallRecords DEF ResumeEnqueue, Goto, Finish
  <2>2. PICK e \in Tasks : e = call[h].task
    BY <1>12 DEF ResumeEnqueue, At
  <2>3. /\ \A u \in Tasks : InQueue(u) => InQueue(u)'
        /\ InQueue(e)'
    BY <1>12, <2>2, AppendKeeps DEF ResumeEnqueue
  <2> QED
    BY <1>12, <2>1, <2>2, <2>3, HandlerKeepsQueued DEF ResumeEnqueue, At, tableVars, runnerVars
<1>13. CASE Take
  <2> SUFFICES ASSUME up, stopEvent = "no", NEW t \in Tasks, status[t] = "QUEUED",
                      ~InQueue(t)', ~PutPending(t)
               PROVE  TakenUp(t)'
    BY <1>13 DEF Take, NoQueuedTaskLost, PutPending, serviceVars, tableVars
  <2>1. InQueue(t)
    BY <1>13 DEF Take, NoQueuedTaskLost, TakenUp
  <2>2. t = Head(queue)
    BY <1>13, <2>1, TailKeeps DEF Take
  <2> QED
    BY <1>13, <2>2, ConstantsAssumption DEF Take, TakenUp
<1>14. CASE StopPolling
  BY <1>14, ConsumerKeepsQueued DEF StopPolling, Goes, Step, RunnerOnly, tableVars, TakenUp
<1>15. CASE Fetch
  BY <1>15, ConsumerKeepsQueued
     DEF Fetch, Release, ReleaseTo, Goes, Step, RunnerOnly, tableVars, TakenUp, TerminalStatuses
<1>16. CASE Check
  BY <1>16, ConsumerKeepsQueued DEF Check, Goes, Step, RunnerOnly, tableVars, TakenUp
<1>17. CASE Skip
  BY <1>17, ConsumerKeepsQueued DEF Skip, Release, ReleaseTo, SetStatus, RunnerOnly, TakenUp
<1>18. CASE Start
  BY <1>18, ConsumerKeepsQueued DEF Start, Goes, SetStatus, Write, RunnerOnly, TakenUp
<1>19. CASE Prepare
  BY <1>19, ConsumerKeepsQueued
     DEF Prepare, Goes, Step, SetStatus, Write, RunnerOnly, tableVars, TakenUp
<1>20. CASE Attempt
  BY <1>20, ConsumerKeepsQueued DEF Attempt, SetStatus, RunnerOnly, tableVars, TakenUp
<1>21. CASE Launch
  BY <1>21, ConsumerKeepsQueued
     DEF Launch, Interrupted, MayGoOn, Goes, Step, RunnerOnly, tableVars, TakenUp
<1>22. CASE Spawn
  BY <1>22, ConsumerKeepsQueued DEF Spawn, Goes, RunnerOnly, tableVars, TakenUp
<1>23. CASE KilledExit
  BY <1>23, ConsumerKeepsQueued
     DEF KilledExit, Returns, AfterCommand, RunnerOnly, tableVars, TakenUp
<1>24. CASE WaitInterrupted
  BY <1>24, ConsumerKeepsQueued DEF WaitInterrupted, Abandon, Goes, RunnerOnly, tableVars, TakenUp
<1>25. CASE Backoff
  BY <1>25, ConsumerKeepsQueued
     DEF Backoff, Interrupted, MayGoOn, Goes, Step, RunnerOnly, tableVars, TakenUp
<1>26. CASE Analyze
  BY <1>26, ConsumerKeepsQueued DEF Analyze, SetStatus, RunnerOnly, TakenUp
<1>27. CASE Checkpoint
  BY <1>27, ConsumerKeepsQueued DEF Checkpoint, Goes, Step, RunnerOnly, tableVars, TakenUp
<1>28. CASE Validate
  BY <1>28, ConsumerKeepsQueued DEF Validate, Goes, SetStatus, Write, RunnerOnly, TakenUp
<1>29. CASE Publish
  BY <1>29, ConsumerKeepsQueued
     DEF Publish, FinalWrite, Goes, Step, RunnerOnly, tableVars, TakenUp, ManifestStatuses
<1>30. CASE Log
  BY <1>30, ConsumerKeepsQueued
     DEF Log, Release, ReleaseTo, Goes, Step, RunnerOnly, tableVars, TakenUp
<1>31. CASE EndCanceled
  BY <1>31, ConsumerKeepsQueued
     DEF EndCanceled, Release, ReleaseTo, ReleaseOrDie, SetStatus, RunnerOnly, TakenUp
<1>32. CASE EndFailed
  BY <1>32, ConsumerKeepsQueued
     DEF EndFailed, Release, ReleaseTo, FinalWrite, RunnerOnly, TakenUp, ManifestStatuses
<1>33. CASE EndPaused
  BY <1>33, ConsumerKeepsQueued
     DEF EndPaused, Release, ReleaseTo, ReleaseOrDie, SetStatus, RunnerOnly, TakenUp,
         PauseMeansStop
<1>34. CASE CommandExit
  BY <1>34, ConsumerKeepsQueued
     DEF CommandExit, Returns, AfterCommand, RunnerOnly, tableVars, TakenUp
<1>35. CASE Stall
  BY <1>35, ConsumerKeepsQueued DEF Stall, Returns, AfterCommand, RunnerOnly, tableVars, TakenUp
<1>36. CASE Drain
  BY <1>36, ConsumerKeepsQueued DEF Drain, SetStatus, RunnerOnly, TakenUp
<1>37. CASE Leftover
  BY <1>37, ConsumerKeepsQueued DEF Leftover, Abandon, Goes, RunnerOnly, tableVars, TakenUp
<1>38. CASE ShutdownBegin
  BY <1>38 DEF ShutdownBegin, NoQueuedTaskLost
<1>39. CASE ShutdownKill
  BY <1>39 DEF ShutdownKill, NoQueuedTaskLost
<1>40. CASE Exit
  BY <1>40 DEF Exit, NoQueuedTaskLost
<1>41. CASE Restart
  <2> DEFINE S == {t \in Tasks : status'[t] = "QUEUED"}
             n == Cardinality(S)
  <2>1. PICK q \in [1..n -> S] : CreationOrder(q, S) /\ queue' = q
    BY <1>41 DEF Restart
  <2>2. n \in Nat
    <3>1. S \in SUBSET Tasks
      OBVIOUS
    <3> QED
      BY <3>1, TaskCount
  <2> HIDE DEF n
  <2>3. Len(queue') = n
    BY <2>1, <2>2
  <2>4. \A t \in S : InQueue(t)'
    BY <2>1, <2>3 DEF CreationOrder, InQueue
  <2> QED
    BY <2>4 DEF NoQueuedTaskLost
<1>42. CASE UNCHANGED vars
  BY <1>42
     DEF vars, tableVars, serviceVars, runnerVars, NoQueuedTaskLost, InQueue, TakenUp, PutPending
<1> HIDE DEF TInv
<1> QED
  BY <1>1, <1>2, <1>3, <1>4, <1>5, <1>6, <1>7, <1>8, <1>9, <1>10, <1>11, <1>12, <1>13, <1>14,
     <1>15, <1>16, <1>17, <1>18, <1>19, <1>20, <1>21, <1>22, <1>23, <1>24, <1>25, <1>26, <1>27,
     <1>28, <1>29, <1>30, <1>31, <1>32, <1>33, <1>34, <1>35, <1>36, <1>37, <1>38, <1>39, <1>40,
     <1>41, <1>42
     DEF Next, Request, HandlerStep, RunnerStep, CommandStep

\* The consumer pauses a task only when the service stops.
LEMMA PauseStep == ASSUME PauseMeansStop, [Next]_vars PROVE PauseMeansStop'
<1> USE DEF PauseMeansStop
<1>1. ASSUME NEW h \in Handlers, Request(h) \/ HandlerStep(h) PROVE PauseMeansStop'
  BY <1>1
     DEF Request, HandlerStep, SubmitCheck, CancelRead, ResumeSelect, SubmitCreate, SubmitMkdir,
         SubmitPut, CancelFlag, CancelApply, CancelMark, CancelKill, ResumeUpdate, ResumeEnqueue,
         serviceVars, runnerVars
<1>2. CASE Take \/ StopPolling \/ Fetch \/ Check \/ Skip \/ Start \/ Prepare \/ Attempt
  BY <1>2
     DEF Take, StopPolling, Fetch, Check, Skip, Start, Prepare, Attempt, Release, ReleaseTo, Goes,
         Step, SetStatus, Write, RunnerOnly, serviceVars
<1>3. CASE Launch \/ Spawn \/ WaitInterrupted \/ Backoff \/ Analyze \/ Checkpoint \/ Validate \/
          Publish
  BY <1>3
     DEF Launch, Spawn, WaitInterrupted, Backoff, Analyze, Checkpoint, Validate, Publish,
         Interrupted, MayGoOn, Abandon, FinalWrite, Goes, Step, SetStatus, Write, RunnerOnly,
         serviceVars
<1>4. CASE KilledExit \/ CommandExit \/ Stall \/ Drain \/ Leftover \/ Log \/ EndCanceled \/
          EndFailed \/ EndPaused
  BY <1>4
     DEF KilledExit, CommandExit, Stall, Drain, Leftover, Log, EndCanceled, EndFailed, EndPaused,
         Returns, AfterCommand, Abandon, Release, ReleaseTo, ReleaseOrDie, FinalWrite, Goes, Step,
         SetStatus, RunnerOnly, serviceVars
<1>5. CASE ShutdownBegin \/ ShutdownKill \/ Exit \/ Restart \/ UNCHANGED vars
  BY <1>5 DEF ShutdownBegin, ShutdownKill, Exit, Restart, vars, serviceVars, runnerVars
<1> QED
  BY <1>1, <1>2, <1>3, <1>4, <1>5 DEF Next, RunnerStep, CommandStep

\* _submission_lock makes SELECT and UPDATE of one resume exclude those of any
\* other, so that the token is still a new one when it is written.
LEMMA LockStep ==
    ASSUME TInv, ResumeHoldsLock, ResumeTokenIsNew, [Next]_vars
    PROVE  ResumeHoldsLock' /\ ResumeTokenIsNew'
<1> USE DEF TInv, TypeOK, ResumeHoldsLock, ResumeTokenIsNew, At
<1>1. ASSUME NEW h \in Handlers, NEW t \in Tasks, SubmitCheck(h, t)
     PROVE  ResumeHoldsLock' /\ ResumeTokenIsNew'
  BY <1>1 DEF SubmitCheck, Accept, tableVars, rowRest
<1>2. ASSUME NEW h \in Handlers, NEW t \in Tasks, CancelRead(h, t)
     PROVE  ResumeHoldsLock' /\ ResumeTokenIsNew'
  BY <1>2 DEF CancelRead, Accept, tableVars, rowRest
<1>3. ASSUME NEW h \in Handlers, NEW t \in Tasks, NEW k \in Tokens, ResumeSelect(h, t, k)
     PROVE  ResumeHoldsLock' /\ ResumeTokenIsNew'
  BY <1>3, ConstantsAssumption DEF ResumeSelect, Accept, tableVars, rowRest
<1>4. ASSUME NEW h \in Handlers, SubmitCreate(h) PROVE ResumeHoldsLock' /\ ResumeTokenIsNew'
  <2>1. PICK c \in Calls : call' = [call EXCEPT ![h] = c] /\ c.pc \notin {"update", "enqueue"}
    <3>1. Goto(h, "mkdir") \/ Finish(h)
      BY <1>4 DEF SubmitCreate
    <3>2. "mkdir" \in HandlerPcs
      BY CallRecords
    <3> QED
      BY <3>1, <3>2, GotoRecord, FinishRecord
  <2> QED
    BY <1>4, <2>1 DEF SubmitCreate, tableVars, rowRest
<1>5. ASSUME NEW h \in Handlers, SubmitMkdir(h) PROVE ResumeHoldsLock' /\ ResumeTokenIsNew'
  <2>1. PICK c \in Calls : call' = [call EXCEPT ![h] = c] /\ c.pc \notin {"update", "enqueue"}
    <3>1. Goto(h, "put") \/ Finish(h)
      BY <1>5 DEF SubmitMkdir
    <3>2. "put" \in HandlerPcs
      BY CallRecords
    <3> QED
      BY <3>1, <3>2, GotoRecord, FinishRecord
  <2> QED
    BY <1>5, <2>1 DEF SubmitMkdir, tableVars, rowRest
<1>6. ASSUME NEW h \in Handlers, SubmitPut(h) PROVE ResumeHoldsLock' /\ ResumeTokenIsNew'
  BY <1>6 DEF SubmitPut, Finish, Idle, Calls, tableVars, rowRest
<1>7. ASSUME NEW h \in Handlers, CancelFlag(h) PROVE ResumeHoldsLock' /\ ResumeTokenIsNew'
  BY <1>7 DEF CancelFlag, Goto, Calls
<1>8. ASSUME NEW h \in Handlers, CancelApply(h) PROVE ResumeHoldsLock' /\ ResumeTokenIsNew'
  <2>1. PICK c \in Calls : call' = [call EXCEPT ![h] = c] /\ c.pc \notin {"update", "enqueue"}
    <3>1. Goto(h, "mark") \/ Finish(h)
      BY <1>8 DEF CancelApply
    <3>2. "mark" \in HandlerPcs
      BY CallRecords
    <3> QED
      BY <3>1, <3>2, GotoRecord, FinishRecord
  <2> QED
    BY <1>8, <2>1 DEF CancelApply, tableVars, rowRest
<1>9. ASSUME NEW h \in Handlers, CancelMark(h) PROVE ResumeHoldsLock' /\ ResumeTokenIsNew'
  BY <1>9 DEF CancelMark, Goto, Calls, rowRest
<1>10. ASSUME NEW h \in Handlers, CancelKill(h) PROVE ResumeHoldsLock' /\ ResumeTokenIsNew'
  BY <1>10 DEF CancelKill, Finish, Idle, Calls, tableVars, rowRest
<1>11. ASSUME NEW h \in Handlers, ResumeUpdate(h) PROVE ResumeHoldsLock' /\ ResumeTokenIsNew'
  <2>1. lock = h /\ (\A g \in Handlers : g # h => call[g].pc \notin {"update", "enqueue"})
    BY <1>11 DEF ResumeUpdate
  <2>2. PICK c \in Calls : call' = [call EXCEPT ![h] = c] /\ c.pc # "update"
    <3>1. Goto(h, "enqueue") \/ Finish(h)
      BY <1>11 DEF ResumeUpdate
    <3>2. "enqueue" \in HandlerPcs
      BY CallRecords
    <3> QED
      BY <3>1, <3>2, GotoRecord, FinishRecord
  <2>3. CASE lock' = lock
    BY <2>1, <2>2, <2>3
  <2>4. CASE c.pc = "idle"
    BY <2>1, <2>2, <2>4
  <2> QED
    BY <1>11, <2>2, <2>3, <2>4, CallRecords DEF ResumeUpdate, Finish
<1>12. ASSUME NEW h \in Handlers, ResumeEnqueue(h) PROVE ResumeHoldsLock' /\ ResumeTokenIsNew'
  BY <1>12 DEF ResumeEnqueue, Finish, Idle, Calls, tableVars, rowRest
<1>13. CASE UNCHANGED <<lock, call, resumeToken>>
  BY <1>13
<1>14. CASE Exit
  BY <1>14 DEF Exit, Idle
<1>15. CASE RunnerStep \/ CommandStep
  <2>1. UNCHANGED <<lock, call, resumeToken>>
    BY <1>15
       DEF RunnerStep, CommandStep, Take, StopPolling, Fetch, Check, Skip, Start, Prepare,
         Attempt, Launch, Spawn, KilledExit, WaitInterrupted, Backoff, Analyze, Checkpoint,
         Validate, Publish, Log, EndCanceled, EndFailed, EndPaused, CommandExit, Stall, Drain,
         Leftover, Release, ReleaseTo, ReleaseOrDie, Interrupted, MayGoOn, Returns, AfterCommand,
         Abandon, FinalWrite, Goes, Step, SetStatus, Write, RunnerOnly, tableVars, rowRest
  <2> QED
    BY <2>1, <1>13
<1>16. CASE ShutdownBegin \/ ShutdownKill \/ Restart \/ UNCHANGED vars
  <2>1. UNCHANGED <<lock, call, resumeToken>>
    BY <1>16 DEF ShutdownBegin, ShutdownKill, Restart, vars, tableVars, rowRest
  <2> QED
    BY <2>1, <1>13
<1> HIDE DEF TInv
<1> QED
  BY <1>1, <1>2, <1>3, <1>4, <1>5, <1>6, <1>7, <1>8, <1>9, <1>10, <1>11, <1>12, <1>13, <1>14,
     <1>15, <1>16
     DEF Next, Request, HandlerStep

\* Only a resume with a new token turns a finished task back into a queued one,
\* but for a consumer that pauses.
LEMMA TokenStep == ASSUME IInv, [Next]_vars PROVE RestartTakesNewToken
<1> USE DEF IInv, TypeOK, RestartTakesNewToken, TerminalStatuses
<1>1. ASSUME NEW h \in Handlers, Request(h) PROVE RestartTakesNewToken
  BY <1>1 DEF Request, SubmitCheck, CancelRead, ResumeSelect, tableVars
<1>2. ASSUME NEW h \in Handlers, ResumeUpdate(h) PROVE RestartTakesNewToken
  <2> SUFFICES ASSUME NEW t \in Tasks, status[t] \in TerminalStatuses, status'[t] = "QUEUED"
               PROVE  resumeToken'[t] # resumeToken[t]
    OBVIOUS
  <2>1. t = call[h].task
    BY <1>2 DEF ResumeUpdate
  <2>2. resumeToken'[t] = call[h].token
    BY <1>2, <2>1 DEF ResumeUpdate
  <2>3. resumeToken[t] # call[h].token
    BY <1>2, <2>1 DEF ResumeUpdate, ResumeTokenIsNew
  <2> QED
    BY <2>2, <2>3
<1>3. ASSUME NEW h \in Handlers, HandlerStep(h), ~ResumeUpdate(h) PROVE RestartTakesNewToken
  BY <1>3
     DEF HandlerStep, SubmitCreate, SubmitMkdir, SubmitPut, CancelFlag, CancelApply, CancelMark,
         CancelKill, ResumeEnqueue, tableVars
<1>4. CASE Take \/ StopPolling \/ Fetch \/ Check \/ Skip \/ Start \/ Prepare \/ Attempt
  BY <1>4
     DEF Take, StopPolling, Fetch, Check, Skip, Start, Prepare, Attempt, Step, SetStatus, Write,
         tableVars, ManifestStatuses
<1>5. CASE Launch \/ Spawn \/ WaitInterrupted \/ Backoff \/ Analyze \/ Checkpoint \/ Validate \/
          Publish
  BY <1>5
     DEF Launch, Spawn, WaitInterrupted, Backoff, Analyze, Checkpoint, Validate, Publish,
         Interrupted, MayGoOn, Abandon, FinalWrite, Step, SetStatus, Write, tableVars,
         ManifestStatuses
<1>6. CASE KilledExit \/ CommandExit \/ Stall \/ Drain \/ Leftover \/ Log \/ EndCanceled \/
          EndFailed \/ EndPaused
  BY <1>6
     DEF KilledExit, CommandExit, Stall, Drain, Leftover, Log, EndCanceled, EndFailed, EndPaused,
         Returns, Abandon, FinalWrite, Step, SetStatus, tableVars, ManifestStatuses
<1>7. CASE ShutdownBegin \/ ShutdownKill \/ Exit \/ Restart \/ UNCHANGED vars
  BY <1>7
     DEF ShutdownBegin, ShutdownKill, Exit, Restart, Recovered, ActiveStatuses, RunningStatuses,
         vars, tableVars
<1> QED
  BY <1>1, <1>2, <1>3, <1>4, <1>5, <1>6, <1>7 DEF Next, RunnerStep, CommandStep

\* IInv holds at the start and every step keeps it.
LEMMA IInvInit == Init => IInv
<1> USE DEF Init, IInv
<1>1. Init => TInv
  BY StatusNames, PcNames, ConstantsAssumption
     DEF TInv, TypeOK, RunnerHoldsTask, HandlerHoldsTask, HandlerPcs, Idle, Calls
<1>2. Init => PauseMeansStop /\ ResumeHoldsLock /\ ResumeTokenIsNew
  BY DEF PauseMeansStop, ResumeHoldsLock, ResumeTokenIsNew, At, Idle
<1>3. Init => NoQueuedTaskLost /\ RunningTaskHasRunner
  BY RunNames DEF NoQueuedTaskLost, RunningTaskHasRunner
<1> QED
  BY <1>1, <1>2, <1>3 DEF TInv

\* Every step keeps IInv.
LEMMA IInvStep == IInv /\ [Next]_vars => IInv'
  BY TypeStep, PauseStep, LockStep, QueuedStep, RunningStep DEF IInv, TInv

\* The type invariant of the Worker's table, queue and threads.
THEOREM TypeCorrect == Spec => []TypeOK
<1>1. IInv => TypeOK
  BY DEF IInv
<1> QED
  BY <1>1, IInvInit, IInvStep, PTL DEF Spec

\* No accepted task is lost: a row that says QUEUED is in the queue, in the
\* consumer's hands or about to be queued, whatever submit, cancel, resume,
\* shutdown, crash and recovery do (task_store.py and task_runner.py).
THEOREM QueuedTasksKept == Spec => []NoQueuedTaskLost
<1>1. IInv => NoQueuedTaskLost
  BY DEF IInv
<1> QED
  BY <1>1, IInvInit, IInvStep, PTL DEF Spec

\* The table shows no task as running that _run_task does not run.
THEOREM RunningTasksRun == Spec => []RunningTaskHasRunner
<1>1. IInv => RunningTaskHasRunner
  BY DEF IInv
<1> QED
  BY <1>1, IInvInit, IInvStep, PTL DEF Spec

\* A repeated resume call restarts a finished task once: resume_task.
THEOREM TokensRestartOnce == Spec => TokenRestartsOnce
<1>1. IInv /\ [Next]_vars => [RestartTakesNewToken]_vars
  BY TokenStep
<1> QED
  BY <1>1, IInvInit, IInvStep, PTL DEF Spec, TokenRestartsOnce
=============================================================================
