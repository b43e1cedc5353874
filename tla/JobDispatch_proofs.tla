-------------------------- MODULE JobDispatch_proofs --------------------------
(***************************************************************************)
(* Proofs about JobDispatch: no run of an earlier round is alive and the   *)
(* counter of the callbacks is right, an outcome agrees with the execution *)
(* rows, no experiment is lost or kept after its end, and the dispatcher   *)
(* implements JobLifecycle; for any jobs, machines and bounds.             *)
(***************************************************************************)
EXTENDS JobDispatch, FiniteSetTheorems, SequenceTheorems, TLAPS

\* The jobs of a sequence of futures, and of the entry queue; each one once.
JobsIn(p)   == {p[i].job : i \in DOMAIN p}
Distinct(p) == \A i, k \in DOMAIN p : p[i].job = p[k].job => i = k
Listed(q)   == {q[i] : i \in DOMAIN q}
Once(q)     == \A i, k \in DOMAIN q : q[i] = q[k] => i = k
-----------------------------------------------------------------------------
(* Sequences that lose an element or get one.                              *)

\* What RemoveAt leaves of a sequence.
LEMMA Removed ==
    ASSUME NEW S, NEW q \in Seq(S), NEW i \in DOMAIN q
    PROVE  /\ RemoveAt(q, i) \in Seq(S)
           /\ Len(RemoveAt(q, i)) = Len(q) - 1
           /\ \A k \in 1..(Len(q) - 1) : RemoveAt(q, i)[k] = IF k < i THEN q[k] ELSE q[k + 1]
<1> DEFINE a == SubSeq(q, 1, i - 1)
           b == SubSeq(q, i + 1, Len(q))
<1>1. a \in Seq(S) /\ Len(a) = i - 1 /\ \A k \in 1..(i - 1) : a[k] = q[k]
  BY LenProperties, SubSeqProperties
<1>2. b \in Seq(S) /\ Len(b) = Len(q) - i /\ \A k \in 1..(Len(q) - i) : b[k] = q[i + k]
  BY LenProperties, SubSeqProperties
<1>3. RemoveAt(q, i) = a \o b
  BY DEF RemoveAt
<1> HIDE DEF a, b
<1>4. a \o b \in Seq(S) /\ Len(a \o b) = Len(q) - 1
  BY <1>1, <1>2, ConcatProperties
<1>5. ASSUME NEW k \in 1..(Len(q) - 1)
      PROVE  (a \o b)[k] = IF k < i THEN q[k] ELSE q[k + 1]
  <2>0. k \in 1..(Len(a) + Len(b))
    BY <1>1, <1>2
  <2>1. (a \o b)[k] = IF k <= Len(a) THEN a[k] ELSE b[k - Len(a)]
    BY <2>0, <1>1, <1>2, ConcatProperties
  <2>2. CASE k < i
    BY <2>1, <2>2, <1>1
  <2>3. CASE ~(k < i)
    <3>1. k - (i - 1) \in 1..(Len(q) - i) /\ i + (k - (i - 1)) = k + 1
      BY <2>3
    <3>2. QED
      BY <2>1, <2>3, <1>1, <1>2, <3>1
  <2>4. QED
    BY <2>2, <2>3
<1>6. QED
  BY <1>3, <1>4, <1>5

\* One element less, and the others as they were.
Lacks(r, p, i) ==
    /\ Len(r) = Len(p) - 1
    /\ \A k \in 1..(Len(p) - 1) : r[k] = IF k < i THEN p[k] ELSE p[k + 1]

\* The tail, and a sequence without its i-th element.
LEMMA TailLacks ==
    ASSUME NEW S, NEW p \in Seq(S), p # <<>>
    PROVE  Tail(p) \in Seq(S) /\ Lacks(Tail(p), p, 1) /\ Head(p) = p[1] /\ 1 \in DOMAIN p
BY HeadTailProperties DEF Lacks

\* A pool that loses a future loses exactly its job.
LEMMA PoolLess ==
    ASSUME NEW S, NEW p \in Seq(S), NEW i \in DOMAIN p, NEW r \in Seq(S), Lacks(r, p, i), Distinct(p)
    PROVE  /\ Distinct(r)
           /\ JobsIn(r) = JobsIn(p) \ {p[i].job}
           /\ \A k \in DOMAIN r : \E l \in DOMAIN p : r[k] = p[l]
<1>1. \A k \in DOMAIN r : /\ r[k] = p[IF k < i THEN k ELSE k + 1]
                          /\ (IF k < i THEN k ELSE k + 1) \in DOMAIN p \ {i}
  BY DEF Lacks
<1>2. \A l \in DOMAIN p \ {i} : /\ p[l] = r[IF l < i THEN l ELSE l - 1]
                                /\ (IF l < i THEN l ELSE l - 1) \in DOMAIN r
  BY DEF Lacks
<1>3. JobsIn(r) \subseteq JobsIn(p) \ {p[i].job}
  BY <1>1 DEF JobsIn, Distinct
<1>4. JobsIn(p) \ {p[i].job} \subseteq JobsIn(r)
  BY <1>2 DEF JobsIn, Distinct
<1>5. Distinct(r)
  BY <1>1 DEF Distinct
<1>6. QED
  BY <1>1, <1>3, <1>4, <1>5

\* A pool that gets a future of a job it does not have.
LEMMA PoolMore ==
    ASSUME NEW S, NEW p \in Seq(S), NEW e \in S, Distinct(p), e.job \notin JobsIn(p)
    PROVE  /\ Append(p, e) \in Seq(S)
           /\ Distinct(Append(p, e))
           /\ JobsIn(Append(p, e)) = JobsIn(p) \cup {e.job}
           /\ \A k \in DOMAIN Append(p, e) :
                 Append(p, e)[k] = e \/ \E l \in DOMAIN p : Append(p, e)[k] = p[l]
<1> DEFINE r == Append(p, e)
<1>1. r \in Seq(S) /\ DOMAIN r = DOMAIN p \cup {Len(p) + 1}
  BY AppendProperties
<1>2. /\ \A k \in DOMAIN p : r[k] = p[k]
      /\ r[Len(p) + 1] = e
  BY AppendProperties
<1> HIDE DEF r
<1>3. Distinct(r)
  BY <1>1, <1>2 DEF Distinct, JobsIn
<1>4. JobsIn(r) = JobsIn(p) \cup {e.job}
  BY <1>1, <1>2 DEF JobsIn
<1>5. QED
  BY <1>1, <1>2, <1>3, <1>4 DEF r

\* The entry queue without its head, and with one more job.
LEMMA QueueLess ==
    ASSUME NEW S, NEW q \in Seq(S), q # <<>>, Once(q)
    PROVE  /\ Tail(q) \in Seq(S) /\ Once(Tail(q)) /\ Head(q) \in S
           /\ Head(q) \in Listed(q) /\ Listed(Tail(q)) = Listed(q) \ {Head(q)}
<1>1. /\ Tail(q) \in Seq(S) /\ DOMAIN Tail(q) = 1..(Len(q) - 1)
      /\ Head(q) = q[1] /\ 1 \in DOMAIN q
      /\ \A k \in 1..(Len(q) - 1) : Tail(q)[k] = q[k + 1]
  BY HeadTailProperties
<1>2. \A l \in DOMAIN q \ {1} : l - 1 \in DOMAIN Tail(q) /\ q[l] = Tail(q)[l - 1]
  BY <1>1
<1>3. \A k \in 1..(Len(q) - 1) : k + 1 \in DOMAIN q \ {1}
  OBVIOUS
<1>4. Once(Tail(q))
  BY <1>1, <1>3 DEF Once
<1>5. Listed(Tail(q)) \subseteq Listed(q) \ {Head(q)}
  BY <1>1, <1>3 DEF Listed, Once
<1>6. Listed(q) \ {Head(q)} \subseteq Listed(Tail(q))
  BY <1>1, <1>2 DEF Listed
<1>7. QED
  BY <1>1, <1>4, <1>5, <1>6, HeadTailProperties DEF Listed

\* The entry queue with a job it did not hold.
LEMMA QueueMore ==
    ASSUME NEW S, NEW q \in Seq(S), NEW e \in S, Once(q), e \notin Listed(q)
    PROVE  /\ Append(q, e) \in Seq(S) /\ Once(Append(q, e))
           /\ Listed(Append(q, e)) = Listed(q) \cup {e}
<1> DEFINE r == Append(q, e)
<1>1. r \in Seq(S) /\ DOMAIN r = DOMAIN q \cup {Len(q) + 1}
  BY AppendProperties
<1>2. /\ \A k \in DOMAIN q : r[k] = q[k]
      /\ r[Len(q) + 1] = e
  BY AppendProperties
<1> HIDE DEF r
<1>3. Once(r)
  BY <1>1, <1>2 DEF Once, Listed
<1>4. Listed(r) = Listed(q) \cup {e}
  BY <1>1, <1>2 DEF Listed
<1>5. QED
  BY <1>1, <1>3, <1>4 DEF r
-----------------------------------------------------------------------------
(* The inductive invariant.                                                *)

Untouched == [m \in Machines |-> "CREATED"]
Judging   == {"result", "tail", "apply"}
Futures   == [job : Jobs, round : 0..MaxRounds]

\* A machine has each job once, of its present round; a thread that is past its
\* loops has seen the task end.
Pools ==
    \A m \in Machines :
        /\ Distinct(pool[m]) /\ thread[m].job \notin JobsIn(pool[m])
        /\ thread[m].pc = "idle" <=> thread[m].job = NoJob
        /\ thread[m].pc \in Judging => thread[m].seen \in TerminalStatuses
        /\ thread[m].job # NoJob => thread[m].round = round[thread[m].job]
        /\ \A i \in DOMAIN pool[m] : pool[m][i].round = round[pool[m][i].job]

\* The callbacks count the targets in flight.
Counted ==
    /\ \A j \in Jobs : remaining[j] = Cardinality(InFlight(j))
    /\ futures = {j \in Jobs : InFlight(j) # {}}

\* A job that was accepted is in one place.
Entry ==
    /\ Once(queue)
    /\ router.pc \in {"cancel", "mark", "dispatch"} =>
          router.job \in Jobs /\ router.round = round[router.job]
    /\ \A j \in Jobs :
          /\ ~(j \in Listed(queue) /\ Routed(j))
          /\ ~(j \in Listed(queue) /\ j \in futures)
          /\ ~(Routed(j) /\ j \in futures)
          /\ j \in Listed(queue) \/ Routed(j) \/ j \in futures => j \in queued

\* What the table says of a job that was accepted, or is being submitted.
Accepted ==
    /\ \A j \in Jobs :
          /\ j \in queued => jobStatus[j] \in ActiveJobStatuses /\ submitting[j] = "no"
          /\ submitting[j] # "no" => jobStatus[j] \in ActiveJobStatuses /\ exec[j] = Untouched
          /\ jobStatus[j] = "ABSENT" => exec[j] = Untouched
          /\ deleted[j] => jobStatus[j] \in TerminalStatuses
    /\ ~up => queued = {} /\ ~stopping /\ \A j \in Jobs : submitting[j] = "no"

\* While the service does not stop, no accepted job is out of its place and no
\* active one out of memory.
Tracked ==
    up /\ ~stopping => \A j \in Jobs :
        /\ jobStatus[j] \in ActiveJobStatuses => j \in queued \/ submitting[j] # "no"
        /\ j \in queued => j \in Listed(queue) \/ Routed(j) \/ j \in futures

\* A target that was handed out and is not in flight any more has its status.
Settled ==
    ~stopping =>
        /\ \A j \in futures, m \in Machines :
              m \in InFlight(j) \/ exec[j][m] \in TerminalStatuses
        /\ \A m \in Machines :
              At(m, "end") /\ ~thread[m].fault => exec[thread[m].job][m] \in TerminalStatuses

IInv == TypeOK /\ Pools /\ Counted /\ Entry /\ Accepted /\ Tracked /\ Settled /\ OutcomeAgrees
-----------------------------------------------------------------------------
(* Aggregation.                                                            *)

\* An aggregate is an outcome exactly when every row has one.
LEMMA AggregateIs ==
    ASSUME NEW row \in [Machines -> ExecStatuses]
    PROVE  /\ Aggregate(row) \in TerminalStatuses \cup {"CREATED", "RUNNING"}
           /\ Aggregate(row) \in TerminalStatuses <=> \A m \in Machines : row[m] \in TerminalStatuses
<1> DEFINE S == {row[m] : m \in Machines}
<1>1. S \ TerminalStatuses = {} <=> \A m \in Machines : row[m] \in TerminalStatuses
  OBVIOUS
<1> HIDE DEF S
<1>2. QED
  BY <1>1 DEF Aggregate, S, TerminalStatuses

\* While a target is in flight no outcome is published.
LEMMA SyncedOpen ==
    ASSUME NEW j \in Jobs, NEW row \in [Machines -> ExecStatuses], j \in futures,
           jobStatus[j] \in ActiveJobStatuses, ~deleted[j]
    PROVE  Synced(j, row, FALSE) \in ActiveJobStatuses
BY AggregateIs DEF Synced, ActiveJobStatuses, TerminalStatuses

\* With every row settled, the last callback, or the routing thread before the
\* first, publishes their aggregate.
LEMMA SyncedClosed ==
    ASSUME NEW j \in Jobs, NEW row \in [Machines -> ExecStatuses], NEW b \in BOOLEAN,
           b \/ j \notin futures, ~deleted[j], \A m \in Machines : row[m] \in TerminalStatuses
    PROVE  Synced(j, row, b) = Aggregate(row) /\ Aggregate(row) \in TerminalStatuses
BY AggregateIs DEF Synced

\* A row that was written as FAILED has an outcome all the same.
LEMMA KeptIs ==
    ASSUME NEW s \in ExecStatuses, NEW e
    PROVE  /\ Kept(s, e) \in ExecStatuses
           /\ s \in TerminalStatuses => Kept(s, e) \in TerminalStatuses
BY DEF Kept, ExecStatuses, TerminalStatuses
-----------------------------------------------------------------------------
(* Targets in flight.                                                      *)

\* A target is in flight when its pool or its thread has it, and then its job
\* is active.
LEMMA Flying ==
    ASSUME IInv, NEW j \in Jobs, NEW m \in Machines
    PROVE  /\ m \in InFlight(j) <=> j \in JobsIn(pool[m]) \/ thread[m].job = j
           /\ m \in InFlight(j) => /\ j \in futures /\ j \in queued /\ ~deleted[j]
                                    /\ jobStatus[j] \in ActiveJobStatuses
           /\ InFlight(j) \subseteq Machines
<1>1. m \in InFlight(j) <=> j \in JobsIn(pool[m]) \/ thread[m].job = j
  BY DEF InFlight, InPool, JobsIn
<1>2. m \in InFlight(j) => j \in futures /\ j \in queued
  BY DEF IInv, Counted, Entry
<1>3. j \in queued => ~deleted[j] /\ jobStatus[j] \in ActiveJobStatuses
  BY DEF IInv, Accepted, ActiveJobStatuses, TerminalStatuses
<1>4. QED
  BY <1>1, <1>2, <1>3 DEF InFlight

\* The thread that works has a job of its own.
LEMMA ThreadJob ==
    ASSUME IInv, NEW m \in Machines, thread[m].pc # "idle"
    PROVE  /\ thread[m] \in Threads /\ thread[m].job \in Jobs
           /\ m \in InFlight(thread[m].job) /\ thread[m].job \in futures
           /\ ~deleted[thread[m].job] /\ jobStatus[thread[m].job] \in ActiveJobStatuses
<1>1. thread[m] \in Threads /\ thread[m].job \in Jobs
  BY DEF IInv, TypeOK, Pools, Threads
<1>2. QED
  BY <1>1, Flying
-----------------------------------------------------------------------------
(* A step of _run_target.                                                  *)

\* It moves one thread, which keeps its job; at the end of the target its row
\* has an outcome, or the callback will not write one.
Moves(m) ==
    \E t \in Threads :
        /\ thread' = [thread EXCEPT ![m] = t]
        /\ t.job = thread[m].job /\ t.round = thread[m].round /\ t.pc # "idle"
        /\ t.pc \in Judging => t.seen \in TerminalStatuses
        /\ t.pc = "end" /\ ~t.fault /\ ~stopping => exec'[t.job][m] \in TerminalStatuses

\* It writes the row of this target, and publishes no outcome.
Writes(m) ==
    /\ \E s \in ExecStatuses : exec' = [exec EXCEPT ![thread[m].job][m] = s]
    /\ \E e \in Results \cup {"none", "CAPTURED"} :
          evidence' = [evidence EXCEPT ![thread[m].job][m] = e]
    /\ \E s \in ActiveJobStatuses : jobStatus' = [jobStatus EXCEPT ![thread[m].job] = s]

\* It may change the task of this target on the Worker.
Calls(m) ==
    /\ \E w \in WorkStates : work' = [work EXCEPT ![thread[m].job][m] = w]
    /\ losses' \in 0..MaxLosses

Inner(m) == thread[m].pc # "idle" /\ Moves(m) /\ Writes(m) /\ Calls(m) /\ TargetOnly

\* The rows of a target have their types, and to write what they hold changes
\* nothing.
LEMMA SameRow ==
    ASSUME TypeOK, NEW j \in Jobs, NEW m \in Machines
    PROVE  /\ exec[j][m] \in ExecStatuses
           /\ evidence[j][m] \in Results \cup {"none", "CAPTURED"}
           /\ work[j][m] \in WorkStates
           /\ exec = [exec EXCEPT ![j][m] = exec[j][m]]
           /\ evidence = [evidence EXCEPT ![j][m] = evidence[j][m]]
           /\ work = [work EXCEPT ![j][m] = work[j][m]]
           /\ jobStatus = [jobStatus EXCEPT ![j] = jobStatus[j]]
<1>1. exec \in [Jobs -> [Machines -> ExecStatuses]]
  BY DEF TypeOK
<1>2. evidence \in [Jobs -> [Machines -> Results \cup {"none", "CAPTURED"}]]
  BY DEF TypeOK
<1>3. work \in [Jobs -> [Machines -> WorkStates]]
  BY DEF TypeOK
<1>4. jobStatus = [jobStatus EXCEPT ![j] = jobStatus[j]]
  BY DEF TypeOK
<1>5. exec[j][m] \in ExecStatuses /\ exec = [exec EXCEPT ![j][m] = exec[j][m]]
  BY <1>1
<1>6. /\ evidence[j][m] \in Results \cup {"none", "CAPTURED"}
      /\ evidence = [evidence EXCEPT ![j][m] = evidence[j][m]]
  BY <1>2
<1>7. work[j][m] \in WorkStates /\ work = [work EXCEPT ![j][m] = work[j][m]]
  BY <1>3
<1>8. QED
  BY <1>4, <1>5, <1>6, <1>7

\* The thread goes on to another place.
LEMMA GotoMoves ==
    ASSUME IInv, NEW m \in Machines, thread[m].pc # "idle", NEW p \in TargetPcs \ {"idle"},
           Goto(m, p), p \in Judging => thread[m].seen \in TerminalStatuses,
           p = "end" /\ ~stopping => exec'[thread[m].job][m] \in TerminalStatuses
    PROVE  Moves(m)
<1> DEFINE t == [thread[m] EXCEPT !.pc = p]
<1>1. thread[m] \in Threads
  BY ThreadJob
<1>2. /\ t \in Threads /\ t.job = thread[m].job /\ t.round = thread[m].round
      /\ t.pc = p /\ t.seen = thread[m].seen /\ t.fault = thread[m].fault
  BY <1>1 DEF Threads
<1>3. thread' = [thread EXCEPT ![m] = t]
  BY DEF Goto
<1> HIDE DEF t
<1>4. QED
  BY <1>2, <1>3 DEF Moves

\* Nothing is written to the tables.
LEMMA TableOnlyWrites ==
    ASSUME IInv, NEW m \in Machines, thread[m].pc # "idle", TableOnly
    PROVE  Writes(m)
<1> DEFINE j == thread[m].job
<1>1. j \in Jobs /\ jobStatus[j] \in ActiveJobStatuses
  BY ThreadJob
<1>2. /\ jobStatus' = [jobStatus EXCEPT ![j] = jobStatus[j]]
      /\ exec' = [exec EXCEPT ![j][m] = exec[j][m]]
      /\ evidence' = [evidence EXCEPT ![j][m] = evidence[j][m]]
      /\ exec[j][m] \in ExecStatuses /\ evidence[j][m] \in Results \cup {"none", "CAPTURED"}
  BY <1>1, SameRow DEF IInv, TableOnly, execVars
<1>3. QED
  BY <1>1, <1>2 DEF Writes

\* The Worker is not called.
LEMMA WorkerOnlyCalls ==
    ASSUME IInv, NEW m \in Machines, thread[m].pc # "idle", UNCHANGED work,
           losses' \in 0..MaxLosses
    PROVE  Calls(m)
<1> DEFINE j == thread[m].job
<1>1. j \in Jobs
  BY ThreadJob
<1>2. work' = [work EXCEPT ![j][m] = work[j][m]] /\ work[j][m] \in WorkStates
  BY <1>1, SameRow DEF IInv
<1>3. QED
  BY <1>2 DEF Calls

\* A status that is not terminal, and the sync after it.
LEMMA ReportWrites ==
    ASSUME IInv, NEW m \in Machines, thread[m].pc # "idle", NEW s \in ExecStatuses,
           Report(m, s), UNCHANGED evidence
    PROVE  Writes(m)
<1> DEFINE j == thread[m].job
<1>1. /\ j \in Jobs /\ j \in futures /\ ~deleted[j] /\ jobStatus[j] \in ActiveJobStatuses
  BY ThreadJob
<1>2. exec' = [exec EXCEPT ![j][m] = s] /\ exec'[j] \in [Machines -> ExecStatuses]
  BY <1>1 DEF IInv, TypeOK, Report, SetExec
<1>3. evidence' = [evidence EXCEPT ![j][m] = evidence[j][m]]
      /\ evidence[j][m] \in Results \cup {"none", "CAPTURED"}
  BY <1>1, SameRow DEF IInv
<1>4. jobStatus' = [jobStatus EXCEPT ![j] = Synced(j, exec'[j], FALSE)]
  BY DEF Report, Sync
<1>5. Synced(j, exec'[j], FALSE) \in ActiveJobStatuses
  BY <1>1, <1>2, SyncedOpen
<1>6. QED
  BY <1>2, <1>3, <1>4, <1>5 DEF Writes

\* The checkpoints of the Worker, and the sync after them.
LEMMA CapturedWrites ==
    ASSUME IInv, NEW m \in Machines, thread[m].pc # "idle", ReportCaptured(m)
    PROVE  Writes(m)
<1> DEFINE j == thread[m].job
<1>1. /\ j \in Jobs /\ j \in futures /\ ~deleted[j] /\ jobStatus[j] \in ActiveJobStatuses
  BY ThreadJob
<1>2. TypeOK
  BY DEF IInv
<1>3. \E s \in ExecStatuses : exec' = [exec EXCEPT ![j][m] = s]
  <2>1. CASE exec[j][m] \in TerminalStatuses
    <3>1. exec' = [exec EXCEPT ![j][m] = exec[j][m]] /\ exec[j][m] \in ExecStatuses
      BY <1>1, <1>2, <2>1, SameRow DEF ReportCaptured, execVars
    <3>2. QED
      BY <3>1
  <2>2. CASE exec[j][m] \notin TerminalStatuses
    BY <2>2 DEF ReportCaptured, SetExec, ExecStatuses
  <2>3. QED
    BY <2>1, <2>2
<1>4. \E e \in Results \cup {"none", "CAPTURED"} : evidence' = [evidence EXCEPT ![j][m] = e]
  <2>1. CASE exec[j][m] \in TerminalStatuses
    <3>1. evidence' = [evidence EXCEPT ![j][m] = evidence[j][m]]
          /\ evidence[j][m] \in Results \cup {"none", "CAPTURED"}
      BY <1>1, <1>2, <2>1, SameRow DEF ReportCaptured, execVars
    <3>2. QED
      BY <3>1
  <2>2. CASE exec[j][m] \notin TerminalStatuses
    BY <2>2 DEF ReportCaptured
  <2>3. QED
    BY <2>1, <2>2
<1>5. exec'[j] \in [Machines -> ExecStatuses]
  BY <1>1, <1>2, <1>3 DEF TypeOK
<1>6. jobStatus' = [jobStatus EXCEPT ![j] = Synced(j, exec'[j], FALSE)]
  BY DEF ReportCaptured, Sync
<1>7. Synced(j, exec'[j], FALSE) \in ActiveJobStatuses
  BY <1>1, <1>5, SyncedOpen
<1>8. QED
  BY <1>3, <1>4, <1>6, <1>7 DEF Writes

\* A status that ends the target.
LEMMA ConcludeInner ==
    ASSUME IInv, NEW m \in Machines, thread[m].pc # "idle", NEW s \in TerminalStatuses,
           Conclude(m, s), TargetOnly
    PROVE  Inner(m)
<1> DEFINE j == thread[m].job
           k == Kept(s, evidence[j][m])
<1>1. j \in Jobs /\ jobStatus[j] \in ActiveJobStatuses
  BY ThreadJob
<1>2. TypeOK
  BY DEF IInv
<1>3. k \in ExecStatuses /\ k \in TerminalStatuses
  BY KeptIs DEF ExecStatuses
<1>4. exec' = [exec EXCEPT ![j][m] = k] /\ exec'[j][m] \in TerminalStatuses
  BY <1>1, <1>2, <1>3 DEF Conclude, SetExec, TypeOK
<1>5. Writes(m)
  <2>1. /\ jobStatus' = [jobStatus EXCEPT ![j] = jobStatus[j]]
        /\ evidence' = [evidence EXCEPT ![j][m] = evidence[j][m]]
        /\ evidence[j][m] \in Results \cup {"none", "CAPTURED"}
    BY <1>1, <1>2, SameRow DEF Conclude
  <2> HIDE DEF k
  <2>2. QED
    BY <1>1, <1>3, <1>4, <2>1 DEF Writes
<1>6. Moves(m)
  <2>1. Goto(m, "end") /\ "end" \in TargetPcs \ {"idle"} /\ "end" \notin Judging
    BY DEF Conclude, TargetPcs, Judging
  <2>2. QED
    BY <1>4, <2>1, GotoMoves
<1>7. Calls(m)
  BY <1>2, WorkerOnlyCalls DEF Conclude, WorkerOnly, TypeOK
<1>8. QED
  BY <1>5, <1>6, <1>7 DEF Inner

\* A call to the Worker, answered or lost.
LEMMA CallInner ==
    ASSUME IInv, NEW m \in Machines, thread[m].pc # "idle", NEW W \in SUBSET WorkStates,
           NEW p \in TargetPcs \ {"idle", "end"}, p \notin Judging, Call(m, W, p), TargetOnly
    PROVE  Inner(m)
<1> DEFINE j == thread[m].job
<1>1. j \in Jobs /\ thread[m] \in Threads
  BY ThreadJob
<1>2. TypeOK /\ work[j][m] \in WorkStates
  BY <1>1, SameRow DEF IInv
<1>3. Writes(m)
  BY TableOnlyWrites DEF Call
<1>4. CASE \E w \in W : /\ work' = [work EXCEPT ![j][m] = w]
                        /\ thread' = [thread EXCEPT ![m].pc = p, ![m].seen = w.status]
                        /\ UNCHANGED losses
  <2>1. PICK w \in W : /\ work' = [work EXCEPT ![j][m] = w]
                       /\ thread' = [thread EXCEPT ![m].pc = p, ![m].seen = w.status]
                       /\ UNCHANGED losses
    BY <1>4
  <2> DEFINE t == [thread[m] EXCEPT !.pc = p, !.seen = w.status]
  <2>2. t \in Threads /\ t.job = thread[m].job /\ t.round = thread[m].round /\ t.pc = p
    BY <1>1 DEF Threads, WorkStates
  <2>3. thread' = [thread EXCEPT ![m] = t]
    BY <2>1, <1>2 DEF TypeOK
  <2> HIDE DEF t
  <2>4. Moves(m)
    BY <2>2, <2>3 DEF Moves
  <2>5. Calls(m)
    BY <2>1, <1>2 DEF Calls, TypeOK
  <2>6. QED
    BY <1>3, <2>4, <2>5 DEF Inner
<1>5. CASE /\ losses < MaxLosses /\ losses' = losses + 1
           /\ \E w \in W \cup {work[j][m]} : work' = [work EXCEPT ![j][m] = w]
           /\ Goto(m, "waiting")
  <2>1. "waiting" \in TargetPcs \ {"idle"} /\ "waiting" \notin Judging
    BY DEF TargetPcs, Judging
  <2>2. Moves(m)
    BY <1>5, <2>1, GotoMoves
  <2>3. Calls(m)
    <3>1. losses' \in 0..MaxLosses
      BY <1>2, <1>5, ConstantsAssumption DEF TypeOK
    <3>2. \E w \in WorkStates : work' = [work EXCEPT ![j][m] = w]
      BY <1>2, <1>5
    <3>3. QED
      BY <3>1, <3>2 DEF Calls
  <2>4. QED
    BY <1>3, <2>2, <2>3 DEF Inner
<1>6. QED
  BY <1>4, <1>5 DEF Call

\* Every step of _run_target between the start of a target and its end.
LEMMA InnerStep ==
    ASSUME IInv, NEW m \in Machines,
           \/ TargetStart(m) \/ TargetCheck(m) \/ TargetContact(m) \/ TargetSubmit(m)
           \/ TargetResume(m) \/ TargetWaiting(m) \/ TargetPoll(m) \/ TargetCapture(m)
           \/ TargetWait(m) \/ TargetCancel(m) \/ TargetGet(m) \/ TargetResult(m)
           \/ TargetTail(m) \/ TargetApply(m) \/ TargetFault(m)
    PROVE  Inner(m)
<1> DEFINE j == thread[m].job
           w == work[j][m]
<1>1. thread[m].pc # "idle" /\ TargetOnly
  BY DEF TargetStart, TargetCheck, TargetContact, TargetSubmit, TargetResume, TargetWaiting,
         TargetPoll, TargetCapture, TargetWait, TargetCancel, TargetGet, TargetResult, TargetTail,
         TargetApply, TargetFault, At
<1>2. /\ j \in Jobs /\ thread[m] \in Threads /\ ~deleted[j]
      /\ jobStatus[j] \in ActiveJobStatuses /\ m \in InFlight(j)
  BY <1>1, ThreadJob
<1>3. TypeOK /\ w \in WorkStates /\ losses \in 0..MaxLosses
  BY <1>2, SameRow DEF IInv, TypeOK
<1>4. ASSUME TableOnly, WorkerOnly, NEW p \in TargetPcs \ {"idle"}, Goto(m, p),
             p \in Judging => thread[m].seen \in TerminalStatuses, p = "end" => stopping
      PROVE  Inner(m)
  BY <1>1, <1>3, <1>4, GotoMoves, TableOnlyWrites, WorkerOnlyCalls DEF WorkerOnly, Inner
<1>5. ASSUME TableOnly, UNCHANGED work, losses < MaxLosses, losses' = losses + 1, Goto(m, "waiting")
      PROVE  Inner(m)
  <2>1. losses' \in 0..MaxLosses
    BY <1>3, <1>5, ConstantsAssumption
  <2>2. "waiting" \in TargetPcs \ {"idle"} /\ "waiting" \notin Judging
    BY DEF TargetPcs, Judging
  <2>3. QED
    BY <1>1, <1>5, <2>1, <2>2, GotoMoves, TableOnlyWrites, WorkerOnlyCalls DEF Inner
<1>6. CASE TargetStart(m)
  BY <1>1, <1>4, <1>6, ConcludeInner DEF TargetStart, TargetPcs, Judging, TerminalStatuses
<1>7. CASE TargetCheck(m)
  BY <1>1, <1>2, <1>4, <1>7, ConcludeInner DEF TargetCheck, TargetPcs, Judging, TerminalStatuses
<1>8. CASE TargetContact(m)
  BY <1>1, <1>4, <1>5, <1>8, ConcludeInner DEF TargetContact, TargetPcs, Judging, TerminalStatuses
<1>9. CASE TargetSubmit(m)
  <2>1. Submitted(w) \in WorkStates
    <3>1. 0 \in 0..MaxRounds
      BY ConstantsAssumption
    <3>2. [NoTask EXCEPT !.status = "active"] \in WorkStates
      BY <3>1 DEF NoTask, WorkStates
    <3>3. QED
      BY <1>3, <3>2 DEF Submitted
  <2>2. {"resume", "poll"} \subseteq TargetPcs \ {"idle", "end"} /\ {"resume", "poll"} \cap Judging = {}
    BY DEF TargetPcs, Judging
  <2>3. QED
    BY <1>1, <1>9, <2>1, <2>2, CallInner DEF TargetSubmit
<1>10. CASE TargetResume(m)
  <2>1. Resumed(w, thread[m].round) \in WorkStates
    BY <1>2, <1>3 DEF Resumed, WorkStates, Threads, TerminalStatuses, Results
  <2>2. "poll" \in TargetPcs \ {"idle", "end"} /\ "poll" \notin Judging
    BY DEF TargetPcs, Judging
  <2>3. QED
    BY <1>1, <1>10, <2>1, <2>2, CallInner DEF TargetResume
<1>11. CASE TargetWaiting(m)
  <2>1. Writes(m)
    <3>1. CASE Report(m, "WAITING_FOR_WORKER") /\ UNCHANGED evidence
      BY <1>1, <3>1, ReportWrites DEF ExecStatuses
    <3>2. CASE TableOnly
      BY <1>1, <3>2, TableOnlyWrites
    <3>3. QED
      BY <1>11, <3>1, <3>2 DEF TargetWaiting
  <2>2. PICK p \in {"end", "check", "poll"} : Goto(m, p) /\ (p = "end" => stopping)
    BY <1>11 DEF TargetWaiting
  <2>3. p \in TargetPcs \ {"idle"} /\ p \notin Judging
    BY DEF TargetPcs, Judging
  <2>4. Moves(m) /\ Calls(m)
    BY <1>1, <1>3, <1>11, <2>2, <2>3, GotoMoves, WorkerOnlyCalls DEF TargetWaiting, WorkerOnly
  <2>5. QED
    BY <1>1, <2>1, <2>4 DEF Inner
<1>12. CASE TargetPoll(m)
  <2>1. CASE thread[m].seen \in TerminalStatuses
    BY <1>4, <1>12, <2>1 DEF TargetPoll, TargetPcs
  <2>2. CASE thread[m].seen \notin TerminalStatuses
    <3>1. Writes(m)
      <4>1. CASE Report(m, "ACTIVE") /\ UNCHANGED evidence
        BY <1>1, <4>1, ReportWrites DEF ExecStatuses
      <4>2. CASE TableOnly
        BY <1>1, <4>2, TableOnlyWrites
      <4>3. QED
        BY <1>12, <2>2, <4>1, <4>2 DEF TargetPoll
    <3>2. Moves(m) /\ Calls(m)
      BY <1>1, <1>3, <1>12, <2>2, GotoMoves, WorkerOnlyCalls
      DEF TargetPoll, WorkerOnly, TargetPcs, Judging
    <3>3. QED
      BY <1>1, <3>1, <3>2 DEF Inner
  <2>3. QED
    BY <2>1, <2>2
<1>13. CASE TargetCapture(m) \/ TargetTail(m)
  <2>1. Writes(m)
    BY <1>1, <1>13, CapturedWrites, TableOnlyWrites DEF TargetCapture, TargetTail
  <2>2. CASE TargetCapture(m)
    <3>1. Goto(m, "wait") /\ "wait" \in TargetPcs \ {"idle"} /\ "wait" \notin Judging
      BY <2>2 DEF TargetCapture, TargetPcs, Judging
    <3>2. QED
      BY <1>1, <1>3, <2>1, <2>2, <3>1, GotoMoves, WorkerOnlyCalls DEF TargetCapture, WorkerOnly, Inner
  <2>3. CASE TargetTail(m)
    <3>1. Goto(m, "apply") /\ "apply" \in TargetPcs \ {"idle"} /\ thread[m].seen \in TerminalStatuses
      BY <2>3 DEF TargetTail, TargetPcs, At, IInv, Pools, Judging
    <3>2. QED
      BY <1>1, <1>3, <2>1, <2>3, <3>1, GotoMoves, WorkerOnlyCalls DEF TargetTail, WorkerOnly, Inner
  <2>4. QED
    BY <1>13, <2>2, <2>3
<1>14. CASE TargetWait(m)
  <2>1. PICK p \in {"end", "cancel", "get"} : Goto(m, p) /\ (p = "end" => stopping)
    BY <1>2, <1>14 DEF TargetWait
  <2>2. p \in TargetPcs \ {"idle"} /\ p \notin Judging
    BY DEF TargetPcs, Judging
  <2>3. QED
    BY <1>4, <1>14, <2>1, <2>2 DEF TargetWait
<1>15. CASE TargetCancel(m)
  <2> DEFINE W == CancelEffects(w)
  <2>1. W \in SUBSET WorkStates
    BY <1>3 DEF CancelEffects, WorkStates, TerminalStatuses
  <2>2. "poll" \in TargetPcs \ {"idle", "end"} /\ "poll" \notin Judging
    BY DEF TargetPcs, Judging
  <2> HIDE DEF W
  <2>3. CASE Call(m, W, "poll")
    BY <1>1, <2>1, <2>2, <2>3, CallInner
  <2>4. ASSUME NEW x \in W, work' = [work EXCEPT ![j][m] = x],
               thread' = [thread EXCEPT ![m].pc = "poll", ![m].seen = x.status, ![m].sent = TRUE],
               UNCHANGED losses, TableOnly
        PROVE  Inner(m)
    <3> DEFINE t == [thread[m] EXCEPT !.pc = "poll", !.seen = x.status, !.sent = TRUE]
    <3>0. x \in WorkStates
      BY <2>1
    <3>1. t \in Threads /\ t.job = thread[m].job /\ t.round = thread[m].round /\ t.pc = "poll"
      BY <1>2, <3>0 DEF Threads, WorkStates, TargetPcs
    <3>2. thread' = [thread EXCEPT ![m] = t]
      BY <2>4, <1>3 DEF TypeOK
    <3> HIDE DEF t
    <3>3. Moves(m)
      BY <3>1, <3>2, <2>2 DEF Moves
    <3>4. Calls(m)
      BY <1>3, <2>4, <3>0 DEF Calls
    <3>5. QED
      BY <1>1, <2>4, <3>3, <3>4, TableOnlyWrites DEF Inner
  <2>5. QED
    BY <1>15, <2>3, <2>4 DEF TargetCancel, W
<1>16. CASE TargetGet(m)
  <2>1. "poll" \in TargetPcs \ {"idle", "end"} /\ "poll" \notin Judging /\ {w} \in SUBSET WorkStates
    BY <1>3 DEF TargetPcs, Judging
  <2>2. QED
    BY <1>1, <1>16, <2>1, CallInner DEF TargetGet
<1>17. CASE TargetResult(m)
  <2>1. TableOnly /\ UNCHANGED work
    BY <1>17 DEF TargetResult
  <2>2. thread[m].seen \in TerminalStatuses
    BY <1>17 DEF TargetResult, At, IInv, Pools, Judging
  <2>3. CASE stopping /\ Goto(m, "end") /\ UNCHANGED losses
    BY <1>4, <2>1, <2>3 DEF TargetPcs, Judging, WorkerOnly
  <2>4. CASE Goto(m, "waiting") /\ UNCHANGED losses
    BY <1>4, <2>1, <2>4 DEF TargetPcs, Judging, WorkerOnly
  <2>5. CASE losses < MaxLosses /\ losses' = losses + 1 /\ Goto(m, "waiting")
    BY <1>5, <2>1, <2>5
  <2>6. ASSUME NEW p \in {"tail", "apply"}, w.status \in TerminalStatuses, UNCHANGED losses,
               thread' = [thread EXCEPT ![m].result = w.result, ![m].pc = p]
        PROVE  Inner(m)
    <3> DEFINE t == [thread[m] EXCEPT !.result = w.result, !.pc = p]
    <3>1. /\ t \in Threads /\ t.job = thread[m].job /\ t.round = thread[m].round /\ t.pc = p
          /\ t.seen = thread[m].seen
      BY <1>2, <1>3 DEF Threads, WorkStates, TargetPcs
    <3>2. thread' = [thread EXCEPT ![m] = t]
      BY <2>6, <1>3 DEF TypeOK
    <3> HIDE DEF t
    <3>3. Moves(m)
      BY <2>2, <3>1, <3>2 DEF Moves
    <3>4. QED
      BY <1>1, <1>3, <2>1, <2>6, <3>3, TableOnlyWrites, WorkerOnlyCalls DEF Inner
  <2>7. QED
    BY <1>17, <2>3, <2>4, <2>5, <2>6 DEF TargetResult
<1>18. CASE TargetApply(m)
  <2> DEFINE k == IF thread[m].result # "none" THEN thread[m].result
                  ELSE Kept(thread[m].seen, evidence[j][m])
  <2>1. thread[m].seen \in TerminalStatuses
    BY <1>18 DEF TargetApply, At, IInv, Pools, Judging
  <2>2. k \in TerminalStatuses /\ k \in ExecStatuses
    BY <1>2, <2>1, KeptIs DEF Threads, Results, TerminalStatuses, ExecStatuses
  <2>3. exec' = [exec EXCEPT ![j][m] = k]
    BY <1>18 DEF TargetApply, SetExec
  <2>4. exec'[j][m] \in TerminalStatuses
    BY <1>2, <1>3, <2>2, <2>3 DEF TypeOK
  <2>5. \E e \in Results \cup {"none", "CAPTURED"} : evidence' = [evidence EXCEPT ![j][m] = e]
    <3>1. CASE thread[m].result # "none"
      BY <1>2, <1>18, <3>1 DEF TargetApply, Threads
    <3>2. CASE thread[m].result = "none" /\ thread[m].seen \in {"FAILED", "CANCELED"}
      <4>1. evidence' = evidence
        BY <1>18, <3>2 DEF TargetApply
      <4>2. /\ evidence[j][m] \in Results \cup {"none", "CAPTURED"}
            /\ evidence = [evidence EXCEPT ![j][m] = evidence[j][m]]
        BY <1>2, <1>3, SameRow
      <4> QED
        BY <4>1, <4>2
    <3>3. CASE thread[m].result = "none" /\ thread[m].seen \notin {"FAILED", "CANCELED"}
      BY <1>18, <3>3 DEF TargetApply
    <3>4. QED
      BY <3>1, <3>2, <3>3
  <2>6. jobStatus' = [jobStatus EXCEPT ![j] = jobStatus[j]]
    BY <1>2, <1>3, <1>18, SameRow DEF TargetApply
  <2> HIDE DEF k
  <2>7. Writes(m)
    BY <1>2, <2>2, <2>3, <2>5, <2>6 DEF Writes
  <2>8. Moves(m)
    BY <1>1, <1>18, <2>4, GotoMoves DEF TargetApply, TargetPcs, Judging
  <2>9. QED
    BY <1>1, <1>3, <1>18, <2>7, <2>8, WorkerOnlyCalls DEF TargetApply, WorkerOnly, Inner
<1>19. CASE TargetFault(m)
  <2> DEFINE t == [thread[m] EXCEPT !.pc = "end", !.fault = TRUE]
  <2>1. t \in Threads /\ t.job = thread[m].job /\ t.round = thread[m].round /\ t.pc = "end" /\ t.fault
    BY <1>2 DEF Threads, TargetPcs
  <2>2. thread' = [thread EXCEPT ![m] = t]
    BY <1>19, <1>3 DEF TargetFault, TypeOK
  <2> HIDE DEF t
  <2>3. Moves(m)
    BY <2>1, <2>2 DEF Moves, Judging
  <2>4. QED
    BY <1>1, <1>3, <1>19, <2>3, TableOnlyWrites, WorkerOnlyCalls DEF TargetFault, WorkerOnly, Inner
<1>20. QED
  BY <1>6, <1>7, <1>8, <1>9, <1>10, <1>11, <1>12, <1>13, <1>14, <1>15, <1>16, <1>17, <1>18, <1>19
-----------------------------------------------------------------------------
(* Types.                                                                  *)

\* A target in flight is counted.
LEMMA FlightCounts ==
    ASSUME IInv, NEW j \in Jobs, NEW m \in Machines, m \in InFlight(j)
    PROVE  /\ IsFiniteSet(InFlight(j)) /\ remaining[j] = Cardinality(InFlight(j)) /\ remaining[j] > 0
           /\ Cardinality(InFlight(j) \ {m}) = remaining[j] - 1
           /\ remaining[j] = 1 <=> InFlight(j) \ {m} = {}
<1>1. IsFiniteSet(InFlight(j))
  BY Flying, FS_Subset, ConstantsAssumption DEF InFlight
<1>2. remaining[j] = Cardinality(InFlight(j)) /\ remaining[j] \in Nat
  BY DEF IInv, Counted, TypeOK
<1>3. IsFiniteSet(InFlight(j) \ {m}) /\ Cardinality(InFlight(j) \ {m}) = remaining[j] - 1
  BY <1>1, <1>2, FS_RemoveElement
<1>4. Cardinality(InFlight(j) \ {m}) \in Nat
  BY <1>3, FS_CardinalityType
<1>5. Cardinality(InFlight(j) \ {m}) = 0 <=> InFlight(j) \ {m} = {}
  BY <1>3, FS_EmptySet
<1>6. QED
  BY <1>1, <1>2, <1>3, <1>4, <1>5

\* A future that no thread has taken is in flight.
LEMMA Pending ==
    ASSUME IInv, NEW m \in Machines, NEW i \in DOMAIN pool[m]
    PROVE  /\ pool[m] \in Seq(Futures) /\ pool[m][i] \in Futures /\ pool[m][i].job \in Jobs
           /\ pool[m][i].job \in JobsIn(pool[m]) /\ m \in InFlight(pool[m][i].job)
<1>1. pool[m] \in Seq(Futures)
  BY DEF IInv, TypeOK, Futures
<1>2. pool[m][i] \in Futures /\ pool[m][i].job \in Jobs
  <2>1. i \in 1..Len(pool[m])
    BY <1>1, LenProperties
  <2>2. pool[m][i] \in Futures
    BY <1>1, <2>1, ElementOfSeq
  <2>3. QED
    BY <2>2 DEF Futures
<1>3. QED
  BY <1>1, <1>2, Flying DEF JobsIn

\* The requests of clients, and the end of a submission.
LEMMA ClientTyped ==
    ASSUME TypeOK, NEW j \in Jobs, Client(j) \/ Submission(j)
    PROVE  TypeOK'
<1> USE DEF TypeOK, jobRest, execVars, modeVars, futureVars
<1>1. Cardinality({i \in Jobs : createdAt[i] # 0}) \in Nat
  BY FS_Subset, FS_CardinalityType, ConstantsAssumption
<1>2. CASE Create(j)
  <2>1. createdAt' \in [Jobs -> Nat]
    BY <1>1, <1>2 DEF Create
  <2>2. /\ jobStatus' \in [Jobs -> {"ABSENT"} \cup ActiveJobStatuses \cup TerminalStatuses]
        /\ submitting' \in [Jobs -> {"no", "enqueue", "refuse"}]
    BY <1>2 DEF Create, ActiveJobStatuses
  <2>3. QED
    BY <1>2, <2>1, <2>2 DEF Create
<1>3. CASE Enqueue(j)
  <2>1. queue' \in Seq(Jobs) /\ queued' \subseteq Jobs
    <3>1. Append(queue, j) \in Seq(Jobs)
      BY AppendProperties
    <3>2. \/ queue' = Append(queue, j) /\ queued' = queued \cup {j}
          \/ UNCHANGED <<queue, queued>>
      BY <1>3 DEF Enqueue
    <3>3. QED
      BY <3>1, <3>2
  <2>2. submitting' \in [Jobs -> {"no", "enqueue", "refuse"}]
    <3>1. \E s \in {"no", "refuse"} : submitting' = [submitting EXCEPT ![j] = s]
      BY <1>3, Zenon DEF Enqueue
    <3>2. QED
      BY <3>1
  <2>3. QED
    BY <1>3, <2>1, <2>2 DEF Enqueue, jobVars
<1>4. CASE Refuse(j)
  BY <1>4 DEF Refuse, TerminalStatuses
<1>5. CASE Cancel(j)
  BY <1>5 DEF Cancel, queueVars, ActiveJobStatuses
<1>6. CASE Delete(j)
  BY <1>6 DEF Delete, queueVars
<1>7. CASE Resume(j)
  <2>1. queue' \in Seq(Jobs) /\ queued' \subseteq Jobs
    <3>1. Append(queue, j) \in Seq(Jobs)
      BY AppendProperties
    <3>2. QED
      BY <1>7, <3>1 DEF Resume
  <2>2. round' \in [Jobs -> 0..MaxRounds]
    BY <1>7, ConstantsAssumption DEF Resume
  <2>3. /\ exec' \in [Jobs -> [Machines -> ExecStatuses]]
        /\ evidence' \in [Jobs -> [Machines -> Results \cup {"none", "CAPTURED"}]]
    BY <1>7 DEF Resume, ExecStatuses
  <2>4. /\ jobStatus' \in [Jobs -> {"ABSENT"} \cup ActiveJobStatuses \cup TerminalStatuses]
        /\ cancelRequested' \in [Jobs -> BOOLEAN]
    BY <1>7 DEF Resume, ActiveJobStatuses
  <2>5. QED
    BY <1>7, <2>1, <2>2, <2>3, <2>4 DEF Resume
<1>8. QED
  BY <1>2, <1>3, <1>4, <1>5, <1>6, <1>7 DEF Client, Submission

\* The routing thread.
LEMMA RouterTyped ==
    ASSUME IInv, RouterStep
    PROVE  TypeOK'
<1>0. TypeOK
  BY DEF IInv
<1>1. router.pc \in {"cancel", "mark", "dispatch"} => router.job \in Jobs
  BY DEF IInv, Entry
<1>2. Park \in [pc : {"get", "cancel", "mark", "dispatch", "exited"},
                job : Jobs \cup {NoJob}, round : 0..MaxRounds]
  BY ConstantsAssumption DEF Park, Parked
<1> USE DEF TypeOK, jobRest, execVars, modeVars
<1>3. CASE Route
  <2>1. Head(queue) \in Jobs /\ Tail(queue) \in Seq(Jobs)
    BY <1>0, <1>3, HeadTailProperties DEF Route
  <2>2. router' \in [pc : {"get", "cancel", "mark", "dispatch", "exited"},
                     job : Jobs \cup {NoJob}, round : 0..MaxRounds]
    BY <1>0, <1>2, <1>3, <2>1 DEF Route
  <2>3. queue' \in Seq(Jobs) /\ queued' \subseteq Jobs
    BY <1>0, <1>3, <2>1 DEF Route
  <2>4. QED
    BY <1>0, <1>3, <2>2, <2>3 DEF Route, jobVars, futureVars
<1>4. CASE RouteCanceled
  <2> DEFINE j == router.job
  <2>1. j \in Jobs
    BY <1>1, <1>4 DEF RouteCanceled
  <2>2. exec' \in [Jobs -> [Machines -> ExecStatuses]]
    BY <1>0, <1>4, <2>1 DEF RouteCanceled, ExecStatuses, TerminalStatuses
  <2>3. Synced(j, exec'[j], FALSE) \in {"ABSENT"} \cup ActiveJobStatuses \cup TerminalStatuses
    BY <1>0, <2>1, <2>2, AggregateIs DEF Synced, ActiveJobStatuses, TerminalStatuses
  <2>4. jobStatus' \in [Jobs -> {"ABSENT"} \cup ActiveJobStatuses \cup TerminalStatuses]
    BY <1>0, <1>4, <2>3 DEF RouteCanceled, Sync
  <2>5. queued' \subseteq Jobs
    BY <1>0, <1>4 DEF RouteCanceled
  <2>6. QED
    BY <1>0, <1>2, <1>4, <2>2, <2>4, <2>5 DEF RouteCanceled, futureVars
<1>5. CASE RouteMark
  <2>1. router' \in [pc : {"get", "cancel", "mark", "dispatch", "exited"},
                     job : Jobs \cup {NoJob}, round : 0..MaxRounds]
    BY <1>0, <1>5 DEF RouteMark
  <2>2. jobStatus' \in [Jobs -> {"ABSENT"} \cup ActiveJobStatuses \cup TerminalStatuses]
    BY <1>0, <1>5 DEF RouteMark, ActiveJobStatuses
  <2>3. QED
    BY <1>0, <1>5, <2>1, <2>2 DEF RouteMark, queueVars, futureVars
<1>6. CASE RouteDispatch
  <2>1. CASE stopping
    BY <1>0, <1>2, <1>6, <2>1 DEF RouteDispatch, jobVars, queueVars, futureVars
  <2>2. CASE ~stopping
    <3>1. router.job \in Jobs /\ router.round \in 0..MaxRounds
      BY <1>0, <1>1, <1>6 DEF RouteDispatch
    <3>2. pool' \in [Machines -> Seq([job : Jobs, round : 0..MaxRounds])]
      <4>1. [job |-> router.job, round |-> router.round] \in [job : Jobs, round : 0..MaxRounds]
        BY <3>1
      <4>2. \A m \in Machines : pool[m] \in Seq([job : Jobs, round : 0..MaxRounds])
        BY <1>0
      <4>3. QED
        <5>1. \A m \in Machines :
                 Append(pool[m], [job |-> router.job, round |-> router.round])
                     \in Seq([job : Jobs, round : 0..MaxRounds])
          BY <4>1, <4>2, AppendProperties
        <5>2. pool' = [m \in Machines |->
                          Append(pool[m], [job |-> router.job, round |-> router.round])]
          BY <1>6, <2>2 DEF RouteDispatch
        <5>3. QED
          BY <5>1, <5>2
    <3>3. futures' \subseteq Jobs /\ remaining' \in [Jobs -> Nat]
      <4>1. Cardinality(Machines) \in Nat
        BY FS_CardinalityType, ConstantsAssumption
      <4>2. /\ futures' = futures \cup {router.job}
            /\ remaining' = [remaining EXCEPT ![router.job] = Cardinality(Machines)]
        BY <1>6, <2>2 DEF RouteDispatch
      <4>3. QED
        BY <1>0, <3>1, <4>1, <4>2
    <3>4. QED
      BY <1>0, <1>2, <1>6, <2>2, <3>2, <3>3 DEF RouteDispatch, jobVars, queueVars
  <2>3. QED
    BY <2>1, <2>2
<1>7. QED
  BY <1>3, <1>4, <1>5, <1>6 DEF RouterStep

\* A step of _run_target.
LEMMA InnerTyped ==
    ASSUME IInv, NEW m \in Machines, Inner(m)
    PROVE  TypeOK'
<1>1. thread[m].job \in Jobs /\ TypeOK
  BY ThreadJob DEF Inner, IInv
<1>2. exec' \in [Jobs -> [Machines -> ExecStatuses]]
  BY <1>1 DEF Inner, Writes, TypeOK
<1>3. evidence' \in [Jobs -> [Machines -> Results \cup {"none", "CAPTURED"}]]
  BY <1>1 DEF Inner, Writes, TypeOK
<1>4. jobStatus' \in [Jobs -> {"ABSENT"} \cup ActiveJobStatuses \cup TerminalStatuses]
  BY <1>1 DEF Inner, Writes, TypeOK
<1>5. thread' \in [Machines -> Threads]
  BY <1>1 DEF Inner, Moves, TypeOK
<1>6. work' \in [Jobs -> [Machines -> WorkStates]] /\ losses' \in 0..MaxLosses
  BY <1>1 DEF Inner, Calls, TypeOK
<1>7. QED
  BY <1>1, <1>2, <1>3, <1>4, <1>5, <1>6
  DEF Inner, TargetOnly, TypeOK, jobRest, modeVars, queueVars, futureVars
-----------------------------------------------------------------------------
(* A target that leaves: its future is done, or was canceled.              *)

Leaves(j, m) ==
    /\ j \in Jobs /\ m \in InFlight(j)
    /\ \A i \in Jobs : InFlight(i)' = IF i = j THEN InFlight(j) \ {m} ELSE InFlight(i)
    /\ \/ stopping /\ UNCHANGED <<jobStatus, exec>>
       \/ /\ ~stopping
          /\ \E s \in TerminalStatuses : SetExec(j, m, s)
          /\ Sync(j, remaining[j] = 1)
    /\ Leave(j)
    /\ UNCHANGED <<cancelRequested, jobRest, evidence, modeVars, queue, submitting, lock, router,
                   work, losses, stops>>
    /\ \A k \in Machines : thread'[k].pc = "end" => thread'[k] = thread[k]
    /\ pool' \in [Machines -> Seq(Futures)] /\ thread' \in [Machines -> Threads]

\* A pool without one of its futures.
LEMMA PoolShrinks ==
    ASSUME IInv, NEW m \in Machines, NEW i \in DOMAIN pool[m], NEW r \in Seq(Futures),
           Lacks(r, pool[m], i), pool' = [pool EXCEPT ![m] = r], UNCHANGED <<thread, round>>
    PROVE  /\ pool' \in [Machines -> Seq(Futures)] /\ Pools'
           /\ \A j \in Jobs : InFlight(j)' = IF j = pool[m][i].job THEN InFlight(j) \ {m} ELSE InFlight(j)
<1> DEFINE e == pool[m][i]
<1>1. pool \in [Machines -> Seq(Futures)] /\ e.job \in Jobs
  BY Pending DEF IInv, TypeOK, Futures
<1>2. pool' \in [Machines -> Seq(Futures)] /\ pool'[m] = r /\ \A k \in Machines \ {m} : pool'[k] = pool[k]
  BY <1>1
<1>3. /\ Distinct(r) /\ JobsIn(r) = JobsIn(pool[m]) \ {e.job}
      /\ \A k \in DOMAIN r : \E l \in DOMAIN pool[m] : r[k] = pool[m][l]
  BY <1>1, PoolLess DEF IInv, Pools
<1>4. e.job \in JobsIn(pool[m]) /\ thread[m].job # e.job
  BY DEF JobsIn, IInv, Pools
<1>5. Pools'
  <2>1. ASSUME NEW k \in Machines PROVE
            /\ Distinct(pool'[k]) /\ thread[k].job \notin JobsIn(pool'[k])
            /\ \A l \in DOMAIN pool'[k] : pool'[k][l].round = round[pool'[k][l].job]
    <3>1. CASE k = m
      BY <1>2, <1>3, <3>1 DEF IInv, Pools
    <3>2. CASE k # m
      BY <1>2, <3>2 DEF IInv, Pools
    <3>3. QED
      BY <3>1, <3>2
  <2>2. \A k \in Machines :
            /\ thread[k].pc = "idle" <=> thread[k].job = NoJob
            /\ thread[k].pc \in Judging => thread[k].seen \in TerminalStatuses
            /\ thread[k].job # NoJob => thread[k].round = round[thread[k].job]
    BY DEF IInv, Pools
  <2>3. \A k \in Machines : JobsIn(pool[k])' = JobsIn(pool'[k]) /\ Distinct(pool[k])' = Distinct(pool'[k])
    BY DEF JobsIn, Distinct
  <2>4. QED
    BY <2>1, <2>2, <2>3 DEF Pools
<1>6. ASSUME NEW j \in Jobs
      PROVE  InFlight(j)' = IF j = e.job THEN InFlight(j) \ {m} ELSE InFlight(j)
  <2>1. InFlight(j)' = {k \in Machines : j \in JobsIn(pool'[k]) \/ thread[k].job = j}
    BY DEF InFlight, InPool, JobsIn
  <2>2. InFlight(j) = {k \in Machines : j \in JobsIn(pool[k]) \/ thread[k].job = j}
    BY DEF InFlight, InPool, JobsIn
  <2>3. \A k \in Machines \ {m} : JobsIn(pool'[k]) = JobsIn(pool[k])
    BY <1>2
  <2>4. JobsIn(pool'[m]) = JobsIn(pool[m]) \ {e.job}
    BY <1>2, <1>3
  <2>5. QED
    BY <1>4, <2>1, <2>2, <2>3, <2>4
<1>7. QED
  BY <1>2, <1>5, <1>6

\* The cancel of a future, and the shutdown of a pool.
LEMMA CanceledLeaves ==
    ASSUME IInv, NEW m \in Machines, CancelPending(m)
    PROVE  Leaves(lock, m) /\ Pools'
<1>1. PICK i \in DOMAIN pool[m] : /\ pool[m][i].job = lock
                                  /\ pool' = [pool EXCEPT ![m] = RemoveAt(pool[m], i)]
  BY DEF CancelPending
<1>2. pool[m] \in Seq(Futures) /\ lock \in Jobs /\ m \in InFlight(lock)
  BY <1>1, Pending
<1>3. RemoveAt(pool[m], i) \in Seq(Futures) /\ Lacks(RemoveAt(pool[m], i), pool[m], i)
  BY <1>2, Removed DEF Lacks
<1>4. UNCHANGED <<thread, round>>
  BY DEF CancelPending, jobRest
<1>5. /\ pool' \in [Machines -> Seq(Futures)] /\ Pools'
      /\ \A j \in Jobs : InFlight(j)' = IF j = lock THEN InFlight(j) \ {m} ELSE InFlight(j)
  BY <1>1, <1>3, <1>4, PoolShrinks
<1>6. thread' \in [Machines -> Threads]
  BY <1>4 DEF IInv, TypeOK
<1>7. /\ \/ stopping /\ UNCHANGED <<jobStatus, exec>>
         \/ /\ ~stopping
            /\ \E s \in TerminalStatuses : SetExec(lock, m, s)
            /\ Sync(lock, remaining[lock] = 1)
      /\ Leave(lock)
  BY DEF CancelPending, Finished, TerminalStatuses
<1>8. UNCHANGED <<cancelRequested, jobRest, evidence, modeVars, queue, submitting, lock, router,
                  work, losses, stops>>
  BY DEF CancelPending
<1>9. QED
  BY <1>2, <1>4, <1>5, <1>6, <1>7, <1>8 DEF Leaves

\* A future that shutdown cancels: its target leaves.
LEMMA DrainedLeaves ==
    ASSUME IInv, NEW m \in Machines, PoolDrain(m)
    PROVE  Leaves(Head(pool[m]).job, m) /\ Pools'
<1>1. pool[m] # <<>> /\ pool[m] \in Seq(Futures)
  BY DEF PoolDrain, IInv, TypeOK, Futures
<1>2. /\ Tail(pool[m]) \in Seq(Futures) /\ Lacks(Tail(pool[m]), pool[m], 1)
      /\ Head(pool[m]) = pool[m][1] /\ 1 \in DOMAIN pool[m]
  BY <1>1, TailLacks
<1>3. Head(pool[m]).job \in Jobs /\ m \in InFlight(Head(pool[m]).job)
  BY <1>2, Pending
<1>4. pool' = [pool EXCEPT ![m] = Tail(pool[m])] /\ UNCHANGED <<thread, round>>
  BY DEF PoolDrain, jobVars, jobRest
<1>5. /\ pool' \in [Machines -> Seq(Futures)] /\ Pools'
      /\ \A j \in Jobs :
            InFlight(j)' = IF j = Head(pool[m]).job THEN InFlight(j) \ {m} ELSE InFlight(j)
  BY <1>2, <1>4, PoolShrinks
<1>6. thread' \in [Machines -> Threads]
  BY <1>4 DEF IInv, TypeOK
<1>7. QED
  BY <1>3, <1>4, <1>5, <1>6 DEF Leaves, PoolDrain, jobVars, execVars

\* The end of a target, with the status of its row, or FAILED for one that raised.
LEMMA FinishedLeaves ==
    ASSUME IInv, NEW m \in Machines, TargetFinish(m)
    PROVE  Leaves(thread[m].job, m) /\ Pools'
<1> DEFINE j == thread[m].job
           s == IF thread[m].fault THEN Kept("FAILED", evidence[j][m]) ELSE exec[j][m]
<1>1. thread[m].pc = "end" /\ thread[m].pc # "idle"
  BY DEF TargetFinish, At
<1>2. j \in Jobs /\ m \in InFlight(j) /\ j # NoJob
  BY <1>1, ThreadJob, ConstantsAssumption
<1>3. thread' = [thread EXCEPT ![m] = Idle] /\ UNCHANGED <<pool, round>>
  BY DEF TargetFinish, jobRest
<1>4. Idle \in Threads /\ Idle.pc = "idle" /\ Idle.job = NoJob
  <2>1. 0 \in 0..MaxRounds
    BY ConstantsAssumption
  <2>2. QED
    BY <2>1 DEF Idle, Threads, TargetPcs
<1>5. /\ thread \in [Machines -> Threads] /\ thread' \in [Machines -> Threads]
      /\ thread'[m] = Idle /\ \A k \in Machines \ {m} : thread'[k] = thread[k]
  BY <1>3, <1>4 DEF IInv, TypeOK
<1>6. pool' \in [Machines -> Seq(Futures)]
  BY <1>3 DEF IInv, TypeOK, Futures
<1>7. NoJob \notin JobsIn(pool[m])
  BY Pending, ConstantsAssumption DEF JobsIn
<1>8. Pools'
  <2>1. ASSUME NEW k \in Machines PROVE
            /\ thread'[k].job \notin JobsIn(pool[k])
            /\ thread'[k].pc = "idle" <=> thread'[k].job = NoJob
            /\ thread'[k].pc \in Judging => thread'[k].seen \in TerminalStatuses
            /\ thread'[k].job # NoJob => thread'[k].round = round[thread'[k].job]
    <3>1. CASE k = m
      BY <1>4, <1>5, <1>7, <3>1 DEF Judging
    <3>2. CASE k # m
      BY <1>5, <3>2 DEF IInv, Pools
    <3>3. QED
      BY <3>1, <3>2
  <2>2. \A k \in Machines :
            Distinct(pool[k]) /\ \A l \in DOMAIN pool[k] : pool[k][l].round = round[pool[k][l].job]
    BY DEF IInv, Pools
  <2>3. \A k \in Machines : JobsIn(pool[k])' = JobsIn(pool[k]) /\ Distinct(pool[k])' = Distinct(pool[k])
    BY <1>3 DEF JobsIn, Distinct
  <2>4. QED
    BY <1>3, <2>1, <2>2, <2>3 DEF Pools
<1>9. ASSUME NEW i \in Jobs
      PROVE  InFlight(i)' = IF i = j THEN InFlight(j) \ {m} ELSE InFlight(i)
  <2>1. InFlight(i)' = {k \in Machines : i \in JobsIn(pool[k]) \/ thread'[k].job = i}
    BY <1>3 DEF InFlight, InPool, JobsIn
  <2>2. InFlight(i) = {k \in Machines : i \in JobsIn(pool[k]) \/ thread[k].job = i}
    BY DEF InFlight, InPool, JobsIn
  <2>3. j \notin JobsIn(pool[m]) /\ i # NoJob
    BY ConstantsAssumption DEF IInv, Pools
  <2>4. CASE i = j
    BY <1>4, <1>5, <2>1, <2>2, <2>3, <2>4
  <2>5. CASE i # j
    BY <1>4, <1>5, <2>1, <2>2, <2>3, <2>5
  <2>6. QED
    BY <2>4, <2>5
<1>10. ~stopping => s \in TerminalStatuses
  <2>1. CASE thread[m].fault
    BY <2>1, KeptIs DEF TerminalStatuses, ExecStatuses
  <2>2. CASE ~thread[m].fault
    BY <1>1, <2>2 DEF IInv, Settled, At
  <2>3. QED
    BY <2>1, <2>2
<1> HIDE DEF s
<1>11. Finished(j, m, s)
  BY DEF TargetFinish, s
<1>12. /\ \/ stopping /\ UNCHANGED <<jobStatus, exec>>
          \/ /\ ~stopping
             /\ \E x \in TerminalStatuses : SetExec(j, m, x)
             /\ Sync(j, remaining[j] = 1)
       /\ Leave(j)
  BY <1>10, <1>11 DEF Finished
<1>13. \A k \in Machines : thread'[k].pc = "end" => thread'[k] = thread[k]
  BY <1>4, <1>5
<1>14. UNCHANGED <<cancelRequested, jobRest, evidence, modeVars, queue, submitting, lock, router,
                   work, losses, stops>>
  BY DEF TargetFinish
<1>15. QED
  BY <1>2, <1>5, <1>6, <1>8, <1>9, <1>12, <1>13, <1>14 DEF Leaves
-----------------------------------------------------------------------------
(* Pools and counters: Pools, Counted, and the targets in flight.          *)

SameFlights == \A j \in Jobs : InFlight(j)' = InFlight(j)

\* Steps that are not about targets.
Calm == UNCHANGED <<pool, thread, round, futures, remaining>>

\* Counted for equal flights and counters.
\* Counted only depends on the flights and the counters.
LEMMA SameCounted ==
    ASSUME Counted, SameFlights, UNCHANGED <<futures, remaining>>
    PROVE  Counted'
BY DEF Counted, SameFlights

\* Steps that are not about targets keep Pools and Counted.
LEMMA CalmStep ==
    ASSUME IInv, Calm
    PROVE  Pools' /\ SameFlights /\ Counted'
<1>1. Pools'
  <2>1. \A k \in Machines : JobsIn(pool[k])' = JobsIn(pool[k]) /\ Distinct(pool[k])' = Distinct(pool[k])
    BY DEF Calm, JobsIn, Distinct
  <2>2. QED
    BY <2>1 DEF IInv, Calm, Pools
<1>2. SameFlights
  BY DEF Calm, SameFlights, InFlight, InPool
<1>3. QED
  BY <1>1, <1>2, SameCounted DEF IInv, Calm

\* A thread that goes on keeps its job.
LEMMA InnerFlights ==
    ASSUME IInv, NEW m \in Machines, Inner(m)
    PROVE  Pools' /\ SameFlights /\ Counted'
<1>1. PICK t \in Threads :
          /\ thread' = [thread EXCEPT ![m] = t]
          /\ t.job = thread[m].job /\ t.round = thread[m].round /\ t.pc # "idle"
          /\ t.pc \in Judging => t.seen \in TerminalStatuses
  BY DEF Inner, Moves
<1>2. UNCHANGED <<pool, round, futures, remaining>>
  BY DEF Inner, TargetOnly, jobRest, futureVars
<1>3. thread'[m] = t /\ \A k \in Machines \ {m} : thread'[k] = thread[k]
  BY <1>1 DEF IInv, TypeOK
<1>4. thread[m].job # NoJob
  BY DEF IInv, Pools, Inner
<1>5. Pools'
  <2>1. ASSUME NEW k \in Machines PROVE
            /\ thread'[k].job \notin JobsIn(pool[k])
            /\ thread'[k].pc = "idle" <=> thread'[k].job = NoJob
            /\ thread'[k].pc \in Judging => thread'[k].seen \in TerminalStatuses
            /\ thread'[k].job # NoJob => thread'[k].round = round[thread'[k].job]
    <3>1. CASE k = m
      BY <1>1, <1>3, <1>4, <3>1 DEF IInv, Pools
    <3>2. CASE k # m
      BY <1>3, <3>2 DEF IInv, Pools
    <3>3. QED
      BY <3>1, <3>2
  <2>2. \A k \in Machines :
            Distinct(pool[k]) /\ \A l \in DOMAIN pool[k] : pool[k][l].round = round[pool[k][l].job]
    BY DEF IInv, Pools
  <2>3. \A k \in Machines : JobsIn(pool[k])' = JobsIn(pool[k]) /\ Distinct(pool[k])' = Distinct(pool[k])
    BY <1>2 DEF JobsIn, Distinct
  <2>4. QED
    BY <1>2, <2>1, <2>2, <2>3 DEF Pools
<1>6. \A k \in Machines : thread'[k].job = thread[k].job
  BY <1>1, <1>3
<1>7. SameFlights
  BY <1>2, <1>6 DEF SameFlights, InFlight, InPool
<1>8. QED
  BY <1>2, <1>5, <1>7, SameCounted DEF IInv

\* A thread takes a future of its pool.
LEMMA TakeStep ==
    ASSUME IInv, NEW m \in Machines, TargetTake(m)
    PROVE  /\ Pools' /\ SameFlights /\ Counted'
           /\ pool' \in [Machines -> Seq(Futures)] /\ thread' \in [Machines -> Threads]
           /\ \A k \in Machines : thread'[k].pc = "end" => thread'[k] = thread[k]
<1> DEFINE e == Head(pool[m])
           t == [Idle EXCEPT !.pc = "start", !.job = e.job, !.round = e.round]
           r == Tail(pool[m])
<1>1. pool[m] # <<>> /\ pool[m] \in Seq(Futures) /\ thread[m].job = NoJob
  BY DEF TargetTake, At, IInv, TypeOK, Pools, Futures
<1>2. r \in Seq(Futures) /\ Lacks(r, pool[m], 1) /\ e = pool[m][1] /\ 1 \in DOMAIN pool[m]
  BY <1>1, TailLacks
<1>3. e \in Futures /\ e.job \in Jobs /\ e.job # NoJob
  BY <1>2, Pending, ConstantsAssumption
<1>4. /\ Distinct(r) /\ JobsIn(r) = JobsIn(pool[m]) \ {e.job}
      /\ \A k \in DOMAIN r : \E l \in DOMAIN pool[m] : r[k] = pool[m][l]
  <2>1. Distinct(pool[m])
    BY DEF IInv, Pools
  <2> HIDE DEF r
  <2>2. /\ Distinct(r) /\ JobsIn(r) = JobsIn(pool[m]) \ {pool[m][1].job}
        /\ \A k \in DOMAIN r : \E l \in DOMAIN pool[m] : r[k] = pool[m][l]
    BY <1>1, <1>2, <2>1, PoolLess
  <2>3. QED
    BY <1>2, <2>2
<1>5. t \in Threads /\ t.job = e.job /\ t.round = e.round /\ t.pc = "start"
  BY <1>3 DEF Idle, Threads, Futures, TargetPcs
<1>6. pool' = [pool EXCEPT ![m] = r] /\ thread' = [thread EXCEPT ![m] = t]
  BY DEF TargetTake
<1>7. UNCHANGED <<round, futures, remaining>>
  BY DEF TargetTake, jobVars, jobRest, futureVars
<1>8. e.round = round[e.job] /\ e.job \in JobsIn(pool[m])
  BY <1>2 DEF IInv, Pools, JobsIn
<1> HIDE DEF t, r, e
<1>9. /\ pool'[m] = r /\ thread'[m] = t
      /\ \A k \in Machines \ {m} : pool'[k] = pool[k] /\ thread'[k] = thread[k]
      /\ pool' \in [Machines -> Seq(Futures)] /\ thread' \in [Machines -> Threads]
  BY <1>2, <1>5, <1>6 DEF IInv, TypeOK, Futures
<1>10. Pools'
  <2>1. ASSUME NEW k \in Machines PROVE
            /\ Distinct(pool'[k]) /\ thread'[k].job \notin JobsIn(pool'[k])
            /\ thread'[k].pc = "idle" <=> thread'[k].job = NoJob
            /\ thread'[k].pc \in Judging => thread'[k].seen \in TerminalStatuses
            /\ thread'[k].job # NoJob => thread'[k].round = round[thread'[k].job]
            /\ \A l \in DOMAIN pool'[k] : pool'[k][l].round = round[pool'[k][l].job]
    <3>1. CASE k = m
      BY <1>3, <1>4, <1>5, <1>8, <1>9, <3>1 DEF IInv, Pools, Judging
    <3>2. CASE k # m
      BY <1>9, <3>2 DEF IInv, Pools
    <3>3. QED
      BY <3>1, <3>2
  <2>2. \A k \in Machines : JobsIn(pool[k])' = JobsIn(pool'[k]) /\ Distinct(pool[k])' = Distinct(pool'[k])
    BY DEF JobsIn, Distinct
  <2>3. QED
    BY <1>7, <2>1, <2>2 DEF Pools
<1>11. SameFlights
  <2>1. ASSUME NEW j \in Jobs PROVE InFlight(j)' = InFlight(j)
    <3>1. InFlight(j)' = {k \in Machines : j \in JobsIn(pool'[k]) \/ thread'[k].job = j}
      BY DEF InFlight, InPool, JobsIn
    <3>2. InFlight(j) = {k \in Machines : j \in JobsIn(pool[k]) \/ thread[k].job = j}
      BY DEF InFlight, InPool, JobsIn
    <3>3. j # NoJob
      BY ConstantsAssumption
    <3>4. QED
      BY <1>1, <1>4, <1>5, <1>8, <1>9, <3>1, <3>2, <3>3
  <2>2. QED
    BY <2>1 DEF SameFlights
<1>12. Counted'
  BY <1>7, <1>11, SameCounted DEF IInv
<1>13. \A k \in Machines : thread'[k].pc = "end" => thread'[k] = thread[k]
  BY <1>5, <1>9
<1>14. QED
  BY <1>9, <1>10, <1>11, <1>12, <1>13

\* A target that leaves is counted down.
LEMMA LeavesCounted ==
    ASSUME IInv, NEW j, NEW m \in Machines, Leaves(j, m)
    PROVE  Counted'
<1>1. /\ j \in Jobs /\ m \in InFlight(j) /\ j \in futures
      /\ \A i \in Jobs : InFlight(i)' = IF i = j THEN InFlight(j) \ {m} ELSE InFlight(i)
  BY Flying DEF Leaves
<1>2. /\ remaining[j] = Cardinality(InFlight(j)) /\ remaining[j] > 0
      /\ Cardinality(InFlight(j) \ {m}) = remaining[j] - 1
      /\ remaining[j] = 1 <=> InFlight(j) \ {m} = {}
  BY <1>1, FlightCounts
<1>3. /\ remaining' = [remaining EXCEPT ![j] = @ - 1]
      /\ futures' = IF remaining[j] = 1 THEN futures \ {j} ELSE futures
  BY DEF Leaves, Leave
<1>4. ASSUME NEW i \in Jobs PROVE remaining'[i] = Cardinality(InFlight(i)')
  BY <1>1, <1>2, <1>3 DEF IInv, Counted, TypeOK
<1>5. futures' = {i \in Jobs : InFlight(i)' # {}}
  BY <1>1, <1>2, <1>3 DEF IInv, Counted
<1>6. QED
  BY <1>4, <1>5 DEF Counted

\* A job that is resumed has no target in flight.
LEMMA ResumeFlights ==
    ASSUME IInv, NEW j \in Jobs, Resume(j)
    PROVE  Pools' /\ SameFlights /\ Counted'
<1>1. UNCHANGED <<pool, thread, futures, remaining>> /\ round' = [round EXCEPT ![j] = @ + 1]
  BY DEF Resume, futureVars
<1>2. jobStatus[j] \notin ActiveJobStatuses
  BY DEF Resume, ResumableStatuses, TerminalStatuses, ActiveJobStatuses
<1>3. \A m \in Machines : j \notin JobsIn(pool[m]) /\ thread[m].job # j
  BY <1>2, Flying
<1>4. \A i \in Jobs \ {j} : round'[i] = round[i]
  BY <1>1 DEF IInv, TypeOK
<1>5. Pools'
  <2>1. ASSUME NEW k \in Machines
        PROVE  /\ thread[k].job # NoJob => thread[k].round = round'[thread[k].job]
               /\ \A l \in DOMAIN pool[k] : pool[k][l].round = round'[pool[k][l].job]
    <3>1. thread[k].job # NoJob => thread[k].job \in Jobs \ {j}
      BY <1>3 DEF IInv, TypeOK, Threads
    <3>2. \A l \in DOMAIN pool[k] : pool[k][l].job \in Jobs \ {j}
      BY <1>3, Pending
    <3>3. QED
      BY <1>4, <3>1, <3>2 DEF IInv, Pools
  <2>2. \A k \in Machines : JobsIn(pool[k])' = JobsIn(pool[k]) /\ Distinct(pool[k])' = Distinct(pool[k])
    BY <1>1 DEF JobsIn, Distinct
  <2>3. QED
    BY <1>1, <2>1, <2>2 DEF IInv, Pools
<1>6. SameFlights
  BY <1>1 DEF SameFlights, InFlight, InPool
<1>7. QED
  BY <1>1, <1>5, <1>6, SameCounted DEF IInv

\* The futures of a job enter every pool.
LEMMA DispatchFlights ==
    ASSUME IInv, RouteDispatch, ~stopping
    PROVE  /\ Pools' /\ Counted' /\ router.job \in Jobs /\ InFlight(router.job) = {}
           /\ \A i \in Jobs :
                 InFlight(i)' = IF i = router.job THEN Machines ELSE InFlight(i)
<1> DEFINE j == router.job
           e == [job |-> j, round |-> router.round]
<1>1. j \in Jobs /\ router.round = round[j] /\ j \notin futures /\ Routed(j)
  BY DEF RouteDispatch, IInv, Entry, Routed
<1>2. InFlight(j) = {} /\ \A m \in Machines : j \notin JobsIn(pool[m]) /\ thread[m].job # j
  <2>1. InFlight(j) = {}
    BY <1>1 DEF IInv, Counted
  <2>2. QED
    BY <1>1, <2>1, Flying
<1>3. /\ pool' = [m \in Machines |-> Append(pool[m], e)]
      /\ futures' = futures \cup {j}
      /\ remaining' = [remaining EXCEPT ![j] = Cardinality(Machines)]
  BY DEF RouteDispatch
<1>4. UNCHANGED <<thread, round>>
  BY DEF RouteDispatch, jobVars, jobRest
<1>5. e \in Futures /\ e.job = j /\ e.round = round[j]
  BY <1>1 DEF Futures, IInv, TypeOK
<1> HIDE DEF e
<1>6. ASSUME NEW m \in Machines
      PROVE  /\ pool'[m] = Append(pool[m], e) /\ Distinct(pool'[m])
             /\ JobsIn(pool'[m]) = JobsIn(pool[m]) \cup {j}
             /\ \A k \in DOMAIN pool'[m] : pool'[m][k] = e \/ \E l \in DOMAIN pool[m] : pool'[m][k] = pool[m][l]
  <2>1. pool[m] \in Seq(Futures) /\ Distinct(pool[m])
    BY DEF IInv, TypeOK, Pools, Futures
  <2>2. pool'[m] = Append(pool[m], e)
    BY <1>3
  <2>3. QED
    BY <1>2, <1>5, <2>1, <2>2, PoolMore
<1>7. Pools'
  <2>1. \A k \in Machines : JobsIn(pool[k])' = JobsIn(pool'[k]) /\ Distinct(pool[k])' = Distinct(pool'[k])
    BY DEF JobsIn, Distinct
  <2>2. ASSUME NEW k \in Machines PROVE
            /\ Distinct(pool'[k]) /\ thread[k].job \notin JobsIn(pool'[k])
            /\ thread[k].pc = "idle" <=> thread[k].job = NoJob
            /\ thread[k].pc \in Judging => thread[k].seen \in TerminalStatuses
            /\ thread[k].job # NoJob => thread[k].round = round[thread[k].job]
            /\ \A l \in DOMAIN pool'[k] : pool'[k][l].round = round[pool'[k][l].job]
    BY <1>2, <1>5, <1>6 DEF IInv, Pools
  <2>3. QED
    BY <1>4, <2>1, <2>2 DEF Pools
<1>8. ASSUME NEW i \in Jobs PROVE InFlight(i)' = IF i = j THEN Machines ELSE InFlight(i)
  <2>1. InFlight(i)' = {k \in Machines : i \in JobsIn(pool'[k]) \/ thread[k].job = i}
    BY <1>4 DEF InFlight, InPool, JobsIn
  <2>2. InFlight(i) = {k \in Machines : i \in JobsIn(pool[k]) \/ thread[k].job = i}
    BY DEF InFlight, InPool, JobsIn
  <2>3. \A k \in Machines : JobsIn(pool'[k]) = JobsIn(pool[k]) \cup {j}
    BY <1>6
  <2>4. CASE i = j
    BY <2>1, <2>3, <2>4
  <2>5. CASE i # j
    BY <2>1, <2>2, <2>3, <2>5
  <2>6. QED
    BY <2>4, <2>5
<1>9. Counted'
  <2>1. \A i \in Jobs : remaining'[i] = Cardinality(InFlight(i)')
    BY <1>1, <1>3, <1>8 DEF IInv, Counted, TypeOK
  <2>2. futures' = {i \in Jobs : InFlight(i)' # {}}
    BY <1>1, <1>3, <1>8, ConstantsAssumption DEF IInv, Counted
  <2>3. QED
    BY <2>1, <2>2 DEF Counted
<1>10. QED
  BY <1>1, <1>2, <1>7, <1>8, <1>9

\* The process ends with its pools.
LEMMA ExitFlights ==
    ASSUME IInv, Exit
    PROVE  Pools' /\ Counted' /\ \A j \in Jobs : InFlight(j)' = {}
<1>1. /\ pool' = [m \in Machines |-> <<>>] /\ thread' = [m \in Machines |-> Idle]
      /\ futures' = {} /\ remaining' = [j \in Jobs |-> 0]
  BY DEF Exit
<1>2. Idle.pc = "idle" /\ Idle.job = NoJob
  BY DEF Idle
<1>3. Pools'
  BY <1>1, <1>2 DEF Pools, Distinct, JobsIn, Judging
<1>4. \A j \in Jobs : InFlight(j)' = {}
  BY <1>1, <1>2, ConstantsAssumption DEF InFlight, InPool
<1>5. QED
  BY <1>1, <1>3, <1>4, FS_EmptySet DEF Counted
-----------------------------------------------------------------------------
(* Entry, Accepted, Tracked, Settled and OutcomeAgrees.                    *)

Book == Entry /\ Accepted /\ Tracked /\ Settled /\ OutcomeAgrees

\* No status is of two kinds.
LEMMA Kinds ==
    /\ ActiveJobStatuses \cap TerminalStatuses = {}
    /\ "ABSENT" \notin ActiveJobStatuses \cup TerminalStatuses
    /\ {"CREATED", "DISPATCHING", "CANCELING"} \subseteq ActiveJobStatuses
    /\ {"FAILED", "CANCELED"} \subseteq TerminalStatuses
    /\ ResumableStatuses \subseteq TerminalStatuses
BY DEF ActiveJobStatuses, TerminalStatuses, ResumableStatuses

\* Where a job can be at all, it is active and was not deleted.
LEMMA Held ==
    ASSUME IInv, NEW j \in Jobs, j \in queued \/ Routed(j) \/ j \in Listed(queue) \/ j \in futures
    PROVE  /\ j \in queued /\ up /\ submitting[j] = "no" /\ ~deleted[j]
           /\ jobStatus[j] \in ActiveJobStatuses
BY Kinds DEF IInv, Entry, Accepted

\* A step of _run_target.
LEMMA InnerBook ==
    ASSUME IInv, NEW m \in Machines, Inner(m)
    PROVE  Book'
<1> DEFINE j == thread[m].job
<1>1. /\ j \in Jobs /\ m \in InFlight(j) /\ j \in futures /\ j \in queued /\ ~deleted[j]
      /\ submitting[j] = "no" /\ jobStatus[j] \in ActiveJobStatuses
  BY ThreadJob, Held DEF Inner
<1>2. PICK s \in ExecStatuses : exec' = [exec EXCEPT ![j][m] = s]
  BY DEF Inner, Writes
<1>3. PICK a \in ActiveJobStatuses : jobStatus' = [jobStatus EXCEPT ![j] = a]
  BY DEF Inner, Writes
<1>4. PICK t \in Threads :
          /\ thread' = [thread EXCEPT ![m] = t] /\ t.job = j
          /\ t.pc = "end" /\ ~t.fault /\ ~stopping => exec'[j][m] \in TerminalStatuses
  BY DEF Inner, Moves
<1>5. /\ UNCHANGED <<deleted, round, up, stopping, queue, queued, submitting, futures, router>>
      /\ SameFlights
  BY InnerFlights DEF Inner, TargetOnly, jobRest, modeVars, queueVars, futureVars
<1> HIDE DEF j
<1>6. /\ \A i \in Jobs \ {j} : jobStatus'[i] = jobStatus[i] /\ exec'[i] = exec[i]
      /\ \A k \in Machines \ {m} : exec'[j][k] = exec[j][k] /\ thread'[k] = thread[k]
      /\ jobStatus'[j] = a /\ thread'[m] = t
  BY <1>1, <1>2, <1>3, <1>4 DEF IInv, TypeOK
<1>7. Entry'
  BY <1>5 DEF IInv, Entry, Routed, Listed, Once
<1>8. Accepted'
  BY <1>1, <1>5, <1>6, Kinds DEF IInv, Accepted
<1>9. Tracked'
  BY <1>1, <1>5, <1>6 DEF IInv, Tracked, Routed, Listed
<1>10. Settled'
  <2>1. ASSUME ~stopping, NEW i \in futures, NEW k \in Machines, k \notin InFlight(i)
        PROVE  exec'[i][k] \in TerminalStatuses
    <3>1. i \in Jobs /\ exec[i][k] \in TerminalStatuses
      BY <2>1 DEF IInv, Settled, TypeOK
    <3>2. QED
      BY <1>1, <1>6, <2>1, <3>1
  <2>2. ASSUME ~stopping, NEW k \in Machines, thread'[k].pc = "end", ~thread'[k].fault
        PROVE  exec'[thread'[k].job][k] \in TerminalStatuses
    <3>1. CASE k = m
      BY <1>4, <1>6, <2>2, <3>1
    <3>2. CASE k # m
      <4>1. exec[thread[k].job][k] \in TerminalStatuses /\ thread'[k] = thread[k]
        BY <1>6, <2>2, <3>2 DEF IInv, Settled, At
      <4>2. thread[k].job \in Jobs
        BY <2>2, <4>1, ThreadJob
      <4>3. QED
        BY <1>6, <3>2, <4>1, <4>2
    <3>3. QED
      BY <3>1, <3>2
  <2>3. \A i \in Jobs : InFlight(i)' = InFlight(i)
    BY <1>5 DEF SameFlights
  <2>4. futures \subseteq Jobs
    BY DEF IInv, TypeOK
  <2>5. QED
    BY <1>5, <2>1, <2>2, <2>3, <2>4 DEF Settled, At
<1>11. OutcomeAgrees'
  <2>1. ASSUME NEW i \in Jobs, jobStatus'[i] \in TerminalStatuses PROVE i # j
    BY <1>6, <2>1, Kinds
  <2>2. QED
    BY <1>6, <2>1 DEF IInv, OutcomeAgrees
<1>12. QED
  BY <1>7, <1>8, <1>9, <1>10, <1>11 DEF Book

\* A target that leaves; the last one brings the outcome.
LEMMA LeavesBook ==
    ASSUME IInv, NEW j, NEW m \in Machines, Leaves(j, m)
    PROVE  /\ Book'
           /\ \A i \in Jobs \ {j} : jobStatus'[i] = jobStatus[i]
           /\ jobStatus[j] \in ActiveJobStatuses
           /\ \/ jobStatus'[j] \in ActiveJobStatuses
              \/ InFlight(j) = {m} /\ jobStatus'[j] \in TerminalStatuses
<1>1. /\ j \in Jobs /\ m \in InFlight(j) /\ j \in futures /\ j \in queued /\ ~deleted[j]
      /\ submitting[j] = "no" /\ jobStatus[j] \in ActiveJobStatuses /\ up
  BY Flying, Held DEF Leaves
<1>2. /\ UNCHANGED <<deleted, round, up, stopping, queue, submitting, router>>
      /\ \A i \in Jobs : InFlight(i)' = IF i = j THEN InFlight(j) \ {m} ELSE InFlight(i)
      /\ \A k \in Machines : thread'[k].pc = "end" => thread'[k] = thread[k]
  BY DEF Leaves, jobRest, modeVars
<1>3. /\ futures' = IF remaining[j] = 1 THEN futures \ {j} ELSE futures
      /\ queued' = IF remaining[j] = 1 THEN queued \ {j} ELSE queued
  BY DEF Leaves, Leave
<1>4. remaining[j] = 1 <=> InFlight(j) = {m}
  <2>1. remaining[j] = 1 <=> InFlight(j) \ {m} = {}
    BY <1>1, FlightCounts
  <2>2. QED
    BY <1>1, <2>1
<1>5. Entry'
  BY <1>1, <1>2, <1>3 DEF IInv, Entry, Routed, Listed, Once
<1>6. CASE stopping
  <2>1. UNCHANGED <<jobStatus, exec>>
    BY <1>6 DEF Leaves
  <2>2. Accepted'
    BY <1>1, <1>2, <1>3, <2>1 DEF IInv, Accepted
  <2>3. OutcomeAgrees'
    BY <2>1 DEF IInv, OutcomeAgrees
  <2>4. QED
    BY <1>1, <1>2, <1>5, <1>6, <2>1, <2>2, <2>3 DEF Book, Tracked, Settled
<1>7. CASE ~stopping
  <2>1. PICK s \in TerminalStatuses : exec' = [exec EXCEPT ![j][m] = s]
    BY <1>7 DEF Leaves, SetExec
  <2>2. jobStatus' = [jobStatus EXCEPT ![j] = Synced(j, exec'[j], remaining[j] = 1)]
    BY <1>7 DEF Leaves, Sync
  <2>3. /\ \A i \in Jobs \ {j} : jobStatus'[i] = jobStatus[i] /\ exec'[i] = exec[i]
        /\ \A k \in Machines \ {m} : exec'[j][k] = exec[j][k]
        /\ exec'[j][m] = s /\ exec'[j] \in [Machines -> ExecStatuses]
        /\ jobStatus'[j] = Synced(j, exec'[j], remaining[j] = 1)
    BY <1>1, <2>1, <2>2 DEF IInv, TypeOK, ExecStatuses
  <2>4. \A k \in Machines : k \in InFlight(j) \ {m} \/ exec'[j][k] \in TerminalStatuses
    BY <1>1, <1>7, <2>3 DEF IInv, Settled
  <2>5. Settled'
    <3>1. ASSUME NEW i \in futures', NEW k \in Machines, k \notin InFlight(i)'
          PROVE  exec'[i][k] \in TerminalStatuses
      <4>1. i \in futures /\ i \in Jobs
        BY <1>3 DEF IInv, TypeOK
      <4>2. CASE i = j
        BY <1>1, <1>2, <2>4, <3>1, <4>2
      <4>3. CASE i # j
        BY <1>2, <1>7, <2>3, <3>1, <4>1, <4>3 DEF IInv, Settled
      <4>4. QED
        BY <4>2, <4>3
    <3>2. ASSUME NEW k \in Machines, thread'[k].pc = "end", ~thread'[k].fault
          PROVE  exec'[thread'[k].job][k] \in TerminalStatuses
      <4>1. thread'[k] = thread[k] /\ exec[thread[k].job][k] \in TerminalStatuses
        BY <1>2, <1>7, <3>2 DEF IInv, Settled, At
      <4>2. thread[k].job \in Jobs
        BY <3>2, <4>1, ThreadJob
      <4>3. QED
        BY <2>3, <4>1, <4>2
    <3>3. QED
      BY <3>1, <3>2 DEF Settled, At
  <2>6. CASE remaining[j] = 1
    <3>1. jobStatus'[j] = Aggregate(exec'[j]) /\ Aggregate(exec'[j]) \in TerminalStatuses
      <4>1. \A k \in Machines : exec'[j][k] \in TerminalStatuses
        BY <1>4, <2>4, <2>6
      <4>2. QED
        BY <1>1, <2>3, <2>6, <4>1, SyncedClosed
    <3>2. Accepted'
      BY <1>1, <1>2, <1>3, <2>3, <2>6, <3>1, Kinds DEF IInv, Accepted
    <3>3. Tracked'
      BY <1>1, <1>2, <1>3, <2>3, <2>6, <3>1, Kinds DEF IInv, Tracked, Routed, Listed
    <3>4. OutcomeAgrees'
      BY <2>3, <3>1 DEF IInv, OutcomeAgrees
    <3>5. QED
      BY <1>1, <1>4, <1>5, <2>3, <2>5, <2>6, <3>1, <3>2, <3>3, <3>4 DEF Book
  <2>7. CASE remaining[j] # 1
    <3>1. jobStatus'[j] \in ActiveJobStatuses
      BY <1>1, <2>3, <2>7, SyncedOpen
    <3>2. Accepted'
      BY <1>1, <1>2, <1>3, <2>3, <2>7, <3>1, Kinds DEF IInv, Accepted
    <3>3. Tracked'
      BY <1>1, <1>2, <1>3, <2>3, <2>7, <3>1 DEF IInv, Tracked, Routed, Listed
    <3>4. OutcomeAgrees'
      BY <2>3, <3>1, Kinds DEF IInv, OutcomeAgrees
    <3>5. QED
      BY <1>1, <1>5, <2>3, <2>5, <3>1, <3>2, <3>3, <3>4 DEF Book
  <2>8. QED
    BY <2>6, <2>7
<1>8. QED
  BY <1>6, <1>7

\* Requests, and the end of a submission.
LEMMA CreateBook ==
    ASSUME IInv, NEW j \in Jobs, Create(j)
    PROVE  Book'
<1>1. /\ up /\ jobStatus[j] = "ABSENT" /\ j \notin queued /\ ~deleted[j] /\ exec[j] = Untouched
      /\ jobStatus' = [jobStatus EXCEPT ![j] = "CREATED"]
      /\ submitting' = [submitting EXCEPT ![j] = "enqueue"]
  BY Kinds DEF Create, IInv, Accepted
<1>2. UNCHANGED <<deleted, round, exec, up, stopping, queue, queued, futures, remaining, router, pool, thread>>
  BY DEF Create, execVars, modeVars, futureVars
<1>3. /\ \A i \in Jobs \ {j} : jobStatus'[i] = jobStatus[i] /\ submitting'[i] = submitting[i]
      /\ jobStatus'[j] = "CREATED" /\ submitting'[j] = "enqueue" /\ jobStatus'[j] \in ActiveJobStatuses
  BY <1>1, Kinds DEF IInv, TypeOK
<1>4. SameFlights
  BY <1>2, CalmStep DEF Calm
<1>5. Entry'
  BY <1>2 DEF IInv, Entry, Routed, Listed, Once
<1>6. Accepted'
  BY <1>1, <1>2, <1>3 DEF IInv, Accepted
<1>7. Tracked'
  BY <1>1, <1>2, <1>3 DEF IInv, Tracked, Routed, Listed
<1>8. Settled'
  BY <1>2, <1>4 DEF IInv, TypeOK, Settled, SameFlights, At
<1>9. OutcomeAgrees'
  BY <1>2, <1>3, Kinds DEF IInv, OutcomeAgrees
<1>10. QED
  BY <1>5, <1>6, <1>7, <1>8, <1>9 DEF Book

\* A job that was created enters the queue, or is to be refused.
LEMMA EnqueueBook ==
    ASSUME IInv, NEW j \in Jobs, Enqueue(j)
    PROVE  Book'
<1>1. /\ submitting[j] = "enqueue" /\ j \notin queued /\ up /\ jobStatus[j] \in ActiveJobStatuses
      /\ ~Routed(j) /\ j \notin Listed(queue) /\ j \notin futures
  <2>1. submitting[j] = "enqueue"
    BY DEF Enqueue
  <2>2. QED
    BY <2>1, Held DEF IInv, Accepted
<1>2. UNCHANGED <<jobStatus, deleted, round, exec, up, stopping, futures, remaining, router, pool, thread>>
  BY DEF Enqueue, jobVars, jobRest, execVars, modeVars, futureVars
<1>3. SameFlights
  BY <1>2, CalmStep DEF Calm
<1>4. Settled'
  BY <1>2, <1>3 DEF IInv, TypeOK, Settled, SameFlights, At
<1>5. OutcomeAgrees'
  BY <1>2 DEF IInv, OutcomeAgrees
<1>6. CASE /\ queue' = Append(queue, j) /\ queued' = queued \cup {j}
           /\ submitting' = [submitting EXCEPT ![j] = "no"]
  <2>1. Once(queue') /\ Listed(queue') = Listed(queue) \cup {j}
    BY <1>1, <1>6, QueueMore DEF IInv, TypeOK, Entry
  <2>2. /\ \A i \in Jobs \ {j} : submitting'[i] = submitting[i]
        /\ submitting'[j] = "no"
    BY <1>6 DEF IInv, TypeOK
  <2>3. Once(queue)' = Once(queue') /\ Listed(queue)' = Listed(queue')
    BY DEF Once, Listed
  <2>4. Entry'
    BY <1>1, <1>2, <1>6, <2>1, <2>3 DEF IInv, Entry, Routed
  <2>5. Accepted'
    BY <1>1, <1>2, <1>6, <2>2 DEF IInv, Accepted
  <2>6. Tracked'
    BY <1>2, <1>6, <2>1, <2>2, <2>3 DEF IInv, Tracked, Routed
  <2>7. QED
    BY <1>4, <1>5, <2>4, <2>5, <2>6 DEF Book
<1>7. CASE submitting' = [submitting EXCEPT ![j] = "refuse"] /\ UNCHANGED <<queue, queued>>
  <2>1. /\ \A i \in Jobs \ {j} : submitting'[i] = submitting[i]
        /\ submitting'[j] = "refuse"
    BY <1>7 DEF IInv, TypeOK
  <2>2. Entry'
    BY <1>2, <1>7 DEF IInv, Entry, Routed, Listed, Once
  <2>3. Accepted'
    BY <1>1, <1>2, <1>7, <2>1 DEF IInv, Accepted
  <2>4. Tracked'
    BY <1>1, <1>2, <1>7, <2>1 DEF IInv, Tracked, Routed, Listed
  <2>5. QED
    BY <1>4, <1>5, <2>2, <2>3, <2>4 DEF Book
<1>8. QED
  BY <1>6, <1>7, Zenon DEF Enqueue

\* A job that is refused was never accepted, and no row of it was touched.
LEMMA RefuseBook ==
    ASSUME IInv, NEW j \in Jobs, Refuse(j)
    PROVE  Book' /\ j \notin queued /\ InFlight(j) = {} /\ jobStatus[j] \in ActiveJobStatuses
<1>1. /\ submitting[j] = "refuse" /\ j \notin queued /\ up /\ ~deleted[j]
      /\ jobStatus[j] \in ActiveJobStatuses /\ exec[j] = Untouched /\ InFlight(j) = {}
  <2>1. submitting[j] = "refuse"
    BY DEF Refuse
  <2>2. j \notin queued /\ up /\ jobStatus[j] \in ActiveJobStatuses /\ ~deleted[j] /\ exec[j] = Untouched
    BY <2>1, Kinds DEF IInv, Accepted
  <2>3. InFlight(j) = {}
    BY <2>2 DEF IInv, Entry, Counted
  <2>4. QED
    BY <2>1, <2>2, <2>3
<1>2. /\ UNCHANGED <<deleted, round, exec, up, stopping, queue, queued, futures, remaining, router, pool, thread>>
      /\ jobStatus' = [jobStatus EXCEPT ![j] = "FAILED"]
      /\ submitting' = [submitting EXCEPT ![j] = "no"]
  BY DEF Refuse, jobRest, execVars, modeVars, futureVars
<1>3. /\ \A i \in Jobs \ {j} : jobStatus'[i] = jobStatus[i] /\ submitting'[i] = submitting[i]
      /\ jobStatus'[j] = "FAILED" /\ submitting'[j] = "no" /\ jobStatus'[j] \in TerminalStatuses
  BY <1>2, Kinds DEF IInv, TypeOK
<1>4. SameFlights
  BY <1>2, CalmStep DEF Calm
<1>5. Entry'
  BY <1>2 DEF IInv, Entry, Routed, Listed, Once
<1>6. Accepted'
  BY <1>1, <1>2, <1>3, Kinds DEF IInv, Accepted
<1>7. Tracked'
  BY <1>1, <1>2, <1>3, Kinds DEF IInv, Tracked, Routed, Listed
<1>8. Settled'
  BY <1>2, <1>4 DEF IInv, TypeOK, Settled, SameFlights, At
<1>9. OutcomeAgrees'
  BY <1>1, <1>2, <1>3 DEF IInv, OutcomeAgrees, Untouched
<1>10. QED
  BY <1>1, <1>5, <1>6, <1>7, <1>8, <1>9 DEF Book

\* A cancel request touches an active job only, and it stays active.
LEMMA CancelBook ==
    ASSUME IInv, NEW j \in Jobs, Cancel(j)
    PROVE  Book'
<1>1. /\ jobStatus[j] \in ActiveJobStatuses /\ jobStatus' = [jobStatus EXCEPT ![j] = "CANCELING"]
      /\ UNCHANGED <<deleted, round, exec, up, stopping, queue, queued, submitting, futures,
                     remaining, router, pool, thread>>
  BY DEF Cancel, jobRest, execVars, modeVars, queueVars, futureVars
<1>2. /\ \A i \in Jobs \ {j} : jobStatus'[i] = jobStatus[i]
      /\ jobStatus'[j] = "CANCELING" /\ jobStatus'[j] \in ActiveJobStatuses
  BY <1>1, Kinds DEF IInv, TypeOK
<1>3. SameFlights
  BY <1>1, CalmStep DEF Calm
<1>4. Entry'
  BY <1>1 DEF IInv, Entry, Routed, Listed, Once
<1>5. Accepted'
  BY <1>1, <1>2, Kinds DEF IInv, Accepted
<1>6. Tracked'
  BY <1>1, <1>2 DEF IInv, Tracked, Routed, Listed
<1>7. Settled'
  BY <1>1, <1>3 DEF IInv, TypeOK, Settled, SameFlights, At
<1>8. OutcomeAgrees'
  BY <1>1, <1>2, Kinds DEF IInv, OutcomeAgrees
<1>9. QED
  BY <1>4, <1>5, <1>6, <1>7, <1>8 DEF Book

\* A job that can be resumed is nowhere: the new round starts alone.
LEMMA ResumeBook ==
    ASSUME IInv, NEW j \in Jobs, Resume(j)
    PROVE  Book'
<1>1. /\ jobStatus[j] \in TerminalStatuses /\ jobStatus[j] \notin ActiveJobStatuses /\ up /\ ~deleted[j]
      /\ j \notin queued /\ ~Routed(j) /\ j \notin Listed(queue) /\ j \notin futures
      /\ submitting[j] = "no"
  <2>1. jobStatus[j] \in TerminalStatuses /\ jobStatus[j] \notin ActiveJobStatuses /\ up /\ ~deleted[j]
    BY Kinds DEF Resume
  <2>2. j \notin queued /\ ~Routed(j) /\ j \notin Listed(queue) /\ j \notin futures
    BY <2>1, Held
  <2>3. QED
    BY <2>1, <2>2 DEF IInv, Accepted
<1>2. /\ UNCHANGED <<deleted, up, stopping, submitting, futures, router, thread>>
      /\ jobStatus' = [jobStatus EXCEPT ![j] = "CREATED"]
      /\ round' = [round EXCEPT ![j] = @ + 1]
      /\ exec' = [exec EXCEPT ![j] = [m \in Machines |-> "RESUMING"]]
  BY DEF Resume, modeVars, futureVars
<1>3. queue' = Append(queue, j) /\ queued' = queued \cup {j}
  BY <1>1 DEF Resume
<1>4. /\ \A i \in Jobs \ {j} : /\ jobStatus'[i] = jobStatus[i] /\ exec'[i] = exec[i]
                               /\ round'[i] = round[i]
      /\ jobStatus'[j] = "CREATED" /\ jobStatus'[j] \in ActiveJobStatuses
  BY <1>2, Kinds DEF IInv, TypeOK
<1>5. SameFlights
  BY ResumeFlights
<1>6. Once(queue') /\ Listed(queue') = Listed(queue) \cup {j}
  BY <1>1, <1>3, QueueMore DEF IInv, TypeOK, Entry
<1>7. Once(queue)' = Once(queue') /\ Listed(queue)' = Listed(queue')
  BY DEF Once, Listed
<1>8. Entry'
  <2>1. router.pc \in {"cancel", "mark", "dispatch"} =>
            router.job \in Jobs /\ router.round = round'[router.job]
    BY <1>1, <1>4 DEF IInv, Entry, Routed
  <2>2. QED
    BY <1>1, <1>2, <1>3, <1>6, <1>7, <2>1 DEF IInv, Entry, Routed
<1>9. Accepted'
  BY <1>1, <1>2, <1>3, <1>4, Kinds DEF IInv, Accepted
<1>10. Tracked'
  BY <1>2, <1>3, <1>4, <1>6, <1>7 DEF IInv, Tracked, Routed
<1>11. Settled'
  <2>1. \A i \in futures : i \in Jobs \ {j}
    BY <1>1 DEF IInv, TypeOK
  <2>2. \A k \in Machines : At(k, "end") => thread[k].job \in Jobs \ {j}
    BY <1>1, ThreadJob DEF At
  <2>3. QED
    BY <1>2, <1>4, <1>5, <2>1, <2>2 DEF IInv, Settled, SameFlights, At
<1>12. OutcomeAgrees'
  BY <1>4, Kinds DEF IInv, OutcomeAgrees
<1>13. QED
  BY <1>8, <1>9, <1>10, <1>11, <1>12 DEF Book

\* A job that is deleted has ended, and is nowhere.
LEMMA DeleteBook ==
    ASSUME IInv, NEW j \in Jobs, Delete(j)
    PROVE  Book'
<1>1. /\ jobStatus[j] \in TerminalStatuses /\ deleted' = [deleted EXCEPT ![j] = TRUE]
      /\ UNCHANGED <<jobStatus, round, exec, up, stopping, queue, queued, submitting, futures,
                     remaining, router, pool, thread>>
  BY DEF Delete, execVars, modeVars, queueVars, futureVars
<1>2. \A i \in Jobs \ {j} : deleted'[i] = deleted[i]
  BY <1>1 DEF IInv, TypeOK
<1>3. SameFlights
  BY <1>1, CalmStep DEF Calm
<1>4. Entry'
  BY <1>1 DEF IInv, Entry, Routed, Listed, Once
<1>5. Accepted'
  BY <1>1, <1>2 DEF IInv, Accepted
<1>6. Tracked'
  BY <1>1 DEF IInv, Tracked, Routed, Listed
<1>7. Settled'
  BY <1>1, <1>3 DEF IInv, TypeOK, Settled, SameFlights, At
<1>8. OutcomeAgrees'
  BY <1>1 DEF IInv, OutcomeAgrees
<1>9. QED
  BY <1>4, <1>5, <1>6, <1>7, <1>8 DEF Book

\* The routing thread.  A job in the queue is active and was not deleted.
LEMMA RouteBook ==
    ASSUME IInv, Route
    PROVE  Book'
<1> DEFINE j == Head(queue)
<1>1. /\ router.pc = "get" /\ queue # <<>> /\ queue' = Tail(queue)
  BY DEF Route
<1>2. /\ Once(Tail(queue)) /\ j \in Jobs /\ j \in Listed(queue)
      /\ Listed(Tail(queue)) = Listed(queue) \ {j}
  BY <1>1, QueueLess DEF IInv, TypeOK, Entry
<1>3. /\ j \in queued /\ ~deleted[j] /\ jobStatus[j] \notin TerminalStatuses /\ j \notin futures
  BY <1>2, Held, Kinds DEF IInv, Entry
<1>4. /\ router' = [pc |-> IF cancelRequested[j] THEN "cancel" ELSE "mark", job |-> j, round |-> round[j]]
      /\ UNCHANGED queued
  BY <1>3 DEF Route
<1>5. UNCHANGED <<jobStatus, deleted, round, exec, up, stopping, submitting, futures, remaining, pool, thread>>
  BY DEF Route, jobVars, jobRest, execVars, modeVars, futureVars
<1>6. router'.job = j /\ router'.round = round[j] /\ router'.pc \in {"cancel", "mark"}
  BY <1>4
<1>7. Once(queue)' = Once(queue') /\ Listed(queue)' = Listed(queue')
  BY DEF Once, Listed
<1> HIDE DEF j
<1>8. \A i \in Jobs : ~Routed(i) /\ (Routed(i)' <=> i = j)
  BY <1>1, <1>6 DEF Routed
<1>9. Entry'
  BY <1>1, <1>2, <1>3, <1>4, <1>5, <1>6, <1>7, <1>8 DEF IInv, Entry
<1>10. Accepted'
  BY <1>4, <1>5 DEF IInv, Accepted
<1>11. Tracked'
  BY <1>1, <1>2, <1>4, <1>5, <1>7, <1>8 DEF IInv, Tracked
<1>12. SameFlights
  BY <1>5, CalmStep DEF Calm
<1>13. Settled'
  BY <1>5, <1>12 DEF IInv, TypeOK, Settled, SameFlights, At
<1>14. OutcomeAgrees'
  BY <1>5 DEF IInv, OutcomeAgrees
<1>15. QED
  BY <1>9, <1>10, <1>11, <1>13, <1>14 DEF Book

\* What the routing thread has after a job.
LEMMA ParkedIs == Park.pc \in {"get", "exited"}
BY DEF Park, Parked

\* A job canceled before its dispatch gets its outcome and leaves the memory.
LEMMA RouteCanceledBook ==
    ASSUME IInv, RouteCanceled
    PROVE  /\ Book' /\ router.job \in Jobs /\ InFlight(router.job) = {}
           /\ jobStatus[router.job] \in ActiveJobStatuses
           /\ jobStatus' = [jobStatus EXCEPT ![router.job] = "CANCELED"]
<1> DEFINE j == router.job
<1>1. /\ j \in Jobs /\ Routed(j) /\ j \in queued /\ ~deleted[j] /\ submitting[j] = "no"
      /\ j \notin futures /\ j \notin Listed(queue) /\ jobStatus[j] \in ActiveJobStatuses
  <2>1. j \in Jobs /\ Routed(j)
    BY DEF RouteCanceled, IInv, Entry, Routed
  <2>2. QED
    BY <2>1, Held DEF IInv, Entry
<1>2. /\ exec' = [exec EXCEPT ![j] = [m \in Machines |-> "CANCELED"]]
      /\ jobStatus' = [jobStatus EXCEPT ![j] = Synced(j, exec'[j], FALSE)]
      /\ queued' = queued \ {j} /\ router'.pc \in {"get", "exited"}
  BY ParkedIs DEF RouteCanceled, Sync
<1>3. UNCHANGED <<deleted, round, up, stopping, queue, submitting, futures, remaining, pool, thread>>
  BY DEF RouteCanceled, jobRest, modeVars, futureVars
<1>4. exec'[j] = [m \in Machines |-> "CANCELED"] /\ \A i \in Jobs \ {j} : exec'[i] = exec[i]
  BY <1>1, <1>2 DEF IInv, TypeOK
<1>5. Synced(j, exec'[j], FALSE) = "CANCELED" /\ Aggregate(exec'[j]) = "CANCELED"
  <2>1. exec'[j] \in [Machines -> ExecStatuses] /\ \A m \in Machines : exec'[j][m] \in TerminalStatuses
    BY <1>4 DEF ExecStatuses, TerminalStatuses
  <2>2. {exec'[j][m] : m \in Machines} = {"CANCELED"}
    BY <1>4, ConstantsAssumption
  <2>3. Aggregate(exec'[j]) = "CANCELED"
    BY <2>2 DEF Aggregate, TerminalStatuses
  <2>4. QED
    BY <1>1, <2>1, <2>3, SyncedClosed
<1>6. /\ jobStatus' = [jobStatus EXCEPT ![j] = "CANCELED"]
      /\ \A i \in Jobs \ {j} : jobStatus'[i] = jobStatus[i]
      /\ jobStatus'[j] = "CANCELED" /\ jobStatus'[j] \in TerminalStatuses
  BY <1>1, <1>2, <1>5, Kinds DEF IInv, TypeOK
<1>7. SameFlights /\ InFlight(j) = {}
  BY <1>1, <1>3, CalmStep DEF Calm, IInv, Counted
<1>8. \A i \in Jobs : ~Routed(i)' /\ (Routed(i) => i = j)
  BY <1>2 DEF Routed
<1> HIDE DEF j
<1>9. Listed(queue)' = Listed(queue) /\ Once(queue)' = Once(queue)
  BY <1>3 DEF Listed, Once
<1>10. Entry'
  BY <1>1, <1>2, <1>3, <1>8, <1>9 DEF IInv, Entry
<1>11. Accepted'
  BY <1>1, <1>2, <1>3, <1>4, <1>6, Kinds DEF IInv, Accepted
<1>12. Tracked'
  BY <1>1, <1>2, <1>3, <1>6, <1>8, <1>9, Kinds DEF IInv, Tracked
<1>13. Settled'
  <2>1. \A i \in futures : i \in Jobs \ {j}
    BY <1>1 DEF IInv, TypeOK
  <2>2. \A k \in Machines : At(k, "end") => thread[k].job \in Jobs \ {j}
    BY <1>1, ThreadJob DEF At
  <2>3. QED
    BY <1>3, <1>4, <1>7, <2>1, <2>2 DEF IInv, Settled, SameFlights, At
<1>14. OutcomeAgrees'
  BY <1>4, <1>5, <1>6 DEF IInv, OutcomeAgrees
<1>15. QED
  BY <1>1, <1>6, <1>7, <1>10, <1>11, <1>12, <1>13, <1>14 DEF Book, j

\* DISPATCHING is only ever written over an active status.
LEMMA RouteMarkBook ==
    ASSUME IInv, RouteMark
    PROVE  /\ Book' /\ router.job \in Jobs /\ jobStatus[router.job] \in ActiveJobStatuses
           /\ jobStatus' = [jobStatus EXCEPT ![router.job] = "DISPATCHING"]
<1> DEFINE j == router.job
<1>1. /\ j \in Jobs /\ j \in queued /\ ~deleted[j] /\ jobStatus[j] \in ActiveJobStatuses
  <2>1. j \in Jobs /\ Routed(j)
    BY DEF RouteMark, IInv, Entry, Routed
  <2>2. QED
    BY <2>1, Held
<1>2. /\ jobStatus' = [jobStatus EXCEPT ![j] = "DISPATCHING"]
      /\ router.pc = "mark" /\ router' = [router EXCEPT !.pc = "dispatch"]
      /\ UNCHANGED <<deleted, round, exec, up, stopping, queue, queued, submitting, futures,
                     remaining, pool, thread>>
  BY DEF RouteMark, jobRest, execVars, modeVars, queueVars, futureVars
<1>3. router'.pc = "dispatch" /\ router'.job = j /\ router'.round = router.round
  BY <1>2 DEF IInv, TypeOK
<1>4. /\ \A i \in Jobs \ {j} : jobStatus'[i] = jobStatus[i]
      /\ jobStatus'[j] \in ActiveJobStatuses
  BY <1>1, <1>2, Kinds DEF IInv, TypeOK
<1>5. SameFlights
  BY <1>2, CalmStep DEF Calm
<1>6. \A i \in Jobs : Routed(i)' <=> Routed(i)
  BY <1>2, <1>3 DEF Routed
<1>7. Listed(queue)' = Listed(queue) /\ Once(queue)' = Once(queue)
  BY <1>2 DEF Listed, Once
<1>8. Entry'
  BY <1>2, <1>3, <1>6, <1>7 DEF IInv, Entry
<1> HIDE DEF j
<1>9. Accepted'
  BY <1>1, <1>2, <1>4, Kinds DEF IInv, Accepted
<1>10. Tracked'
  BY <1>1, <1>2, <1>4, <1>6, <1>7 DEF IInv, Tracked
<1>11. Settled'
  BY <1>2, <1>5 DEF IInv, TypeOK, Settled, SameFlights, At
<1>12. OutcomeAgrees'
  BY <1>2, <1>4, Kinds DEF IInv, OutcomeAgrees
<1>13. QED
  BY <1>1, <1>2, <1>8, <1>9, <1>10, <1>11, <1>12 DEF Book, j

\* The job moves from the routing thread to the futures.
LEMMA RouteDispatchBook ==
    ASSUME IInv, RouteDispatch
    PROVE  Book'
<1> DEFINE j == router.job
<1>1. j \in Jobs /\ Routed(j) /\ j \in queued /\ j \notin futures /\ j \notin Listed(queue)
      /\ jobStatus[j] \in ActiveJobStatuses
  <2>1. j \in Jobs /\ Routed(j)
    BY DEF RouteDispatch, IInv, Entry, Routed
  <2>2. QED
    BY <2>1, Held DEF IInv, Entry
<1>2. /\ UNCHANGED <<jobStatus, deleted, round, exec, up, stopping, queue, queued, submitting, thread>>
      /\ router'.pc \in {"get", "exited"}
  BY ParkedIs DEF RouteDispatch, jobVars, jobRest, execVars, modeVars, queueVars
<1>3. \A i \in Jobs : ~Routed(i)' /\ (Routed(i) => i = j)
  BY <1>2 DEF Routed
<1>4. Listed(queue)' = Listed(queue) /\ Once(queue)' = Once(queue)
  BY <1>2 DEF Listed, Once
<1>5. Accepted' /\ OutcomeAgrees'
  BY <1>2 DEF IInv, Accepted, OutcomeAgrees
<1>6. CASE stopping
  <2>1. futures' = futures
    BY <1>6 DEF RouteDispatch, futureVars
  <2>2. Entry'
    BY <1>2, <1>3, <1>4, <2>1 DEF IInv, Entry
  <2>3. QED
    BY <1>2, <1>5, <1>6, <2>2 DEF Book, Tracked, Settled
<1>7. CASE ~stopping
  <2>1. futures' = futures \cup {j}
    BY <1>7 DEF RouteDispatch
  <2>2. \A i \in Jobs : InFlight(i)' = IF i = j THEN Machines ELSE InFlight(i)
    BY <1>7, DispatchFlights
  <2> HIDE DEF j
  <2>3. Entry'
    BY <1>1, <1>2, <1>3, <1>4, <2>1 DEF IInv, Entry
  <2>4. Tracked'
    BY <1>2, <1>3, <1>4, <2>1 DEF IInv, Tracked
  <2>5. Settled'
    <3>1. ASSUME NEW i \in futures', NEW k \in Machines, k \notin InFlight(i)'
          PROVE  exec'[i][k] \in TerminalStatuses
      <4>1. i \in Jobs
        BY <1>1, <2>1 DEF IInv, TypeOK
      <4>2. i # j /\ i \in futures
        BY <2>1, <2>2, <3>1, <4>1
      <4>3. QED
        BY <1>2, <1>7, <2>2, <3>1, <4>1, <4>2 DEF IInv, Settled
    <3>2. QED
      BY <1>2, <3>1 DEF IInv, Settled, At
  <2>6. QED
    BY <1>5, <2>3, <2>4, <2>5 DEF Book
<1>8. QED
  BY <1>6, <1>7

\* A thread that takes a future changes none of this, nor does anything that
\* leaves the tables and the memory alone.
LEMMA QuietBook ==
    ASSUME IInv, SameFlights,
           UNCHANGED <<jobStatus, deleted, round, exec, up, stopping, queue, queued, submitting,
                       futures, router>>,
           \A k \in Machines : thread'[k].pc = "end" => thread'[k] = thread[k]
    PROVE  Book'
<1>1. Entry'
  BY DEF IInv, Entry, Routed, Listed, Once
<1>2. Accepted' /\ OutcomeAgrees'
  BY DEF IInv, Accepted, OutcomeAgrees
<1>3. Tracked'
  BY DEF IInv, Tracked, Routed, Listed
<1>4. Settled'
  BY DEF IInv, TypeOK, Settled, SameFlights, At
<1>5. QED
  BY <1>1, <1>2, <1>3, <1>4 DEF Book

\* A service told to stop promises less of its memory.
LEMMA StopBook ==
    ASSUME IInv, Stop
    PROVE  Book'
<1>1. UNCHANGED <<jobStatus, deleted, round, exec, up, queue, queued, submitting, futures, router>>
      /\ up /\ stopping'
  BY DEF Stop, jobVars, jobRest, execVars, queueVars, futureVars
<1>2. Entry'
  BY <1>1 DEF IInv, Entry, Routed, Listed, Once
<1>3. Accepted' /\ OutcomeAgrees'
  BY <1>1 DEF IInv, Accepted, OutcomeAgrees
<1>4. QED
  BY <1>1, <1>2, <1>3 DEF Book, Tracked, Settled

\* A process that ends forgets the memory and keeps the rows.
LEMMA ExitBook ==
    ASSUME IInv, Exit
    PROVE  Book'
<1>1. /\ UNCHANGED <<jobStatus, deleted, round, exec>>
      /\ ~up' /\ ~stopping' /\ queue' = <<>> /\ queued' = {} /\ futures' = {}
      /\ submitting' = [j \in Jobs |-> "no"] /\ router' = Parked
      /\ thread' = [m \in Machines |-> Idle]
  BY DEF Exit, jobVars, jobRest, execVars
<1>2. Parked.pc = "get" /\ Idle.pc = "idle"
  BY DEF Parked, Idle
<1>3. Entry'
  BY <1>1, <1>2 DEF Entry, Routed, Listed, Once
<1>4. Accepted' /\ OutcomeAgrees'
  BY <1>1 DEF IInv, Accepted, OutcomeAgrees
<1>5. QED
  BY <1>1, <1>2, <1>3, <1>4 DEF Book, Tracked, Settled, At

\* A queue without repetitions that has as many entries as there are jobs to
\* recover has them all.
LEMMA RecoveredAll ==
    ASSUME NEW S, IsFiniteSet(S), NEW q \in [1..Cardinality(S) -> S], Once(q)
    PROVE  Listed(q) = S /\ q \in Seq(S)
<1>1. Cardinality(S) \in Nat
  BY FS_CardinalityType
<1>2. q \in Injection(1..Cardinality(S), S)
  BY DEF Injection, IsInjective, Once
<1>3. Cardinality(1..Cardinality(S)) = Cardinality(S)
  BY <1>1, FS_Interval
<1>4. q \in Surjection(1..Cardinality(S), S)
  BY <1>2, <1>3, FS_Injection
<1>5. Listed(q) = S
  BY <1>4 DEF Surjection, Listed
<1>6. q \in Seq(S)
  BY <1>1
<1>7. QED
  BY <1>5, <1>6

\* A start puts every job that has not ended back into the queue.
LEMMA RestartBook ==
    ASSUME IInv, Restart
    PROVE  Book' /\ queue' \in Seq(Jobs)
<1>1. PICK q \in [1..Cardinality(Incomplete) -> Incomplete] :
          /\ \A i, k \in DOMAIN q : i < k => createdAt[q[i]] < createdAt[q[k]]
          /\ queue' = q
  BY DEF Restart
<1>2. Incomplete \subseteq Jobs /\ IsFiniteSet(Incomplete)
  BY FS_Subset, ConstantsAssumption DEF Incomplete
<1>3. Once(q)
  <2>1. ASSUME NEW i \in DOMAIN q, NEW k \in DOMAIN q, q[i] = q[k], i # k PROVE FALSE
    <3>1. i \in Int /\ k \in Int /\ createdAt[q[i]] \in Nat
      <4>1. i \in 1..Cardinality(Incomplete) /\ k \in 1..Cardinality(Incomplete) /\ q[i] \in Jobs
        BY <1>1, <1>2
      <4> QED
        BY <4>1 DEF IInv, TypeOK
    <3>2. i < k \/ k < i
      BY <2>1, <3>1
    <3>3. createdAt[q[i]] < createdAt[q[k]] \/ createdAt[q[k]] < createdAt[q[i]]
      BY <1>1, <3>2
    <3>4. QED
      BY <2>1, <3>1, <3>3
  <2>2. QED
    BY <2>1 DEF Once
<1>4. Listed(q) = Incomplete /\ q \in Seq(Jobs)
  <2>1. Listed(q) = Incomplete /\ q \in Seq(Incomplete)
    BY <1>2, <1>3, RecoveredAll
  <2>2. QED
    BY <1>2, <2>1, SeqMonotonic
<1>5. /\ UNCHANGED <<jobStatus, deleted, round, exec, stopping, submitting, futures, remaining,
                     router, pool, thread>>
      /\ ~up /\ up' /\ queued' = Incomplete
  BY DEF Restart, jobVars, jobRest, execVars, futureVars
<1>6. /\ ~stopping /\ \A j \in Jobs : submitting[j] = "no" /\ ~Routed(j) /\ j \notin futures
  BY <1>5, Held DEF IInv, Accepted
<1>7. Once(queue)' = Once(q) /\ Listed(queue)' = Listed(q)
  BY <1>1 DEF Once, Listed
<1>8. SameFlights
  BY <1>5, CalmStep DEF Calm
<1>9. Entry'
  BY <1>3, <1>4, <1>5, <1>6, <1>7 DEF IInv, Entry, Routed
<1>10. Accepted'
  BY <1>5, <1>6 DEF IInv, Accepted, Incomplete
<1>11. Tracked'
  BY <1>4, <1>5, <1>7, Kinds DEF IInv, Accepted, Tracked, Incomplete
<1>12. Settled'
  BY <1>5, <1>8 DEF IInv, TypeOK, Settled, SameFlights, At
<1>13. OutcomeAgrees'
  BY <1>5 DEF IInv, OutcomeAgrees
<1>14. QED
  BY <1>1, <1>4, <1>9, <1>10, <1>11, <1>12, <1>13 DEF Book
-----------------------------------------------------------------------------
(* The invariant is inductive.                                             *)

\* The record a target leaves behind has its types.
LEMMA LeavesTyped ==
    ASSUME IInv, NEW j, NEW m \in Machines, Leaves(j, m)
    PROVE  TypeOK'
<1>0. TypeOK /\ j \in Jobs /\ remaining[j] > 0
  BY FlightCounts DEF IInv, Leaves
<1>1. exec' \in [Jobs -> [Machines -> ExecStatuses]]
  <2>1. exec \in [Jobs -> [Machines -> ExecStatuses]]
    BY <1>0 DEF TypeOK
  <2>2. CASE stopping
    BY <2>1, <2>2 DEF Leaves
  <2>3. CASE ~stopping
    <3>1. PICK s \in TerminalStatuses : exec' = [exec EXCEPT ![j][m] = s]
      BY <2>3 DEF Leaves, SetExec
    <3>2. s \in ExecStatuses
      BY DEF ExecStatuses
    <3>3. QED
      BY <2>1, <3>1, <3>2
  <2>4. QED
    BY <2>2, <2>3
<1>2. jobStatus' \in [Jobs -> {"ABSENT"} \cup ActiveJobStatuses \cup TerminalStatuses]
  <2>1. Synced(j, exec'[j], remaining[j] = 1) \in {"ABSENT"} \cup ActiveJobStatuses \cup TerminalStatuses
    BY <1>0, <1>1, AggregateIs DEF TypeOK, Synced, ActiveJobStatuses, TerminalStatuses
  <2>2. \/ jobStatus' = jobStatus
        \/ jobStatus' = [jobStatus EXCEPT ![j] = Synced(j, exec'[j], remaining[j] = 1)]
    BY DEF Leaves, Sync
  <2>3. QED
    BY <1>0, <2>1, <2>2 DEF TypeOK
<1>3. remaining' \in [Jobs -> Nat] /\ futures' \subseteq Jobs /\ queued' \subseteq Jobs
  BY <1>0 DEF TypeOK, Leaves, Leave
<1>4. pool' \in [Machines -> Seq([job : Jobs, round : 0..MaxRounds])] /\ thread' \in [Machines -> Threads]
  BY DEF Leaves, Futures
<1>5. QED
  BY <1>0, <1>1, <1>2, <1>3, <1>4 DEF TypeOK, Leaves, jobRest, modeVars

\* The Workers.
LEMMA WorkerTyped ==
    ASSUME TypeOK, NEW j \in Jobs, NEW m \in Machines, WorkerEnds(j, m) \/ WorkerCanceled(j, m)
    PROVE  TypeOK'
<1>1. work[j][m] \in WorkStates
  BY SameRow
<1>2. PICK w \in WorkStates : WorkerWrites(j, m, w)
  <2>1. \A s \in Results : [work[j][m] EXCEPT !.status = s, !.result = s] \in WorkStates
    BY <1>1 DEF WorkStates, Results, TerminalStatuses
  <2>2. \A s \in {"FAILED", "CANCELED"} : [work[j][m] EXCEPT !.status = s] \in WorkStates
    BY <1>1 DEF WorkStates, TerminalStatuses
  <2>3. QED
    BY <2>1, <2>2 DEF WorkerEnds, WorkerCanceled
<1>3. work' \in [Jobs -> [Machines -> WorkStates]]
  BY <1>2 DEF WorkerWrites, TypeOK
<1>4. QED
  BY <1>2, <1>3
  DEF WorkerWrites, TypeOK, jobVars, jobRest, execVars, modeVars, queueVars, futureVars

\* The process of the Master.
LEMMA ProcessTyped ==
    ASSUME IInv, Stop \/ Exit \/ Restart
    PROVE  TypeOK'
<1>0. TypeOK
  BY DEF IInv
<1> USE DEF jobVars, jobRest, execVars, modeVars, queueVars, futureVars
<1>1. CASE Stop
  BY <1>0, <1>1 DEF Stop, TypeOK
<1>2. CASE Exit
  <2>1. 0 \in 0..MaxRounds /\ stops + 1 \in 0..MaxStops
    BY <1>0, <1>2, ConstantsAssumption DEF Exit, TypeOK
  <2>2. Parked \in [pc : {"get", "cancel", "mark", "dispatch", "exited"},
                    job : Jobs \cup {NoJob}, round : 0..MaxRounds]
    BY <2>1 DEF Parked
  <2>3. Idle \in Threads
    BY <2>1 DEF Idle, Threads, TargetPcs
  <2>4. /\ queue' \in Seq(Jobs) /\ queued' \subseteq Jobs /\ futures' \subseteq Jobs
        /\ lock' \in Jobs \cup {NoJob} /\ up' \in BOOLEAN /\ stopping' \in BOOLEAN
        /\ remaining' \in [Jobs -> Nat] /\ submitting' \in [Jobs -> {"no", "enqueue", "refuse"}]
    <3>1. <<>> \in Seq(Jobs)
      OBVIOUS
    <3>2. remaining' = [j \in Jobs |-> 0] /\ submitting' = [j \in Jobs |-> "no"]
      BY <1>2 DEF Exit
    <3>3. queue' = <<>> /\ queued' = {} /\ futures' = {} /\ lock' = NoJob
      BY <1>2 DEF Exit
    <3>4. up' = FALSE /\ stopping' = FALSE
      BY <1>2 DEF Exit
    <3>5. queue' \in Seq(Jobs)
      BY <3>1, <3>3
    <3>6. remaining' \in [Jobs -> Nat] /\ submitting' \in [Jobs -> {"no", "enqueue", "refuse"}]
      BY <3>2
    <3>7. QED
      BY <3>3, <3>4, <3>5, <3>6
  <2>5. /\ pool' \in [Machines -> Seq([job : Jobs, round : 0..MaxRounds])]
        /\ thread' \in [Machines -> Threads]
    BY <1>2, <2>3 DEF Exit
  <2>6. QED
    BY <1>0, <1>2, <2>1, <2>2, <2>4, <2>5 DEF Exit, TypeOK
<1>3. CASE Restart
  <2>1. queue' \in Seq(Jobs)
    BY <1>3, RestartBook
  <2>2. queued' \subseteq Jobs
    BY <1>3 DEF Restart, Incomplete
  <2>3. QED
    BY <1>0, <1>3, <2>1, <2>2 DEF Restart, TypeOK
<1>4. QED
  BY <1>1, <1>2, <1>3

\* The initial state satisfies the invariant.
LEMMA InvInit == Init => IInv
<1> SUFFICES ASSUME Init PROVE IInv
  OBVIOUS
<1>1. 0 \in 0..MaxRounds /\ 0 \in 0..MaxLosses /\ 0 \in 0..MaxStops
  BY ConstantsAssumption
<1>2. Idle \in Threads /\ Idle.pc = "idle" /\ Idle.job = NoJob
  BY <1>1 DEF Idle, Threads, TargetPcs
<1>3. /\ Parked.pc = "get"
      /\ Parked \in [pc : {"get", "cancel", "mark", "dispatch", "exited"},
                     job : Jobs \cup {NoJob}, round : 0..MaxRounds]
  BY <1>1 DEF Parked
<1>4. NoTask \in WorkStates
  BY <1>1 DEF NoTask, WorkStates
<1>5. TypeOK
  <2>1. /\ jobStatus \in [Jobs -> {"ABSENT"} \cup ActiveJobStatuses \cup TerminalStatuses]
        /\ cancelRequested \in [Jobs -> BOOLEAN] /\ deleted \in [Jobs -> BOOLEAN]
        /\ round \in [Jobs -> 0..MaxRounds] /\ createdAt \in [Jobs -> Nat]
    BY <1>1 DEF Init
  <2>2. exec \in [Jobs -> [Machines -> ExecStatuses]]
    BY DEF Init, ExecStatuses
  <2>3. evidence \in [Jobs -> [Machines -> Results \cup {"none", "CAPTURED"}]]
    BY DEF Init
  <2>4. /\ up \in BOOLEAN /\ stopping \in BOOLEAN
        /\ submitting \in [Jobs -> {"no", "enqueue", "refuse"}]
        /\ lock \in Jobs \cup {NoJob}
    <3>1. submitting = [j \in Jobs |-> "no"] /\ lock = NoJob
      BY DEF Init
    <3>2. up = TRUE /\ stopping = FALSE
      BY DEF Init
    <3>3. submitting \in [Jobs -> {"no", "enqueue", "refuse"}]
      BY <3>1
    <3>4. QED
      BY <3>1, <3>2, <3>3
  <2>5. /\ queued \subseteq Jobs /\ futures \subseteq Jobs /\ remaining \in [Jobs -> Nat]
    BY DEF Init
  <2>6. queue \in Seq(Jobs)
    BY DEF Init
  <2>7. pool \in [Machines -> Seq([job : Jobs, round : 0..MaxRounds])]
    <3>1. <<>> \in Seq([job : Jobs, round : 0..MaxRounds])
      OBVIOUS
    <3>2. pool = [m \in Machines |-> <<>>]
      BY DEF Init
    <3>3. QED
      BY <3>1, <3>2
  <2>8. thread \in [Machines -> Threads]
    BY <1>2 DEF Init
  <2>9. work \in [Jobs -> [Machines -> WorkStates]]
    BY <1>4 DEF Init
  <2>10. losses \in 0..MaxLosses /\ stops \in 0..MaxStops
    BY <1>1 DEF Init
  <2>11. router \in [pc : {"get", "cancel", "mark", "dispatch", "exited"},
                      job : Jobs \cup {NoJob}, round : 0..MaxRounds]
    BY <1>3 DEF Init
  <2>12. QED
    BY <2>1, <2>2, <2>3, <2>4, <2>5, <2>6, <2>7, <2>8, <2>9, <2>10, <2>11 DEF TypeOK
<1>6. Pools
  BY <1>2 DEF Init, Pools, Distinct, JobsIn, Judging
<1>7. \A j \in Jobs : InFlight(j) = {}
  BY <1>2, ConstantsAssumption DEF Init, InFlight, InPool
<1>8. Counted
  BY <1>7, FS_EmptySet DEF Init, Counted
<1>9. Entry
  BY <1>3 DEF Init, Entry, Routed, Listed, Once
<1>10. Accepted /\ OutcomeAgrees
  BY Kinds DEF Init, Accepted, OutcomeAgrees, Untouched
<1>11. Tracked /\ Settled
  BY <1>2, Kinds DEF Init, Tracked, Settled, At
<1>12. QED
  BY <1>5, <1>6, <1>8, <1>9, <1>10, <1>11 DEF IInv

\* Every step keeps it.
LEMMA InvNext == IInv /\ [Next]_vars => IInv'
<1> SUFFICES ASSUME IInv, [Next]_vars PROVE TypeOK' /\ Pools' /\ Counted' /\ Book'
  BY DEF IInv, Book
<1>0. TypeOK
  BY DEF IInv
<1> USE DEF jobVars, jobRest, execVars, modeVars, queueVars, futureVars
<1>1. ASSUME NEW j \in Jobs, Client(j) \/ Submission(j)
      PROVE  TypeOK' /\ Pools' /\ Counted' /\ Book'
  <2>1. TypeOK'
    BY <1>0, <1>1, ClientTyped
  <2>2. CASE Resume(j)
    BY <2>1, <2>2, ResumeFlights, ResumeBook
  <2>3. CASE Create(j) \/ Cancel(j) \/ Delete(j) \/ Enqueue(j) \/ Refuse(j)
    <3>1. Calm
      BY <2>3 DEF Calm, Create, Cancel, Delete, Enqueue, Refuse
    <3>2. Book'
      BY <2>3, CreateBook, CancelBook, DeleteBook, EnqueueBook, RefuseBook
    <3>3. QED
      BY <2>1, <3>1, <3>2, CalmStep
  <2>4. QED
    BY <1>1, <2>2, <2>3 DEF Client, Submission
<1>2. ASSUME NEW j, NEW m \in Machines, Leaves(j, m), Pools'
      PROVE  TypeOK' /\ Pools' /\ Counted' /\ Book'
  BY <1>2, LeavesTyped, LeavesCounted, LeavesBook
<1>3. ASSUME NEW m \in Machines, CancelPending(m) \/ PoolDrain(m) \/ TargetFinish(m)
      PROVE  TypeOK' /\ Pools' /\ Counted' /\ Book'
  BY <1>2, <1>3, CanceledLeaves, DrainedLeaves, FinishedLeaves
<1>4. CASE CancelReturns
  <2>1. Calm /\ lock' \in Jobs \cup {NoJob}
    BY <1>4 DEF CancelReturns, Calm
  <2>2. TypeOK'
    BY <1>0, <1>4, <2>1 DEF CancelReturns, TypeOK
  <2>3. Book'
    BY <1>4, <2>1, CalmStep, QuietBook DEF CancelReturns
  <2>4. QED
    BY <2>1, <2>2, <2>3, CalmStep
<1>5. CASE RouterStep
  <2>1. TypeOK'
    BY <1>5, RouterTyped
  <2>2. CASE RouteDispatch /\ ~stopping
    BY <2>1, <2>2, DispatchFlights, RouteDispatchBook
  <2>3. CASE Route \/ RouteCanceled \/ RouteMark \/ (RouteDispatch /\ stopping)
    <3>1. Calm
      BY <2>3 DEF Calm, Route, RouteCanceled, RouteMark, RouteDispatch
    <3>2. Book'
      BY <2>3, RouteBook, RouteCanceledBook, RouteMarkBook, RouteDispatchBook
    <3>3. QED
      BY <2>1, <3>1, <3>2, CalmStep
  <2>4. QED
    BY <1>5, <2>2, <2>3 DEF RouterStep
<1>6. ASSUME NEW m \in Machines, TargetTake(m)
      PROVE  TypeOK' /\ Pools' /\ Counted' /\ Book'
  <2>1. /\ Pools' /\ SameFlights /\ Counted'
        /\ pool' \in [Machines -> Seq(Futures)] /\ thread' \in [Machines -> Threads]
        /\ \A k \in Machines : thread'[k].pc = "end" => thread'[k] = thread[k]
    BY <1>6, TakeStep
  <2>2. TypeOK'
    BY <1>0, <1>6, <2>1 DEF TargetTake, TypeOK, Futures
  <2>3. Book'
    BY <1>6, <2>1, QuietBook DEF TargetTake
  <2>4. QED
    BY <2>1, <2>2, <2>3
<1>7. ASSUME NEW m \in Machines, Inner(m)
      PROVE  TypeOK' /\ Pools' /\ Counted' /\ Book'
  BY <1>7, InnerTyped, InnerFlights, InnerBook
<1>8. ASSUME NEW m \in Machines, TargetStep(m) \/ TargetFault(m)
      PROVE  TypeOK' /\ Pools' /\ Counted' /\ Book'
  BY <1>3, <1>6, <1>7, <1>8, InnerStep DEF TargetStep
<1>9. ASSUME NEW j \in Jobs, NEW m \in Machines, WorkerEnds(j, m) \/ WorkerCanceled(j, m)
      PROVE  TypeOK' /\ Pools' /\ Counted' /\ Book'
  <2>1. UNCHANGED <<jobVars, execVars, modeVars, queueVars, lock, futureVars, router, pool, thread,
                    losses, stops>>
    BY <1>9 DEF WorkerEnds, WorkerCanceled, WorkerWrites
  <2>2. Calm
    BY <2>1 DEF Calm
  <2>3. Book'
    BY <2>1, <2>2, CalmStep, QuietBook
  <2>4. QED
    BY <1>0, <1>9, <2>2, <2>3, CalmStep, WorkerTyped
<1>10. CASE Stop \/ Exit \/ Restart
  <2>1. TypeOK'
    BY <1>10, ProcessTyped
  <2>2. CASE Exit
    BY <2>1, <2>2, ExitFlights, ExitBook
  <2>3. CASE Stop \/ Restart
    <3>1. Calm
      BY <2>3 DEF Calm, Stop, Restart
    <3>2. QED
      BY <2>1, <2>3, <3>1, CalmStep, StopBook, RestartBook
  <2>4. QED
    BY <1>10, <2>2, <2>3
<1>11. CASE UNCHANGED vars
  <2>1. Calm
    BY <1>11 DEF vars, Calm
  <2>2. Book'
    BY <1>11, <2>1, CalmStep, QuietBook DEF vars
  <2>3. TypeOK'
    BY <1>0, <1>11 DEF vars, TypeOK
  <2>4. QED
    BY <2>1, <2>2, <2>3, CalmStep
<1>12. QED
  BY <1>1, <1>3, <1>4, <1>5, <1>8, <1>9, <1>10, <1>11 DEF Next, CancelStep
-----------------------------------------------------------------------------
(* What the invariant implies.                                             *)

\* The resume tokens and the counter agree.
LEMMA InvRunIsCurrent == IInv => RunIsCurrent
<1> SUFFICES ASSUME IInv PROVE RunIsCurrent
  OBVIOUS
<1>1. \A j \in Jobs : Routed(j) => router.round = round[j]
  BY DEF IInv, Entry, Routed
<1>2. QED
  BY <1>1 DEF IInv, Pools, Counted, RunIsCurrent

\* An accepted job is in exactly one place.
LEMMA InvJobsAreTracked == IInv => JobsAreTracked
<1> SUFFICES ASSUME IInv, up, ~stopping PROVE ActiveJobIsTracked
  BY DEF JobsAreTracked, ActiveJobIsTracked, IInv
<1>1. \A j \in Jobs :
         jobStatus[j] \in ActiveJobStatuses <=> (j \in queued \/ submitting[j] # "no")
  BY DEF IInv, Accepted, Tracked
<1>2. ASSUME NEW j \in queued
      PROVE  Cardinality({p \in {"queue", "router", "futures"} :
                              \/ p = "queue" /\ InQueue(j)
                              \/ p = "router" /\ Routed(j)
                              \/ p = "futures" /\ j \in futures}) = 1
  <2> DEFINE P == {p \in {"queue", "router", "futures"} :
                      \/ p = "queue" /\ InQueue(j)
                      \/ p = "router" /\ Routed(j)
                      \/ p = "futures" /\ j \in futures}
  <2>1. j \in Jobs /\ (InQueue(j) <=> j \in Listed(queue))
    BY DEF IInv, TypeOK, InQueue, Listed
  <2>2. /\ InQueue(j) \/ Routed(j) \/ j \in futures
        /\ ~(InQueue(j) /\ Routed(j)) /\ ~(InQueue(j) /\ j \in futures)
        /\ ~(Routed(j) /\ j \in futures)
    BY <2>1 DEF IInv, Tracked, Entry
  <2>3. P = {"queue"} \/ P = {"router"} \/ P = {"futures"}
    BY <2>2
  <2>4. Cardinality(P) = 1
    BY <2>3, FS_Singleton
  <2>5. QED
    BY <2>4
<1>3. QED
  BY <1>1, <1>2 DEF ActiveJobIsTracked
-----------------------------------------------------------------------------
(* The dispatcher implements JobLifecycle.                                 *)

Phase(j) == IF jobStatus[j] \in ActiveJobStatuses THEN "ACTIVE" ELSE jobStatus[j]

\* The steps a client does not see.
LEMMA Stutters ==
    ASSUME SameFlights, UNCHANGED <<round, deleted>>, \A i \in Jobs : Phase(i)' = Phase(i)
    PROVE  UNCHANGED Lifecycle!lifecycleVars
BY DEF SameFlights, Phase, Lifecycle!lifecycleVars

\* A job that is active stays so.
LEMMA StaysActive ==
    ASSUME TypeOK, SameFlights, UNCHANGED <<round, deleted>>, NEW j \in Jobs,
           NEW s \in ActiveJobStatuses, jobStatus[j] \in ActiveJobStatuses,
           jobStatus' = [jobStatus EXCEPT ![j] = s]
    PROVE  UNCHANGED Lifecycle!lifecycleVars
<1>1. \A i \in Jobs : Phase(i)' = Phase(i)
  BY DEF Phase, TypeOK
<1>2. QED
  BY <1>1, Stutters

\* An active job of which nothing is in flight gets its outcome.
LEMMA Closes ==
    ASSUME TypeOK, SameFlights, UNCHANGED <<round, deleted>>, NEW j \in Jobs,
           NEW s \in {"FAILED", "CANCELED"}, jobStatus[j] \in ActiveJobStatuses,
           InFlight(j) = {}, jobStatus' = [jobStatus EXCEPT ![j] = s]
    PROVE  Lifecycle!Close(j)
<1>1. \A i \in Jobs : Phase(i)' = IF i = j THEN s ELSE Phase(i)
  BY DEF Phase, TypeOK, ActiveJobStatuses
<1>2. [i \in Jobs |-> Phase(i)]' = [[i \in Jobs |-> Phase(i)] EXCEPT ![j] = s]
  BY <1>1
<1>3. [i \in Jobs |-> InFlight(i)]' = [i \in Jobs |-> InFlight(i)]
  BY DEF SameFlights
<1>4. Phase(j) = "ACTIVE"
  BY DEF Phase
<1>5. QED
  BY <1>2, <1>3, <1>4 DEF Phase, Lifecycle!Close

\* The requests of clients.
LEMMA ClientMaps ==
    ASSUME IInv, NEW j \in Jobs, Client(j) \/ Submission(j)
    PROVE  [Lifecycle!Next]_Lifecycle!lifecycleVars
<1>0. TypeOK
  BY DEF IInv
<1> USE DEF jobRest, jobVars
<1>1. CASE Create(j)
  <2>1. SameFlights /\ UNCHANGED <<round, deleted>>
    BY <1>1, CalmStep DEF Create, Calm, futureVars
  <2>2. Phase(j) = "ABSENT" /\ \A i \in Jobs : Phase(i)' = IF i = j THEN "ACTIVE" ELSE Phase(i)
    BY <1>0, <1>1 DEF Create, Phase, TypeOK, ActiveJobStatuses
  <2>3. [i \in Jobs |-> Phase(i)]' = [[i \in Jobs |-> Phase(i)] EXCEPT ![j] = "ACTIVE"]
    BY <2>2
  <2>4. [i \in Jobs |-> InFlight(i)]' = [i \in Jobs |-> InFlight(i)]
    BY <2>1 DEF SameFlights
  <2>5. Lifecycle!Open(j)
    BY <2>1, <2>2, <2>3, <2>4 DEF Phase, Lifecycle!Open
  <2>6. QED
    BY <2>5 DEF Lifecycle!Next
<1>2. CASE Enqueue(j)
  <2>1. SameFlights /\ UNCHANGED <<round, deleted, jobStatus>>
    BY <1>2, CalmStep DEF Enqueue, Calm, futureVars
  <2>2. QED
    BY <2>1, Stutters DEF Phase
<1>3. CASE Refuse(j)
  <2>1. SameFlights /\ UNCHANGED <<round, deleted>> /\ jobStatus' = [jobStatus EXCEPT ![j] = "FAILED"]
    BY <1>3, CalmStep DEF Refuse, Calm, futureVars
  <2>2. Lifecycle!Close(j)
    BY <1>0, <1>3, <2>1, RefuseBook, Closes
  <2>3. QED
    BY <2>2 DEF Lifecycle!Next
<1>4. CASE Cancel(j)
  <2>1. /\ SameFlights /\ UNCHANGED <<round, deleted>> /\ jobStatus[j] \in ActiveJobStatuses
        /\ jobStatus' = [jobStatus EXCEPT ![j] = "CANCELING"]
    BY <1>4, CalmStep DEF Cancel, Calm, futureVars
  <2>2. QED
    BY <1>0, <2>1, StaysActive DEF ActiveJobStatuses
<1>5. CASE Resume(j)
  <2>1. /\ UNCHANGED deleted /\ ~deleted[j] /\ round' = [round EXCEPT ![j] = @ + 1]
        /\ jobStatus[j] \in ResumableStatuses /\ jobStatus' = [jobStatus EXCEPT ![j] = "CREATED"]
    BY <1>5 DEF Resume
  <2>2. /\ Phase(j) \in {"PARTIAL", "FAILED", "CANCELED"}
        /\ \A i \in Jobs : Phase(i)' = IF i = j THEN "ACTIVE" ELSE Phase(i)
    BY <1>0, <2>1 DEF Phase, TypeOK, ActiveJobStatuses, ResumableStatuses, TerminalStatuses
  <2>3. [i \in Jobs |-> Phase(i)]' = [[i \in Jobs |-> Phase(i)] EXCEPT ![j] = "ACTIVE"]
    BY <2>2
  <2>4. [i \in Jobs |-> InFlight(i)]' = [i \in Jobs |-> InFlight(i)]
    BY <1>5, ResumeFlights DEF SameFlights
  <2>5. Lifecycle!Resume(j)
    BY <2>1, <2>2, <2>3, <2>4 DEF Phase, Lifecycle!Resume, Lifecycle!Outcomes
  <2>6. QED
    BY <2>5 DEF Lifecycle!Next
<1>6. CASE Delete(j)
  <2>1. /\ SameFlights /\ UNCHANGED <<round, jobStatus>> /\ jobStatus[j] \in TerminalStatuses
        /\ deleted' = [deleted EXCEPT ![j] = TRUE]
    BY <1>6, CalmStep DEF Delete, Calm, futureVars
  <2>2. Phase(j) \in TerminalStatuses
    BY <2>1 DEF Phase, ActiveJobStatuses, TerminalStatuses
  <2>3. [i \in Jobs |-> InFlight(i)]' = [i \in Jobs |-> InFlight(i)]
    BY <2>1 DEF SameFlights
  <2>4. Lifecycle!Delete(j)
    BY <2>1, <2>2, <2>3 DEF Phase, Lifecycle!Delete, Lifecycle!Outcomes, TerminalStatuses
  <2>5. QED
    BY <2>4 DEF Lifecycle!Next
<1>7. QED
  BY <1>1, <1>2, <1>3, <1>4, <1>5, <1>6 DEF Client, Submission

\* A target that leaves settles, and the last one may bring the outcome.
LEMMA LeavesMaps ==
    ASSUME IInv, NEW j, NEW m \in Machines, Leaves(j, m)
    PROVE  [Lifecycle!Next]_Lifecycle!lifecycleVars
<1>1. /\ j \in Jobs /\ m \in InFlight(j) /\ UNCHANGED <<round, deleted>>
      /\ \A i \in Jobs : InFlight(i)' = IF i = j THEN InFlight(j) \ {m} ELSE InFlight(i)
  BY DEF Leaves, jobRest
<1>2. [i \in Jobs |-> InFlight(i)]' = [[i \in Jobs |-> InFlight(i)] EXCEPT ![j] = @ \ {m}]
  BY <1>1
<1>3. /\ \A i \in Jobs \ {j} : jobStatus'[i] = jobStatus[i]
      /\ jobStatus[j] \in ActiveJobStatuses
      /\ \/ jobStatus'[j] \in ActiveJobStatuses
         \/ InFlight(j) = {m} /\ jobStatus'[j] \in TerminalStatuses
  BY LeavesBook
<1>4. CASE jobStatus'[j] \in ActiveJobStatuses
  <2>1. [i \in Jobs |-> Phase(i)]' = [i \in Jobs |-> Phase(i)]
    BY <1>3, <1>4 DEF Phase
  <2>2. Lifecycle!Settle(j, m)
    BY <1>1, <1>2, <2>1 DEF Phase, Lifecycle!Settle
  <2>3. QED
    BY <1>1, <2>2 DEF Lifecycle!Next
<1>5. CASE InFlight(j) = {m} /\ jobStatus'[j] \in TerminalStatuses
  <2>1. \A i \in Jobs : Phase(i)' = IF i = j THEN jobStatus'[j] ELSE Phase(i)
    BY <1>3, <1>5, Kinds DEF Phase
  <2>2. [i \in Jobs |-> Phase(i)]' = [[i \in Jobs |-> Phase(i)] EXCEPT ![j] = jobStatus'[j]]
    BY <1>1, <2>1
  <2>3. jobStatus'[j] \in Lifecycle!Outcomes
    BY <1>5 DEF Lifecycle!Outcomes, TerminalStatuses
  <2>4. Lifecycle!Settle(j, m)
    BY <1>1, <1>2, <1>5, <2>2, <2>3 DEF Phase, Lifecycle!Settle
  <2>5. QED
    BY <1>1, <2>4 DEF Lifecycle!Next
<1>6. QED
  BY <1>3, <1>4, <1>5

\* The routing thread.
LEMMA RouterMaps ==
    ASSUME IInv, RouterStep
    PROVE  [Lifecycle!Next]_Lifecycle!lifecycleVars
<1>0. TypeOK
  BY DEF IInv
<1> USE DEF jobRest, jobVars
<1>1. CASE Route \/ (RouteDispatch /\ stopping)
  <2>1. SameFlights /\ UNCHANGED <<round, deleted, jobStatus>>
    BY <1>1, CalmStep DEF Route, RouteDispatch, Calm, futureVars
  <2>2. QED
    BY <2>1, Stutters DEF Phase
<1>2. CASE RouteCanceled
  <2>1. SameFlights /\ UNCHANGED <<round, deleted>>
    BY <1>2, CalmStep DEF RouteCanceled, Calm, futureVars
  <2>2. PICK j \in Jobs : j = router.job
    BY <1>2, RouteCanceledBook
  <2>3. /\ InFlight(j) = {} /\ jobStatus[j] \in ActiveJobStatuses
        /\ jobStatus' = [jobStatus EXCEPT ![j] = "CANCELED"]
    BY <1>2, <2>2, RouteCanceledBook
  <2>4. Lifecycle!Close(j)
    BY <1>0, <2>1, <2>3, Closes
  <2>5. QED
    BY <2>4 DEF Lifecycle!Next
<1>3. CASE RouteMark
  <2>1. /\ SameFlights /\ UNCHANGED <<round, deleted>>
        /\ jobStatus' = [jobStatus EXCEPT ![router.job] = "DISPATCHING"]
    BY <1>3, CalmStep DEF RouteMark, Calm, futureVars
  <2>2. router.job \in Jobs /\ Routed(router.job)
    BY <1>3 DEF RouteMark, IInv, Entry, Routed
  <2>3. jobStatus[router.job] \in ActiveJobStatuses
    BY <2>2, Held
  <2>4. QED
    BY <1>0, <2>1, <2>2, <2>3, StaysActive DEF ActiveJobStatuses
<1>4. CASE RouteDispatch /\ ~stopping
  <2> DEFINE j == router.job
  <2>1. /\ j \in Jobs /\ InFlight(j) = {}
        /\ \A i \in Jobs : InFlight(i)' = IF i = j THEN Machines ELSE InFlight(i)
    BY <1>4, DispatchFlights
  <2>2. Routed(j) /\ UNCHANGED <<round, deleted, jobStatus>>
    BY <1>4 DEF RouteDispatch, Routed
  <2>3. Phase(j) = "ACTIVE"
    BY <2>1, <2>2, Held DEF Phase
  <2>4. [i \in Jobs |-> InFlight(i)]' = [[i \in Jobs |-> InFlight(i)] EXCEPT ![j] = Machines]
    BY <2>1
  <2>5. Lifecycle!Dispatch(j)
    BY <2>1, <2>2, <2>3, <2>4 DEF Phase, Lifecycle!Dispatch
  <2>6. QED
    BY <2>1, <2>5 DEF Lifecycle!Next
<1>5. QED
  BY <1>1, <1>2, <1>3, <1>4 DEF RouterStep

\* A step of a pool thread.
LEMMA TargetMaps ==
    ASSUME IInv, NEW m \in Machines, TargetStep(m) \/ TargetFault(m) \/ PoolDrain(m) \/ CancelPending(m)
    PROVE  [Lifecycle!Next]_Lifecycle!lifecycleVars
<1>0. TypeOK
  BY DEF IInv
<1> USE DEF jobRest, jobVars
<1>1. CASE CancelPending(m) \/ PoolDrain(m) \/ TargetFinish(m)
  BY <1>1, CanceledLeaves, DrainedLeaves, FinishedLeaves, LeavesMaps
<1>2. CASE TargetTake(m)
  <2>1. SameFlights /\ UNCHANGED <<round, deleted, jobStatus>>
    BY <1>2, TakeStep DEF TargetTake
  <2>2. QED
    BY <2>1, Stutters DEF Phase
<1>3. CASE Inner(m)
  <2>1. SameFlights /\ UNCHANGED <<round, deleted>>
    BY <1>3, InnerFlights DEF Inner, TargetOnly
  <2>2. PICK s \in ActiveJobStatuses : jobStatus' = [jobStatus EXCEPT ![thread[m].job] = s]
    BY <1>3 DEF Inner, Writes
  <2>3. thread[m].job \in Jobs /\ jobStatus[thread[m].job] \in ActiveJobStatuses
    BY <1>3, ThreadJob DEF Inner
  <2>4. QED
    BY <1>0, <2>1, <2>2, <2>3, StaysActive
<1>4. QED
  BY <1>1, <1>2, <1>3, InnerStep DEF TargetStep

\* Every step is one of the abstract specification, or is not seen by it.
LEMMA NextMaps == IInv /\ [Next]_vars => [Lifecycle!Next]_Lifecycle!lifecycleVars
<1> SUFFICES ASSUME IInv, [Next]_vars PROVE [Lifecycle!Next]_Lifecycle!lifecycleVars
  OBVIOUS
<1> USE DEF jobRest, jobVars
<1>1. ASSUME NEW j \in Jobs, Client(j) \/ Submission(j)
      PROVE  [Lifecycle!Next]_Lifecycle!lifecycleVars
  BY <1>1, ClientMaps
<1>2. CASE RouterStep
  BY <1>2, RouterMaps
<1>3. ASSUME NEW m \in Machines,
             TargetStep(m) \/ TargetFault(m) \/ PoolDrain(m) \/ CancelPending(m)
      PROVE  [Lifecycle!Next]_Lifecycle!lifecycleVars
  BY <1>3, TargetMaps
<1>4. CASE CancelReturns \/ Stop \/ Restart \/ UNCHANGED vars
  <2>1. SameFlights /\ UNCHANGED <<round, deleted, jobStatus>>
    BY <1>4, CalmStep DEF CancelReturns, Stop, Restart, vars, Calm, futureVars
  <2>2. QED
    BY <2>1, Stutters DEF Phase
<1>5. ASSUME NEW j \in Jobs, NEW m \in Machines, WorkerEnds(j, m) \/ WorkerCanceled(j, m)
      PROVE  [Lifecycle!Next]_Lifecycle!lifecycleVars
  <2>1. SameFlights /\ UNCHANGED <<round, deleted, jobStatus>>
    BY <1>5, CalmStep DEF WorkerEnds, WorkerCanceled, WorkerWrites, Calm, futureVars
  <2>2. QED
    BY <2>1, Stutters DEF Phase
<1>6. CASE Exit
  <2>1. [i \in Jobs |-> InFlight(i)]' = [i \in Jobs |-> {}]
    BY <1>6, ExitFlights
  <2>2. UNCHANGED <<jobStatus, round, deleted>>
    BY <1>6 DEF Exit
  <2>3. Lifecycle!Forget
    BY <2>1, <2>2 DEF Lifecycle!Forget
  <2>4. QED
    BY <2>3 DEF Lifecycle!Next
<1>7. QED
  BY <1>1, <1>2, <1>3, <1>4, <1>5, <1>6 DEF Next, CancelStep

\* The initial state is one of the abstract specification.
LEMMA InitMaps == Init => Lifecycle!Init
<1> SUFFICES ASSUME Init PROVE Lifecycle!Init
  OBVIOUS
<1>1. \A j \in Jobs : InFlight(j) = {}
  BY ConstantsAssumption DEF Init, Idle, InFlight, InPool
<1>2. [j \in Jobs |-> Phase(j)] = [j \in Jobs |-> "ABSENT"]
  BY DEF Init, Phase, ActiveJobStatuses
<1>3. QED
  BY <1>1, <1>2 DEF Init, Phase, Lifecycle!Init
-----------------------------------------------------------------------------
\* The invariant the other theorems rest on: what the tables, the queue, the
\* routing thread, the pools and the counters say of each job agrees, in every
\* reachable state (dispatcher.py and store.py of the Master).
THEOREM InvariantHolds == Spec => []IInv
<1>1. Init => IInv
  BY InvInit
<1>2. IInv /\ [Next]_vars => IInv'
  BY InvNext
<1>3. QED
  BY <1>1, <1>2, PTL DEF Spec

\* No run of an earlier round is alive, and the counter of the done callbacks
\* is the number of targets in flight (_sync_job_status_locked and finished of
\* dispatcher.py).
THEOREM RunsAreCurrent == Spec => []RunIsCurrent
BY InvariantHolds, InvRunIsCurrent, PTL

\* What a client reads of an ended job is the aggregate of its execution rows,
\* or the job was refused (_sync_job_status_locked, _create_job).
THEOREM OutcomesAgree == Spec => []OutcomeAgrees
<1>1. IInv => OutcomeAgrees
  BY DEF IInv
<1>2. QED
  BY <1>1, InvariantHolds, PTL

\* While the Master serves, the active jobs are those in its memory, each in
\* one place (enqueue, _run_job, finished, cancel, resume and start).
THEOREM JobsTracked == Spec => []JobsAreTracked
BY InvariantHolds, InvJobsAreTracked, PTL

\* The dispatcher implements JobLifecycle: the outcome of a job comes with its
\* last target, only a resume gives it up, and a deleted job stays as it is.
THEOREM LifecycleFollowed == Spec => FollowsLifecycle
<1>1. Init => Lifecycle!Init
  BY InitMaps
<1>2. IInv /\ [Next]_vars => [Lifecycle!Next]_Lifecycle!lifecycleVars
  BY NextMaps
<1>3. QED
  BY <1>1, <1>2, InvariantHolds, PTL DEF Spec, FollowsLifecycle, Lifecycle!Spec

\* Nothing runs in the dispatcher for a job that does not exist or has its
\* outcome: the promise of the lifecycle by which a resume starts alone
\* (_sync_job_status_locked).
THEOREM EndedJobsQuiet == Spec => [](Lifecycle!TypeOK /\ Lifecycle!EndedJobIsQuiet)
<1>1. ASSUME IInv, NEW j \in Jobs, jobStatus[j] \notin ActiveJobStatuses PROVE InFlight(j) = {}
  <2>1. \A m \in Machines : m \notin InFlight(j)
    BY <1>1, Flying
  <2>2. QED
    BY <2>1 DEF InFlight
<1>2. IInv => Lifecycle!EndedJobIsQuiet
  BY <1>1 DEF Lifecycle!EndedJobIsQuiet
<1>3. IInv => Lifecycle!TypeOK
  BY DEF IInv, TypeOK, InFlight, Lifecycle!TypeOK, Lifecycle!Outcomes, TerminalStatuses, ActiveJobStatuses
<1>4. QED
  BY <1>2, <1>3, InvariantHolds, PTL
=============================================================================
