----------------------------- MODULE Ends_proofs -----------------------------
(***************************************************************************)
(* Proofs about ExtractionJobs: no queued extraction is forgotten, one     *)
(* that succeeded is complete, a PCAP only goes with its results, and no   *)
(* unit is started while its source is not at rest; for any jobs, units    *)
(* and bounds.  And about JobContract: what the Master lets through a      *)
(* Worker refuses for its own limits only, and its task makes exactly the  *)
(* units of the Master's rows; for any bodies, Workers and limits.         *)
(***************************************************************************)
EXTENDS ExtractionJobs, JobContract, FiniteSetTheorems, TLAPS

Statuses == Terminal \cup {"none", "QUEUED", "ANALYZING", "CANCELING"}
Rows == [status : Statuses, cancel : BOOLEAN, cursor : 0..Count, failed : SUBSET Units, keep : 0..Count]
Resting == {"poll", "capture", "take"}
Working == {"next", "unit", "judge"}
Consumers == [pc : Resting \cup Working \cup {"begin"}, job : Jobs \cup {NoExtraction},
              cursor : 0..Count, failed : SUBSET Units, code : BOOLEAN]

\* The types that the steps below need; nothing is said of the bounds.
RowTyped == row \in [Jobs -> Rows]
QueuesTyped == extractions \in [Jobs -> Nat] /\ captures \in Seq({Source, Other})
FilesTyped == results \in [Units -> SUBSET Steps] /\ captured \subseteq Units /\ pcap \subseteq Units
Typed == RowTyped /\ QueuesTyped /\ FilesTyped /\ consumer \in Consumers

\* The consumer has a job exactly when it works on one, and that job has a row;
\* so has every job in the queue, the one that is being canceled, and the one that
\* a call is to put into the queue.
JobsHaveRows ==
    /\ consumer.pc \in Resting => consumer.job = NoExtraction
    /\ consumer.pc \notin Resting => consumer.job \in Jobs /\ Exists(consumer.job)
    /\ consumer.pc \in {"unit", "judge"} => consumer.cursor < Count
    /\ \A e \in Jobs : extractions[e] > 0 => Exists(e)
    /\ handler.pc # "idle" => handler.job \in Jobs /\ Exists(handler.job)
    /\ submitter.has = "job" => submitter.job \in Jobs /\ Exists(submitter.job)
    /\ submitter.has # "job" => submitter.job = NoExtraction

\* The progress of a row, and of the consumer, is the truth about the results.
Done(e, cursor, failed) == \A u \in Units : u <= cursor /\ u \notin failed => e \subseteq results[u]
ProgressIsTrue ==
    /\ \A e \in Jobs : Done(e, row[e].cursor, row[e].failed)
    /\ consumer.pc \notin Resting =>
          /\ Done(consumer.job, consumer.cursor, consumer.failed)
          /\ row[consumer.job].status # "SUCCEEDED"
    /\ \A e \in Jobs : row[e].status = "SUCCEEDED" => row[e].cursor = Count /\ row[e].failed = {}

\* A source that was resumed waits in the queue of captures, which the consumer
\* looks at before the next unit, unless its call has not put it there.
SourceWaits ==
    /\ source = "QUEUED" => \/ \E i \in DOMAIN captures : captures[i] = Source
                           \/ submitter.has = "source" \/ astray
    /\ consumer.pc \in Working => source \in {"SUCCEEDED", "PARTIAL", "QUEUED"}
    /\ consumer.pc = "capture" <=> source = "CAPTURING"
    /\ source \in Terminal \cup {"QUEUED", "CAPTURING"}

IInv ==
    /\ Typed /\ JobsHaveRows /\ ProgressIsTrue /\ SourceWaits
    /\ NoExtractionLost /\ RetentionHonoured
-----------------------------------------------------------------------------
\* No job is the empty set; a policy retains some of the units.
LEMMA Constants ==
    ASSUME ExtractionJobsAssumption
    PROVE  NoExtraction \notin Jobs /\ Count \in Nat \ {0} /\ Policies \subseteq 0..Count
           /\ \A e \in Jobs : e \subseteq Steps
BY DEF ExtractionJobsAssumption, NoExtraction

\* What a step leaves of the rows: a job that has a row keeps it, and its policy.
RowsGoOn == \A e \in Jobs : Exists(e) => row'[e].status # "none" /\ row'[e].keep = row[e].keep

\* One row is written.
LEMMA RowSet ==
    ASSUME RowTyped, NEW e \in Jobs, NEW r \in Rows, row' = [row EXCEPT ![e] = r],
           Exists(e) => r.status # "none" /\ r.keep = row[e].keep
    PROVE  RowTyped' /\ RowsGoOn /\ row'[e] = r /\ \A f \in Jobs \ {e} : row'[f] = row[f]
BY DEF RowTyped, RowsGoOn, Exists

\* A fresh row is a row, without progress.
LEMMA FreshRow ==
    ASSUME ExtractionJobsAssumption, NEW k \in 0..Count
    PROVE  /\ Fresh(k) \in Rows /\ Fresh(k).status = "QUEUED" /\ Fresh(k).keep = k
           /\ Fresh(k).cursor = 0 /\ Fresh(k).failed = {}
BY Constants DEF Fresh, Rows, Statuses

\* What the end of run writes.
LEMMA WriteRow ==
    ASSUME RowTyped, consumer \in Consumers, consumer.job \in Jobs,
           NEW t \in Statuses \ {"none"}, Write(t)
    PROVE  /\ RowTyped' /\ RowsGoOn
           /\ row'[consumer.job].status = t /\ row'[consumer.job].cursor = consumer.cursor
           /\ row'[consumer.job].failed = consumer.failed
           /\ \A f \in Jobs \ {consumer.job} : row'[f] = row[f]
<1> DEFINE e == consumer.job
           r == [row[e] EXCEPT !.status = t, !.cursor = consumer.cursor, !.failed = consumer.failed]
<1>1. consumer.cursor \in 0..Count /\ consumer.failed \in SUBSET Units
  BY DEF Consumers
<1>2. r \in Rows /\ row[e] \in Rows
  BY <1>1 DEF RowTyped, Rows
<1>3. row' = [row EXCEPT ![e] = r]
  BY DEF Write, RowTyped
<1>4. r.status = t /\ r.keep = row[e].keep /\ r.cursor = consumer.cursor /\ r.failed = consumer.failed
  BY <1>2 DEF Rows
<1> QED
  BY <1>2, <1>3, <1>4, RowSet

\* Every step keeps the type of the rows, and leaves each job its row.
LEMMA RowStep ==
    ASSUME ExtractionJobsAssumption, Typed, JobsHaveRows, Next
    PROVE  RowTyped' /\ RowsGoOn
<1> USE Constants DEF Typed
<1>0. ASSUME UNCHANGED row PROVE RowTyped' /\ RowsGoOn
  BY <1>0 DEF RowTyped, RowsGoOn, Exists
<1>1. ASSUME NEW e \in Jobs, NEW k \in 0..Count, row' = [row EXCEPT ![e] = Fresh(k)],
             ~Exists(e) \/ k = row[e].keep
      PROVE  RowTyped' /\ RowsGoOn
  BY <1>1, FreshRow, RowSet
<1>2. ASSUME NEW e \in Jobs, row' = [row EXCEPT ![e] = Fresh(@.keep)]
      PROVE  RowTyped' /\ RowsGoOn
  <2>1. row[e].keep \in 0..Count
    BY DEF RowTyped, Rows
  <2>2. row' = [row EXCEPT ![e] = Fresh(row[e].keep)]
    BY <1>2 DEF RowTyped
  <2> QED
    BY <1>1, <2>1, <2>2
<1>3. ASSUME NEW e \in Jobs, NEW b \in BOOLEAN, row' = [row EXCEPT ![e].cancel = b]
      PROVE  RowTyped' /\ RowsGoOn
  <2> DEFINE r == [row[e] EXCEPT !.cancel = b]
  <2>1. r \in Rows /\ row[e] \in Rows
    BY DEF RowTyped, Rows
  <2>2. row' = [row EXCEPT ![e] = r]
    BY <1>3 DEF RowTyped
  <2>3. r.status = row[e].status /\ r.keep = row[e].keep
    BY <2>1 DEF Rows
  <2> QED
    BY <2>1, <2>2, <2>3, RowSet DEF Exists
<1>4. ASSUME NEW e \in Jobs, NEW t \in Statuses \ {"none"}, row' = [row EXCEPT ![e].status = t]
      PROVE  RowTyped' /\ RowsGoOn
  <2> DEFINE r == [row[e] EXCEPT !.status = t]
  <2>1. r \in Rows /\ row[e] \in Rows
    BY DEF RowTyped, Rows
  <2>2. row' = [row EXCEPT ![e] = r]
    BY <1>4 DEF RowTyped
  <2>3. r.status = t /\ r.keep = row[e].keep
    BY <2>1 DEF Rows
  <2> QED
    BY <2>1, <2>2, <2>3, RowSet
<1>5. ASSUME NEW t \in Statuses \ {"none"}, Write(t), consumer.pc \notin Resting
      PROVE  RowTyped' /\ RowsGoOn
  BY <1>5, WriteRow DEF JobsHaveRows
<1>6. ASSUME NEW e \in Jobs, NEW k \in Policies, Submit(e, k)
      PROVE  RowTyped' /\ RowsGoOn
  BY <1>6, <1>1 DEF Submit
<1>7. ASSUME NEW e \in Jobs, Resubmit(e) \/ ResumeJob(e) PROVE RowTyped' /\ RowsGoOn
  BY <1>7, <1>2, <1>3 DEF Resubmit, ResumeJob
<1>8. ASSUME NEW e \in Jobs, Take(e) PROVE RowTyped' /\ RowsGoOn
  BY <1>8, <1>0, <1>4 DEF Take, Statuses, Terminal
<1>9. CASE CancelRequest
  BY <1>9, <1>3 DEF CancelRequest, JobsHaveRows
<1>10. CASE CancelMark
  BY <1>10, <1>4 DEF CancelMark, JobsHaveRows, Statuses, Terminal
<1>11. CASE Begin
  <2>1. consumer.job \in Jobs /\ consumer.pc \notin Resting
    BY <1>11 DEF Begin, JobsHaveRows, Resting
  <2> QED
    BY <1>11, <2>1, <1>4, <1>5 DEF Begin, Statuses, Terminal
<1>12. CASE Yield \/ RunCanceled \/ RunStopped
  <2>1. consumer.pc \notin Resting
    BY <1>12 DEF Yield, RunCanceled, RunStopped, Resting
  <2> QED
    BY <1>12, <2>1, <1>5 DEF Yield, RunCanceled, RunStopped, Statuses, Terminal
<1>13. CASE Finish
  <2>1. consumer.pc \notin Resting
    BY <1>13 DEF Finish, Resting
  <2> QED
    BY <1>13, <2>1, <1>5 DEF Finish, Statuses, Terminal
<1>14. CASE Judge
  <2> DEFINE e == consumer.job
             u == consumer.cursor + 1
             r == [row[e] EXCEPT !.cursor = u, !.failed = consumer'.failed]
  <2>1. e \in Jobs /\ consumer.cursor \in 0..Count /\ consumer.cursor < Count /\ consumer.failed \in SUBSET Units
    BY <1>14 DEF Judge, JobsHaveRows, Consumers, Resting
  <2>2. u \in 0..Count /\ u \in Units
    BY <2>1 DEF Units
  <2>3. consumer'.failed \in SUBSET Units /\ row' = [row EXCEPT ![e] = r]
    BY <1>14, <2>1, <2>2 DEF Judge, Consumers, RowTyped
  <2>4. r \in Rows /\ row[e] \in Rows
    BY <2>1, <2>2, <2>3 DEF RowTyped, Rows
  <2>5. r.status = row[e].status /\ r.keep = row[e].keep
    BY <2>4 DEF Rows
  <2> QED
    BY <2>1, <2>3, <2>4, <2>5, RowSet DEF Exists
<1>15. CASE Restart
  <2>1. \A e \in Jobs : /\ row'[e] = Recovered(row[e]) /\ Recovered(row[e]) \in Rows
                        /\ Recovered(row[e]).keep = row[e].keep
                        /\ Exists(e) => Recovered(row[e]).status # "none"
    <3> TAKE e \in Jobs
    <3>1. row[e] \in Rows /\ [row[e] EXCEPT !.status = "CANCELED"] \in Rows
          /\ [row[e] EXCEPT !.status = "QUEUED"] \in Rows
      BY DEF RowTyped, Rows, Statuses, Terminal
    <3> QED
      BY <1>15, <3>1 DEF Restart, Recovered, Exists, Rows, Terminal
  <2> QED
    BY <1>15, <2>1 DEF Restart, RowTyped, RowsGoOn
<1>16. CASE \/ \E e \in Jobs : CancelRead(e)
            \/ ResumeSource \/ SubmitOther \/ TakeCapture \/ PollEmpty \/ EndCapture \/ StartUnit
            \/ Command \/ Shutdown \/ PutJob \/ PutSource
  BY <1>16, <1>0 DEF CancelRead, ResumeSource, SubmitOther, TakeCapture, PollEmpty, EndCapture,
                     StartUnit, Command, Shutdown, PutJob, PutSource
<1> QED
  BY <1>6, <1>7, <1>8, <1>9, <1>10, <1>11, <1>12, <1>13, <1>14, <1>15, <1>16
     DEF Next, Requests, Call, Consume

\* The captures that wait after a restart are a sequence.
LEMMA OthersTyped ==
    ASSUME captures \in Seq({Source, Other})
    PROVE  Others \in Seq({Source, Other})
<1> DEFINE S == {j \in DOMAIN captures : captures[j] = Other}
<1>1. IsFiniteSet(1 .. Len(captures)) /\ S \subseteq 1 .. Len(captures)
  BY FS_Interval
<1>2. Cardinality(S) \in Nat
  BY <1>1, FS_Subset, FS_CardinalityType
<1> HIDE DEF S
<1>3. [i \in 1 .. Cardinality(S) |-> Other] \in Seq({Source, Other})
  BY <1>2
<1> QED
  BY <1>3 DEF Others, S

\* Every step keeps the types of the two queues.
LEMMA QueuesStep ==
    ASSUME ExtractionJobsAssumption, Typed, JobsHaveRows, Next
    PROVE  QueuesTyped'
<1> USE DEF Typed, QueuesTyped
<1>1. ASSUME UNCHANGED <<extractions, captures>> PROVE QueuesTyped'
  BY <1>1
<1>2. ASSUME NEW e \in Jobs, Enqueue(e), UNCHANGED captures PROVE QueuesTyped'
  BY <1>2 DEF Enqueue
<1>3. ASSUME NEW e \in Jobs, NEW k \in Policies, Submit(e, k) PROVE QueuesTyped'
  BY <1>3, <1>1 DEF Submit
<1>4. ASSUME NEW e \in Jobs, Resubmit(e) \/ ResumeJob(e) PROVE QueuesTyped'
  BY <1>4, <1>1 DEF Resubmit, ResumeJob
<1>5. ASSUME NEW e \in Jobs, Take(e) PROVE QueuesTyped'
  BY <1>5 DEF Take, Oldest
<1>6. CASE PutSource \/ SubmitOther
  BY <1>6 DEF PutSource, SubmitOther
<1>11. CASE PutJob
  BY <1>1, <1>2, <1>11 DEF PutJob, JobsHaveRows
<1>7. CASE TakeCapture
  BY <1>7 DEF TakeCapture
<1>8. CASE Yield
  <2>1. consumer.job \in Jobs
    BY <1>8 DEF Yield, JobsHaveRows, Resting
  <2> QED
    BY <1>8, <2>1, <1>2 DEF Yield
<1>9. CASE Restart
  <2>1. Others \in Seq({Source, Other}) /\ <<Source>> \in Seq({Source, Other})
    BY OthersTyped
  <2>2. <<Source>> \o Others \in Seq({Source, Other}) /\ <<>> \o Others \in Seq({Source, Other})
    BY <2>1
  <2>3. captures' \in Seq({Source, Other})
    BY <1>9, <2>2 DEF Restart
  <2> QED
    BY <1>9, <2>3 DEF Restart
<1>10. CASE \/ \E e \in Jobs : CancelRead(e)
            \/ ResumeSource \/ CancelRequest \/ CancelMark \/ PollEmpty \/ EndCapture \/ Begin \/ StartUnit
            \/ RunCanceled \/ RunStopped \/ Command \/ Judge \/ Finish \/ Shutdown
  BY <1>10, <1>1 DEF CancelRead, ResumeSource, CancelRequest, CancelMark, PollEmpty, EndCapture, Begin,
                     StartUnit, RunCanceled, RunStopped, Command, Judge, Finish, Shutdown
<1> QED
  BY <1>3, <1>4, <1>5, <1>6, <1>7, <1>8, <1>9, <1>10, <1>11 DEF Next, Requests, Call, Consume

\* What Command does to the files: results only grow, by steps of its job, and
\* a PCAP only goes when the job does not retain it and has its results.
LEMMA CommandFiles ==
    ASSUME ExtractionJobsAssumption, Typed, JobsHaveRows, Command
    PROVE  LET u == consumer.cursor + 1 e == consumer.job IN
           /\ u \in Units /\ e \in Jobs /\ Exists(e) /\ FilesTyped'
           /\ \A v \in Units : results[v] \subseteq results'[v]
           /\ \A v \in pcap \ pcap' : v = u /\ ~Retains(e, u) /\ e \subseteq results'[u]
           /\ pcap' \subseteq pcap /\ captured' = captured
<1> DEFINE u == consumer.cursor + 1
           e == consumer.job
           extracted == [results EXCEPT ![u] = @ \cup e]
           retired == IF Retains(e, u) THEN pcap ELSE pcap \ {u}
<1>1. e \in Jobs /\ Exists(e) /\ consumer.cursor \in 0..Count /\ consumer.cursor < Count
  BY DEF Command, JobsHaveRows, Resting, Typed, Consumers
<1>2. u \in Units /\ e \subseteq Steps
  BY <1>1, Constants DEF Units
<1>3. /\ \/ UNCHANGED <<results, pcap>>
         \/ results' = extracted /\ pcap' \in {pcap, retired}
      /\ captured' = captured
  BY DEF Command
<1>4. extracted \in [Units -> SUBSET Steps]
  BY <1>2 DEF Typed, FilesTyped
<1>5. e \subseteq extracted[u] /\ \A v \in Units : results[v] \subseteq extracted[v]
  BY <1>2 DEF Typed, FilesTyped
<1>6. retired \subseteq pcap /\ \A v \in pcap \ retired : v = u /\ ~Retains(e, u)
  OBVIOUS
<1> HIDE DEF extracted, retired, u, e
<1>7. FilesTyped' /\ \A v \in Units : results[v] \subseteq results'[v]
  BY <1>3, <1>4, <1>5, <1>6 DEF Typed, FilesTyped
<1>8. pcap' \subseteq pcap /\ \A v \in pcap \ pcap' : v = u /\ ~Retains(e, u) /\ e \subseteq results'[u]
  BY <1>3, <1>5, <1>6
<1> QED
  BY <1>1, <1>2, <1>3, <1>7, <1>8 DEF u, e

\* Every step keeps the types of the files, and no result goes.
LEMMA FilesStep ==
    ASSUME ExtractionJobsAssumption, Typed, JobsHaveRows, Next
    PROVE  FilesTyped' /\ \A v \in Units : results[v] \subseteq results'[v]
<1>1. ASSUME UNCHANGED files PROVE FilesTyped' /\ \A v \in Units : results[v] \subseteq results'[v]
  BY <1>1 DEF Typed, FilesTyped, files
<1>2. CASE Command
  BY <1>2, CommandFiles
<1>3. CASE EndCapture
  BY <1>3 DEF EndCapture, Typed, FilesTyped
<1>4. ASSUME NEW e \in Jobs, \/ \E k \in Policies : Submit(e, k)
                             \/ Resubmit(e) \/ ResumeJob(e) \/ CancelRead(e) \/ Take(e)
      PROVE  UNCHANGED files
  BY <1>4 DEF Submit, Resubmit, ResumeJob, CancelRead, Take, files
<1>5. CASE \/ ResumeSource \/ SubmitOther \/ CancelRequest \/ CancelMark \/ TakeCapture \/ PollEmpty
           \/ Begin \/ StartUnit \/ Yield \/ RunCanceled \/ RunStopped \/ Judge \/ Finish
           \/ Shutdown \/ Restart \/ PutJob \/ PutSource
  BY <1>5, <1>1 DEF ResumeSource, SubmitOther, PutJob, PutSource, CancelRequest, CancelMark, TakeCapture, PollEmpty,
       Begin, StartUnit, Yield, RunCanceled, RunStopped, Judge, Finish, Shutdown, Restart, files
<1> QED
  BY <1>1, <1>2, <1>3, <1>4, <1>5 DEF Next, Requests, Call, Consume

\* The consumer without work, and at another step, has its type.
LEMMA ConsumerTyped ==
    ASSUME ExtractionJobsAssumption, consumer \in Consumers
    PROVE  /\ NoWork \in Consumers
           /\ \A p \in Resting \cup Working \cup {"begin"} : [consumer EXCEPT !.pc = p] \in Consumers
BY Constants DEF NoWork, Consumers, Resting

\* Every step keeps the type of the consumer.
LEMMA ConsumerStep ==
    ASSUME ExtractionJobsAssumption, Typed, JobsHaveRows, Next
    PROVE  consumer' \in Consumers
<1>0. consumer \in Consumers
  BY DEF Typed
<1>1. NoWork \in Consumers /\ \A p \in Resting \cup Working \cup {"begin"} : Goes(p) => consumer' \in Consumers
  BY <1>0, ConsumerTyped DEF Goes
<1>2. ASSUME NEW e \in Jobs, Take(e) PROVE consumer' \in Consumers
  <2> DEFINE c == [NoWork EXCEPT !.pc = "begin", !.job = e, !.cursor = row[e].cursor,
                                 !.failed = row[e].failed]
  <2>1. row[e].cursor \in 0..Count /\ row[e].failed \in SUBSET Units
    BY DEF Typed, RowTyped, Rows
  <2>2. c \in Consumers
    BY <2>1 DEF NoWork, Consumers
  <2>3. consumer' = NoWork \/ consumer' = c
    BY <1>2 DEF Take
  <2> QED
    BY <1>1, <2>2, <2>3
<1>3. CASE Command
  <2>1. PICK code \in BOOLEAN : consumer' = [consumer EXCEPT !.pc = "judge", !.code = code]
    BY <1>3 DEF Command
  <2> QED
    BY <1>0, <2>1 DEF Consumers, Working
<1>4. CASE Judge
  <2> DEFINE u == consumer.cursor + 1
  <2>1. consumer.cursor \in 0..Count /\ consumer.cursor < Count /\ consumer.failed \in SUBSET Units
    BY <1>0, <1>4 DEF Judge, JobsHaveRows, Consumers
  <2>2. u \in 0..Count /\ u \in Units
    BY <2>1, Constants DEF Units
  <2>3. PICK f \in {consumer.failed, consumer.failed \cup {u}} :
           consumer' = [consumer EXCEPT !.pc = "next", !.cursor = u, !.failed = f]
    BY <1>4 DEF Judge
  <2>4. f \in SUBSET Units
    BY <2>1, <2>2, <2>3
  <2> QED
    BY <1>0, <2>2, <2>3, <2>4 DEF Consumers, Working
<1>5. CASE TakeCapture \/ PollEmpty \/ StartUnit \/ Begin
  BY <1>0, <1>1, <1>5 DEF TakeCapture, PollEmpty, StartUnit, Begin, Resting, Working
<1>6. CASE EndCapture \/ Yield \/ RunCanceled \/ RunStopped \/ Finish \/ Restart
  BY <1>1, <1>6 DEF EndCapture, Yield, RunCanceled, RunStopped, Finish, Restart
<1>7. ASSUME NEW e \in Jobs, \/ \E k \in Policies : Submit(e, k)
                             \/ Resubmit(e) \/ ResumeJob(e) \/ CancelRead(e)
      PROVE  consumer' \in Consumers
  BY <1>0, <1>7 DEF Submit, Resubmit, ResumeJob, CancelRead
<1>8. CASE ResumeSource \/ SubmitOther \/ CancelRequest \/ CancelMark \/ PutJob \/ PutSource \/ Shutdown
  BY <1>0, <1>8 DEF ResumeSource, SubmitOther, CancelRequest, CancelMark, PutJob, PutSource, Shutdown
<1> QED
  BY <1>2, <1>3, <1>4, <1>5, <1>6, <1>7, <1>8 DEF Next, Requests, Call, Consume

\* Every step keeps the types.
LEMMA TypedStep ==
    ASSUME ExtractionJobsAssumption, Typed, JobsHaveRows, Next
    PROVE  Typed'
BY RowStep, QueuesStep, FilesStep, ConsumerStep DEF Typed
-----------------------------------------------------------------------------
\* What JobsHaveRows says of the consumer.
JobKnown ==
    /\ consumer.pc \in Resting => consumer.job = NoExtraction
    /\ consumer.pc \notin Resting => consumer.job \in Jobs /\ Exists(consumer.job)
    /\ consumer.pc \in {"unit", "judge"} => consumer.cursor < Count

\* And of the call that holds the lock.
SubmitterKnown ==
    /\ submitter.has = "job" => submitter.job \in Jobs /\ Exists(submitter.job)
    /\ submitter.has # "job" => submitter.job = NoExtraction

\* Every step keeps it that what is queued, canceled or worked on has a row.
LEMMA RowsStep ==
    ASSUME ExtractionJobsAssumption, Typed, JobsHaveRows, Next
    PROVE  JobsHaveRows'
<1>0. RowTyped' /\ RowsGoOn /\ consumer \in Consumers /\ consumer' \in Consumers
  BY RowStep, ConsumerStep DEF Typed
<1>1. \A e \in Jobs : Exists(e) => Exists(e)'
  BY <1>0 DEF RowsGoOn, Exists
<1>2. JobKnown'
  <2>1. ASSUME consumer' = NoWork PROVE JobKnown'
    BY <2>1 DEF JobKnown, NoWork, Resting
  <2>2. ASSUME UNCHANGED consumer PROVE JobKnown'
    BY <1>1, <2>2 DEF JobKnown, JobsHaveRows
  <2>3. ASSUME NEW e \in Jobs, Take(e) PROVE JobKnown'
    BY <1>1, <2>1, <2>3 DEF Take, Oldest, JobKnown, JobsHaveRows, NoWork, Resting
  <2>4. CASE Command \/ Judge
    BY <1>0, <1>1, <2>4 DEF Command, Judge, JobKnown, JobsHaveRows, Consumers, Resting
  <2>5. CASE TakeCapture \/ PollEmpty \/ StartUnit \/ Begin
    BY <1>0, <1>1, <2>1, <2>2, <2>5
       DEF TakeCapture, PollEmpty, StartUnit, Begin, Goes, JobKnown, JobsHaveRows, Consumers, Resting
  <2>6. CASE EndCapture \/ Yield \/ RunCanceled \/ RunStopped \/ Finish \/ Restart
    BY <2>1, <2>6 DEF EndCapture, Yield, RunCanceled, RunStopped, Finish, Restart
  <2>7. ASSUME NEW e \in Jobs, \/ \E k \in Policies : Submit(e, k)
                               \/ Resubmit(e) \/ ResumeJob(e) \/ CancelRead(e)
        PROVE  JobKnown'
    BY <2>2, <2>7 DEF Submit, Resubmit, ResumeJob, CancelRead
  <2>8. CASE ResumeSource \/ SubmitOther \/ CancelRequest \/ CancelMark \/ PutJob \/ PutSource \/ Shutdown
    BY <2>2, <2>8 DEF ResumeSource, SubmitOther, CancelRequest, CancelMark, PutJob, PutSource, Shutdown
  <2> QED
    BY <2>3, <2>4, <2>5, <2>6, <2>7, <2>8 DEF Next, Requests, Call, Consume
<1>3. \A f \in Jobs : extractions'[f] > 0 => Exists(f)'
  <2>0. extractions \in [Jobs -> Nat]
    BY DEF Typed, QueuesTyped
  <2>1. ASSUME \A f \in Jobs : extractions'[f] > 0 => extractions[f] > 0
        PROVE  \A f \in Jobs : extractions'[f] > 0 => Exists(f)'
    BY <1>1, <2>1 DEF JobsHaveRows
  <2>2. ASSUME NEW e \in Jobs, Enqueue(e), Exists(e)'
        PROVE  \A f \in Jobs : extractions'[f] > 0 => Exists(f)'
    BY <1>1, <2>0, <2>2 DEF Enqueue, JobsHaveRows
  <2>3. ASSUME NEW e \in Jobs, (\E k \in Policies : Submit(e, k)) \/ Resubmit(e) \/ ResumeJob(e)
        PROVE  UNCHANGED extractions
    BY <2>3 DEF Submit, Resubmit, ResumeJob
  <2>4. CASE PutJob
    <3>1. PICK e \in Jobs : Exists(e) /\ (Enqueue(e) \/ UNCHANGED extractions)
      BY <2>4 DEF PutJob, JobsHaveRows
    <3>2. Exists(e)'
      BY <1>1, <3>1
    <3> QED
      BY <2>1, <2>2, <3>1, <3>2
  <2>6. ASSUME NEW e \in Jobs, Take(e) PROVE \A f \in Jobs : extractions'[f] > 0 => extractions[f] > 0
    BY <2>0, <2>6 DEF Take, Oldest
  <2>7. CASE Yield
    <3>1. consumer.job \in Jobs /\ Exists(consumer.job) /\ Enqueue(consumer.job)
      BY <2>7 DEF Yield, JobsHaveRows, Resting
    <3> QED
      BY <1>1, <2>2, <3>1
  <2>8. CASE Restart
    <3>1. \A f \in Jobs : extractions'[f] = IF row'[f].status = "QUEUED" THEN 1 ELSE 0
      BY <2>8 DEF Restart
    <3> QED
      BY <3>1 DEF Exists
  <2>9. ASSUME UNCHANGED extractions PROVE \A f \in Jobs : extractions'[f] > 0 => Exists(f)'
    BY <2>1, <2>9
  <2>10. CASE \/ \E e \in Jobs : CancelRead(e)
              \/ ResumeSource \/ SubmitOther \/ CancelRequest \/ CancelMark \/ TakeCapture \/ PollEmpty
              \/ EndCapture \/ Begin \/ StartUnit \/ RunCanceled \/ RunStopped \/ Command \/ Judge
              \/ Finish \/ Shutdown \/ PutSource
    BY <2>9, <2>10 DEF CancelRead, ResumeSource, SubmitOther, PutSource, CancelRequest, CancelMark, TakeCapture,
         PollEmpty, EndCapture, Begin, StartUnit, RunCanceled, RunStopped, Command, Judge, Finish, Shutdown
  <2> QED
    BY <2>1, <2>3, <2>4, <2>6, <2>7, <2>8, <2>9, <2>10 DEF Next, Requests, Call, Consume
<1>4. (handler.pc # "idle" => handler.job \in Jobs /\ Exists(handler.job))'
  <2>1. ASSUME UNCHANGED handler PROVE (handler.pc # "idle" => handler.job \in Jobs /\ Exists(handler.job))'
    BY <1>1, <2>1 DEF JobsHaveRows
  <2>2. ASSUME NEW e \in Jobs, CancelRead(e)
        PROVE  (handler.pc # "idle" => handler.job \in Jobs /\ Exists(handler.job))'
    BY <1>1, <2>2 DEF CancelRead, Active
  <2>3. CASE CancelRequest
    <3>1. handler' = NoCall \/ (handler.job \in Jobs /\ Exists(handler.job) /\ handler'.job = handler.job)
      BY <2>3 DEF CancelRequest, JobsHaveRows
    <3> QED
      BY <1>1, <3>1 DEF NoCall
  <2>4. CASE CancelMark \/ Restart
    BY <2>4 DEF CancelMark, Restart, NoCall
  <2>5. ASSUME NEW e \in Jobs, (\E k \in Policies : Submit(e, k)) \/ Resubmit(e) \/ ResumeJob(e) \/ Take(e)
        PROVE  UNCHANGED handler
    BY <2>5 DEF Submit, Resubmit, ResumeJob, Take
  <2>6. CASE \/ ResumeSource \/ SubmitOther \/ PutJob \/ PutSource \/ TakeCapture \/ PollEmpty
             \/ EndCapture \/ Begin \/ StartUnit \/ Yield \/ RunCanceled \/ RunStopped \/ Command \/ Judge
             \/ Finish \/ Shutdown
    BY <2>1, <2>6 DEF ResumeSource, SubmitOther, PutJob, PutSource, TakeCapture, PollEmpty, EndCapture, Begin, StartUnit,
         Yield, RunCanceled, RunStopped, Command, Judge, Finish, Shutdown
  <2> QED
    BY <2>1, <2>2, <2>3, <2>4, <2>5, <2>6 DEF Next, Requests, Call, Consume
<1>5. SubmitterKnown'
  <2>1. ASSUME UNCHANGED submitter PROVE SubmitterKnown'
    BY <1>1, <2>1 DEF JobsHaveRows, SubmitterKnown
  <2>2. ASSUME NEW e \in Jobs, (\E k \in Policies : Submit(e, k)) \/ Resubmit(e) \/ ResumeJob(e)
        PROVE  SubmitterKnown'
    <3>1. Exists(e)'
      BY <1>1, <2>2 DEF Submit, Resubmit, ResumeJob, Exists, Fresh, Typed, RowTyped
    <3>2. UNCHANGED submitter \/ submitter' = [has |-> "job", job |-> e]
      BY <2>2 DEF Submit, Resubmit, ResumeJob, Holds
    <3> QED
      BY <2>1, <3>1, <3>2 DEF SubmitterKnown
  <2>3. CASE ResumeSource \/ PutJob \/ PutSource \/ Restart
    BY <2>3 DEF ResumeSource, PutJob, PutSource, Restart, Holds, Nobody, SubmitterKnown
  <2>4. ASSUME NEW e \in Jobs, CancelRead(e) \/ Take(e) PROVE UNCHANGED submitter
    BY <2>4 DEF CancelRead, Take, locked
  <2>5. CASE \/ SubmitOther \/ CancelRequest \/ CancelMark \/ TakeCapture \/ PollEmpty
             \/ EndCapture \/ Begin \/ StartUnit \/ Yield \/ RunCanceled \/ RunStopped \/ Command \/ Judge
             \/ Finish \/ Shutdown
    BY <2>1, <2>5 DEF SubmitOther, CancelRequest, CancelMark, TakeCapture, PollEmpty, EndCapture,
         Begin, StartUnit, Yield, RunCanceled, RunStopped, Command, Judge, Finish, Shutdown, locked
  <2> QED
    BY <2>1, <2>2, <2>3, <2>4, <2>5 DEF Next, Requests, Call, Consume
<1> QED
  BY <1>2, <1>3, <1>4, <1>5 DEF JobsHaveRows, JobKnown, SubmitterKnown

-----------------------------------------------------------------------------
\* Every step keeps a job that waits in the queue, at work, or with the call that
\* is to put it into the queue or raised.
LEMMA LostStep ==
    ASSUME ExtractionJobsAssumption, Typed, JobsHaveRows, NoExtractionLost, Next
    PROVE  NoExtractionLost'
<1> DEFINE Lost(e) == /\ row[e].status = "QUEUED" /\ ~(extractions[e] > 0) /\ consumer.job # e
                      /\ submitter.job # e /\ e \notin stranded
<1>0. /\ row \in [Jobs -> Rows] /\ extractions \in [Jobs -> Nat] /\ NoExtraction \notin Jobs
      /\ serving => \A e \in Jobs : ~Lost(e)
  BY Constants DEF Typed, RowTyped, QueuesTyped, NoExtractionLost
<1>1. SUFFICES ASSUME serving' PROVE \A f \in Jobs : ~Lost(f)'
  BY DEF NoExtractionLost
<1>2. ASSUME serving, \A f \in Jobs : row'[f].status = "QUEUED" => row[f].status = "QUEUED",
             \A f \in Jobs : extractions[f] > 0 => extractions'[f] > 0,
             consumer'.job = consumer.job \/ ~(consumer.job \in Jobs)
                 \/ row'[consumer.job].status # "QUEUED",
             UNCHANGED <<submitter, stranded>>
      PROVE  \A f \in Jobs : ~Lost(f)'
  BY <1>0, <1>2
<1>3. ASSUME serving, NEW e \in Jobs, Enqueue(e),
             \A f \in Jobs \ {e} : row'[f].status = "QUEUED" => row[f].status = "QUEUED",
             consumer'.job \in {consumer.job, NoExtraction}, consumer'.job # consumer.job => consumer.job = e,
             UNCHANGED <<submitter, stranded>>
      PROVE  \A f \in Jobs : ~Lost(f)'
  BY <1>0, <1>3 DEF Enqueue
<1>22. ASSUME serving, NEW e \in Jobs, Holds("job", e), UNCHANGED <<extractions, consumer, stranded>>,
              \A f \in Jobs \ {e} : row'[f] = row[f]
       PROVE  \A f \in Jobs : ~Lost(f)'
  BY <1>0, <1>22 DEF Holds, Nobody
<1>4. ASSUME NEW e \in Jobs, NEW k \in Policies, Submit(e, k) PROVE \A f \in Jobs : ~Lost(f)'
  BY <1>0, <1>22, <1>4 DEF Submit, HistoryOfLock
<1>5. ASSUME NEW e \in Jobs, Resubmit(e) PROVE \A f \in Jobs : ~Lost(f)'
  BY <1>0, <1>22, <1>5 DEF Resubmit, HistoryOfLock
<1>6. ASSUME NEW e \in Jobs, ResumeJob(e) PROVE \A f \in Jobs : ~Lost(f)'
  <2>1. CASE row[e].status \in Terminal
    BY <1>0, <1>22, <1>6, <2>1 DEF ResumeJob, HistoryOfLock
  <2>2. CASE row[e].status \notin Terminal
    <3>1. /\ row' = [row EXCEPT ![e].cancel = FALSE] /\ serving
          /\ UNCHANGED <<extractions, consumer, submitter, stranded>>
      BY <1>6, <2>2 DEF ResumeJob, HistoryOfLock
    <3>2. row[e] \in Rows /\ row'[e] = [row[e] EXCEPT !.cancel = FALSE] /\ \A f \in Jobs \ {e} : row'[f] = row[f]
      BY <1>0, <3>1
    <3>3. row'[e].status = row[e].status
      BY <3>2 DEF Rows
    <3> QED
      BY <1>2, <3>1, <3>2, <3>3
  <2> QED
    BY <2>1, <2>2
<1>7. ASSUME NEW e \in Jobs, Take(e) PROVE \A f \in Jobs : ~Lost(f)'
  <2>1. /\ consumer.job = NoExtraction /\ serving /\ UNCHANGED <<submitter, stranded>>
        /\ \A f \in Jobs \ {e} : extractions'[f] = extractions[f] /\ row'[f] = row[f]
    BY <1>0, <1>1, <1>7 DEF Take, JobsHaveRows, Resting, locked
  <2>2. row'[e].status # "QUEUED" \/ consumer'.job = e
    BY <1>0, <1>7 DEF Take, NoWork, Terminal
  <2> QED
    BY <1>0, <2>1, <2>2
<1>8. CASE CancelRequest
  <2> DEFINE e == handler.job
  <2>1. e \in Jobs /\ serving /\ UNCHANGED <<extractions, consumer, submitter, stranded>>
    BY <1>1, <1>8 DEF CancelRequest, JobsHaveRows, locked
  <2>2. row' = [row EXCEPT ![e].cancel = @ \/ row[e].status \notin Terminal]
    BY <1>8 DEF CancelRequest
  <2>3. \A f \in Jobs : row'[f].status = row[f].status
    BY <1>0, <2>1, <2>2 DEF Rows
  <2> QED
    BY <1>2, <2>1, <2>3
<1>9. CASE CancelMark
  <2>1. handler.job \in Jobs /\ serving /\ UNCHANGED <<extractions, consumer, submitter, stranded>>
    BY <1>1, <1>9 DEF CancelMark, JobsHaveRows, locked
  <2>2. \A f \in Jobs : row'[f].status = "QUEUED" => row[f].status = "QUEUED"
    BY <1>0, <1>9, <2>1 DEF CancelMark
  <2> QED
    BY <1>2, <2>1, <2>2
<1>10. ASSUME NEW t \in Statuses \ {"none", "QUEUED"}, Write(t), consumer.pc \notin Resting, serving,
              UNCHANGED <<extractions, submitter, stranded>>, consumer' = NoWork
       PROVE  \A f \in Jobs : ~Lost(f)'
  <2>1. consumer.job \in Jobs
    BY <1>10 DEF JobsHaveRows
  <2>2. row'[consumer.job].status = t /\ \A f \in Jobs \ {consumer.job} : row'[f] = row[f]
    BY <1>10, <2>1, WriteRow DEF Typed
  <2>3. \A f \in Jobs : row'[f].status = "QUEUED" => row[f].status = "QUEUED"
    BY <1>10, <2>2
  <2> QED
    BY <1>2, <1>10, <2>2, <2>3
<1>11. CASE Begin
  <2>1. /\ consumer.pc \notin Resting /\ serving /\ consumer.job \in Jobs
        /\ UNCHANGED <<extractions, submitter, stranded>>
    BY <1>1, <1>11 DEF Begin, Resting, JobsHaveRows, locked
  <2>2. CASE source \in {"SUCCEEDED", "PARTIAL"}
    <3>1. row' = [row EXCEPT ![consumer.job].status = "ANALYZING"]
      BY <1>11, <2>2 DEF Begin
    <3>2. \A f \in Jobs : row'[f].status = "QUEUED" => row[f].status = "QUEUED"
      BY <1>0, <2>1, <3>1
    <3>3. consumer' = [consumer EXCEPT !.pc = "next"]
      BY <1>11, <2>2 DEF Begin, Goes
    <3>4. consumer'.job = consumer.job
      BY <3>3 DEF Typed, Consumers
    <3> QED
      BY <1>2, <2>1, <3>2, <3>4
  <2>3. CASE source \notin {"SUCCEEDED", "PARTIAL"}
    BY <1>11, <1>10, <2>1, <2>3 DEF Begin, Statuses, Terminal
  <2> QED
    BY <2>2, <2>3
<1>12. CASE Yield
  <2>1. consumer.pc \notin Resting /\ serving /\ UNCHANGED <<submitter, stranded>>
    BY <1>1, <1>12 DEF Yield, Resting, locked
  <2>2. consumer.job \in Jobs /\ Write("QUEUED") /\ Enqueue(consumer.job) /\ consumer' = NoWork
    BY <1>12, <2>1 DEF Yield, JobsHaveRows
  <2>3. \A f \in Jobs \ {consumer.job} : row'[f] = row[f]
    BY <2>2, WriteRow DEF Typed, Statuses
  <2> QED
    BY <1>3, <2>1, <2>2, <2>3 DEF NoWork
<1>13. CASE RunCanceled
  <2>1. consumer.pc \notin Resting
    BY <1>13 DEF RunCanceled, Resting
  <2> QED
    BY <1>1, <1>10, <1>13, <2>1 DEF RunCanceled, Statuses, Terminal, locked
<1>14. CASE RunStopped
  BY <1>1, <1>14 DEF RunStopped
<1>15. CASE Finish
  <2>1. consumer.pc \notin Resting
    BY <1>15 DEF Finish, Resting
  <2> QED
    BY <1>1, <1>10, <1>15, <2>1 DEF Finish, Statuses, Terminal, locked
<1>16. CASE Judge
  <2> DEFINE e == consumer.job
             u == consumer.cursor + 1
  <2>1. e \in Jobs
    BY <1>16 DEF Judge, JobsHaveRows, Resting
  <2>2. PICK f : /\ row' = [row EXCEPT ![e] = [@ EXCEPT !.cursor = u, !.failed = f]]
                 /\ consumer' = [consumer EXCEPT !.pc = "next", !.cursor = u, !.failed = f]
    BY <1>16 DEF Judge
  <2>3. \A g \in Jobs : row'[g].status = row[g].status
    BY <1>0, <2>1, <2>2 DEF Rows
  <2>4. consumer'.job = e /\ serving /\ UNCHANGED <<extractions, submitter, stranded>>
    BY <1>1, <1>16, <2>2 DEF Judge, Typed, Consumers, locked
  <2> QED
    BY <1>2, <2>3, <2>4
<1>17. CASE Restart
  <2>1. \A f \in Jobs : extractions'[f] = IF row'[f].status = "QUEUED" THEN 1 ELSE 0
    BY <1>17 DEF Restart
  <2> QED
    BY <2>1
<1>18. ASSUME serving, UNCHANGED <<row, extractions, submitter, stranded>>, consumer'.job = consumer.job \/ consumer.job \notin Jobs
       PROVE  \A f \in Jobs : ~Lost(f)'
  BY <1>2, <1>18
<1>19. CASE TakeCapture \/ PollEmpty \/ EndCapture \/ StartUnit \/ Command
  <2>1. consumer'.job = consumer.job \/ consumer.job \notin Jobs
    BY <1>0, <1>19 DEF TakeCapture, PollEmpty, EndCapture, StartUnit, Command, Goes, JobsHaveRows, Resting,
       Typed, Consumers
  <2> QED
    BY <1>1, <1>18, <1>19, <2>1 DEF TakeCapture, PollEmpty, EndCapture, StartUnit, Command, files, locked
<1>20. CASE (\E e \in Jobs : CancelRead(e)) \/ SubmitOther
  BY <1>1, <1>18, <1>20 DEF CancelRead, SubmitOther, locked
<1>23. CASE ResumeSource \/ PutSource
  <2>1. submitter.job = NoExtraction /\ UNCHANGED <<row, extractions, consumer, serving, stranded>>
    BY <1>23 DEF ResumeSource, PutSource, Holds, Nobody, JobsHaveRows, HistoryOfLock
  <2> QED
    BY <1>0, <1>1, <2>1
<1>24. CASE PutJob
  <2> DEFINE e == submitter.job
  <2>1. /\ e \in Jobs /\ UNCHANGED <<row, consumer, serving>>
        /\ \/ Enqueue(e) /\ stranded' = stranded \ {e}
           \/ UNCHANGED extractions /\ stranded' = stranded \cup {e}
    BY <1>24 DEF PutJob, JobsHaveRows
  <2> QED
    BY <1>0, <1>1, <2>1 DEF Enqueue
<1>21. CASE Shutdown
  BY <1>1, <1>21 DEF Shutdown
<1> QED
  BY <1>4, <1>5, <1>6, <1>7, <1>8, <1>9, <1>11, <1>12, <1>13, <1>14, <1>15, <1>16, <1>17, <1>19, <1>20, <1>21, <1>23, <1>24
     DEF Next, Requests, Call, Consume

\* Every step keeps the reason why a PCAP is gone.
LEMMA RetentionStep ==
    ASSUME ExtractionJobsAssumption, Typed, JobsHaveRows, RetentionHonoured, Next
    PROVE  RetentionHonoured'
<1>1. RowsGoOn /\ \A v \in Units : results[v] \subseteq results'[v]
  BY RowStep, FilesStep
<1>2. SUFFICES ASSUME NEW u \in captured' \ pcap'
               PROVE  \E e \in Jobs : row'[e].status # "none" /\ u > row'[e].keep /\ e \subseteq results'[u]
  BY DEF RetentionHonoured, Exists
<1>3. CASE u \in captured \ pcap
  <2>1. PICK e \in Jobs : Exists(e) /\ u > row[e].keep /\ e \subseteq results[u]
    BY <1>3 DEF RetentionHonoured
  <2>2. u \in Units
    BY <1>3 DEF Typed, FilesTyped
  <2> QED
    BY <1>1, <2>1, <2>2 DEF RowsGoOn
<1>4. CASE Command
  <2> DEFINE w == consumer.cursor + 1
             e == consumer.job
  <2>1. CASE u \in pcap \ pcap'
    <3>1. u = w /\ ~Retains(e, w) /\ e \subseteq results'[w] /\ e \in Jobs /\ Exists(e)
      BY <1>4, <2>1, CommandFiles
    <3>2. row[e].keep \in 0..Count /\ w \in Units /\ row'[e].keep = row[e].keep /\ row'[e].status # "none"
      BY <1>1, <1>4, <3>1, CommandFiles DEF RowsGoOn, Typed, RowTyped, Rows
    <3> QED
      BY <3>1, <3>2 DEF Retains, Units
  <2> QED
    BY <1>2, <1>3, <1>4, <2>1, CommandFiles
<1>5. CASE EndCapture
  BY <1>2, <1>3, <1>5 DEF EndCapture
<1>6. ASSUME UNCHANGED files PROVE u \in captured \ pcap
  BY <1>2, <1>6 DEF files
<1>7. ASSUME NEW e \in Jobs, \/ \E k \in Policies : Submit(e, k)
                             \/ Resubmit(e) \/ ResumeJob(e) \/ CancelRead(e) \/ Take(e)
      PROVE  UNCHANGED files
  BY <1>7 DEF Submit, Resubmit, ResumeJob, CancelRead, Take, files
<1>8. CASE \/ ResumeSource \/ SubmitOther \/ CancelRequest \/ CancelMark \/ TakeCapture \/ PollEmpty
           \/ Begin \/ StartUnit \/ Yield \/ RunCanceled \/ RunStopped \/ Judge \/ Finish
           \/ Shutdown \/ Restart \/ PutJob \/ PutSource
  BY <1>3, <1>6, <1>8 DEF ResumeSource, SubmitOther, PutJob, PutSource, CancelRequest, CancelMark, TakeCapture, PollEmpty,
       Begin, StartUnit, Yield, RunCanceled, RunStopped, Judge, Finish, Shutdown, Restart, files
<1> QED
  BY <1>3, <1>4, <1>5, <1>6, <1>7, <1>8 DEF Next, Requests, Call, Consume

-----------------------------------------------------------------------------
\* What a step does to the progress of a row: nothing, or it is forgotten, or it
\* is that of the consumer.
Same(e)   == /\ row'[e].cursor = row[e].cursor /\ row'[e].failed = row[e].failed
             /\ row'[e].status = "SUCCEEDED" => row[e].status = "SUCCEEDED"
Anew(e)   == row'[e].status # "SUCCEEDED" /\ row'[e].cursor = 0 /\ row'[e].failed = {}
Saved(e)  == /\ e = consumer.job /\ consumer.pc \notin Resting
             /\ row'[e].cursor = consumer.cursor /\ row'[e].failed = consumer.failed
             /\ row'[e].status = "SUCCEEDED" => Finish /\ consumer.cursor = Count /\ consumer.failed = {}
Judged(e) == Judge /\ e = consumer.job

\* Every step does one of these to every row.
LEMMA ProgressKinds ==
    ASSUME ExtractionJobsAssumption, Typed, JobsHaveRows, Next
    PROVE  \A e \in Jobs : Same(e) \/ Anew(e) \/ Saved(e) \/ Judged(e)
<1>0. row \in [Jobs -> Rows]
  BY DEF Typed, RowTyped
<1>1. ASSUME UNCHANGED row PROVE \A f \in Jobs : Same(f)
  BY <1>1 DEF Same
<1>2. ASSUME NEW e \in Jobs, NEW k \in 0..Count, row' = [row EXCEPT ![e] = Fresh(k)]
      PROVE  \A f \in Jobs : Same(f) \/ Anew(f)
  BY <1>0, <1>2, FreshRow DEF Same, Anew
<1>3. ASSUME NEW e \in Jobs, NEW b, row' = [row EXCEPT ![e].cancel = b] PROVE \A f \in Jobs : Same(f)
  BY <1>0, <1>3 DEF Same, Rows
<1>4. ASSUME NEW e \in Jobs, NEW t, t # "SUCCEEDED", row' = [row EXCEPT ![e].status = t]
      PROVE  \A f \in Jobs : Same(f)
  BY <1>0, <1>4 DEF Same, Rows
<1>5. ASSUME NEW t \in Statuses \ {"none"}, Write(t), consumer.pc \notin Resting,
             t = "SUCCEEDED" => Finish /\ consumer.cursor = Count /\ consumer.failed = {}
      PROVE  \A f \in Jobs : Same(f) \/ Saved(f)
  BY <1>5, WriteRow DEF Same, Saved, Typed, JobsHaveRows
<1>6. ASSUME NEW e \in Jobs, NEW k \in Policies, Submit(e, k) PROVE \A f \in Jobs : Same(f) \/ Anew(f)
  BY <1>2, <1>6, Constants DEF Submit
<1>7. ASSUME NEW e \in Jobs, Resubmit(e) \/ ResumeJob(e) PROVE \A f \in Jobs : Same(f) \/ Anew(f)
  <2>1. row[e].keep \in 0..Count
    BY <1>0 DEF Rows
  <2>2. row' = [row EXCEPT ![e] = Fresh(row[e].keep)] \/ row' = [row EXCEPT ![e].cancel = FALSE]
    BY <1>0, <1>7 DEF Resubmit, ResumeJob
  <2> QED
    BY <1>2, <1>3, <2>1, <2>2
<1>8. ASSUME NEW e \in Jobs, Take(e) PROVE \A f \in Jobs : Same(f)
  BY <1>1, <1>4, <1>8 DEF Take
<1>9. CASE CancelRequest
  <2>1. PICK b : row' = [row EXCEPT ![handler.job].cancel = b]
    <3>1. row' = [row EXCEPT ![handler.job].cancel =
                     row[handler.job].cancel \/ row[handler.job].status \notin Terminal]
      BY <1>0, <1>9 DEF CancelRequest, JobsHaveRows
    <3> QED
      BY <3>1
  <2>2. handler.job \in Jobs
    BY <1>9 DEF CancelRequest, JobsHaveRows
  <2> QED
    BY <1>3, <2>1, <2>2
<1>10. CASE CancelMark
  BY <1>4, <1>10 DEF CancelMark, JobsHaveRows
<1>11. CASE Begin
  <2>1. consumer.pc \notin Resting /\ consumer.job \in Jobs
    BY <1>11 DEF Begin, Resting, JobsHaveRows
  <2> QED
    BY <1>4, <1>5, <1>11, <2>1 DEF Begin, Statuses, Terminal
<1>12. CASE Yield \/ RunCanceled \/ RunStopped
  <2>1. consumer.pc \notin Resting
    BY <1>12 DEF Yield, RunCanceled, RunStopped, Resting
  <2> QED
    BY <1>5, <1>12, <2>1 DEF Yield, RunCanceled, RunStopped, Statuses, Terminal
<1>13. CASE Finish
  <2>1. consumer.pc \notin Resting /\ consumer.cursor >= Count
    BY <1>13 DEF Finish, Resting
  <2>2. consumer.cursor = Count
    BY <2>1, Constants DEF Typed, Consumers
  <2> QED
    BY <1>5, <1>13, <2>1, <2>2 DEF Finish, Statuses, Terminal
<1>14. CASE Judge
  <2>1. \A f \in Jobs \ {consumer.job} : row'[f] = row[f]
    BY <1>0, <1>14 DEF Judge
  <2> QED
    BY <1>14, <2>1 DEF Same, Judged
<1>15. CASE Restart
  <2>1. \A f \in Jobs : row'[f] = Recovered(row[f])
    BY <1>15 DEF Restart
  <2>2. \A f \in Jobs : Recovered(row[f]).cursor = row[f].cursor /\ Recovered(row[f]).failed = row[f].failed
                        /\ (Recovered(row[f]).status = "SUCCEEDED" => row[f].status = "SUCCEEDED")
    BY <1>0 DEF Recovered, Rows
  <2> QED
    BY <2>1, <2>2 DEF Same
<1>16. CASE \/ \E e \in Jobs : CancelRead(e)
            \/ ResumeSource \/ SubmitOther \/ TakeCapture \/ PollEmpty \/ EndCapture \/ StartUnit
            \/ Command \/ Shutdown \/ PutJob \/ PutSource
  BY <1>1, <1>16 DEF CancelRead, ResumeSource, SubmitOther, TakeCapture, PollEmpty, EndCapture,
                     StartUnit, Command, Shutdown, PutJob, PutSource
<1> QED
  BY <1>6, <1>7, <1>8, <1>9, <1>10, <1>11, <1>12, <1>13, <1>14, <1>15, <1>16
     DEF Next, Requests, Call, Consume

\* What Judge saves is true: the unit it passes has its results, or failed.
LEMMA JudgeIsTrue ==
    ASSUME ExtractionJobsAssumption, Typed, JobsHaveRows, ProgressIsTrue, Judge
    PROVE  /\ consumer.job \in Jobs /\ consumer'.job = consumer.job
           /\ row'[consumer.job].cursor = consumer'.cursor
           /\ row'[consumer.job].failed = consumer'.failed
           /\ row'[consumer.job].status # "SUCCEEDED"
           /\ Done(consumer.job, consumer'.cursor, consumer'.failed)
<1> DEFINE e == consumer.job
           u == consumer.cursor + 1
           valid == consumer.code /\ e \subseteq results[u] /\ (Retains(e, u) <=> u \in pcap)
           failed == IF valid THEN consumer.failed ELSE consumer.failed \cup {u}
<1>1. /\ e \in Jobs /\ row \in [Jobs -> Rows] /\ consumer \in Consumers /\ consumer.cursor \in 0..Count
      /\ Done(e, consumer.cursor, consumer.failed) /\ row[e].status # "SUCCEEDED"
  BY DEF Judge, Typed, RowTyped, JobsHaveRows, ProgressIsTrue, Resting, Consumers
<1>2. /\ consumer' = [consumer EXCEPT !.pc = "next", !.cursor = u, !.failed = failed]
      /\ row' = [row EXCEPT ![e] = [@ EXCEPT !.cursor = u, !.failed = failed]]
  BY DEF Judge
<1>3. (u \notin failed => e \subseteq results[u]) /\ consumer.failed \subseteq failed
  OBVIOUS
<1> HIDE DEF valid, failed
<1>4. consumer'.cursor = u /\ consumer'.failed = failed /\ consumer'.job = e
  BY <1>1, <1>2 DEF Consumers
<1>5. row'[e].cursor = u /\ row'[e].failed = failed /\ row'[e].status = row[e].status
  BY <1>1, <1>2 DEF Rows
<1>6. Done(e, u, failed)
  BY <1>1, <1>3, Constants DEF Done, Units
<1> QED
  BY <1>1, <1>4, <1>5, <1>6

\* What a step does to the progress of the consumer: it has no work, or goes on,
\* takes up a row that has not ended, or passes a unit.
GoesOn  == consumer.pc \notin Resting /\ consumer'.job = consumer.job
           /\ consumer'.cursor = consumer.cursor /\ consumer'.failed = consumer.failed /\ ~Finish
TakesUp == /\ consumer'.job \in Jobs /\ row[consumer'.job].status # "SUCCEEDED" /\ UNCHANGED row
           /\ consumer'.cursor = row[consumer'.job].cursor
           /\ consumer'.failed = row[consumer'.job].failed

\* Every step that leaves the consumer with work does one of these.
LEMMA ConsumerKinds ==
    ASSUME ExtractionJobsAssumption, Typed, JobsHaveRows, Next, consumer'.pc \notin Resting
    PROVE  GoesOn \/ TakesUp \/ Judge
<1>0. consumer \in Consumers
  BY DEF Typed
<1>1. consumer' # NoWork
  BY DEF NoWork, Resting
<1>f. ~Finish
  BY <1>1 DEF Finish
<1>2. ASSUME UNCHANGED consumer PROVE GoesOn
  BY <1>2, <1>f DEF GoesOn
<1>3. ASSUME NEW e \in Jobs, Take(e) PROVE TakesUp
  BY <1>1, <1>3 DEF Take, NoWork, TakesUp, Terminal
<1>4. CASE StartUnit \/ Command \/ Begin
  <2>1. consumer.pc \notin Resting
    BY <1>4 DEF StartUnit, Command, Begin, Resting
  <2>2. consumer'.job = consumer.job /\ consumer'.cursor = consumer.cursor /\ consumer'.failed = consumer.failed
    BY <1>0, <1>1, <1>4 DEF StartUnit, Command, Begin, Goes, Consumers
  <2> QED
    BY <1>f, <2>1, <2>2 DEF GoesOn
<1>5. CASE TakeCapture \/ PollEmpty
  <2>1. consumer' = consumer \/ consumer'.pc \in Resting
    BY <1>0, <1>5 DEF TakeCapture, PollEmpty, Goes, Consumers, Resting
  <2> QED
    BY <1>2, <2>1
<1>6. CASE EndCapture \/ Yield \/ RunCanceled \/ RunStopped \/ Finish \/ Restart
  BY <1>1, <1>6 DEF EndCapture, Yield, RunCanceled, RunStopped, Finish, Restart
<1>7. ASSUME NEW e \in Jobs, \/ \E k \in Policies : Submit(e, k)
                             \/ Resubmit(e) \/ ResumeJob(e) \/ CancelRead(e)
      PROVE  GoesOn
  BY <1>2, <1>7 DEF Submit, Resubmit, ResumeJob, CancelRead
<1>8. CASE ResumeSource \/ SubmitOther \/ CancelRequest \/ CancelMark \/ PutJob \/ PutSource \/ Shutdown
  BY <1>2, <1>8 DEF ResumeSource, SubmitOther, CancelRequest, CancelMark, PutJob, PutSource, Shutdown
<1> QED
  BY <1>3, <1>4, <1>5, <1>6, <1>7, <1>8 DEF Next, Requests, Call, Consume

\* Every step keeps the progress true.
LEMMA ProgressStep ==
    ASSUME ExtractionJobsAssumption, Typed, JobsHaveRows, ProgressIsTrue, Next
    PROVE  ProgressIsTrue'
<1>1. \A e \in Jobs : Same(e) \/ Anew(e) \/ Saved(e) \/ Judged(e)
  BY ProgressKinds
<1>2. \A v \in Units : results[v] \subseteq results'[v]
  BY FilesStep
<1>3. ASSUME NEW e, NEW c, NEW f, Done(e, c, f)
      PROVE  \A u \in Units : u <= c /\ u \notin f => e \subseteq results'[u]
  BY <1>2, <1>3 DEF Done
<1>4. ASSUME NEW e \in Jobs
      PROVE  /\ \A u \in Units : u <= row'[e].cursor /\ u \notin row'[e].failed => e \subseteq results'[u]
             /\ row'[e].status = "SUCCEEDED" => row'[e].cursor = Count /\ row'[e].failed = {}
  <2>1. CASE Same(e)
    BY <1>3, <2>1 DEF Same, ProgressIsTrue
  <2>2. CASE Anew(e)
    BY <2>2, Constants DEF Anew, Units
  <2>3. CASE Saved(e)
    BY <1>3, <2>3 DEF Saved, ProgressIsTrue
  <2>4. CASE Judged(e)
    BY <1>3, <2>4, JudgeIsTrue DEF Judged
  <2> QED
    BY <1>1, <2>1, <2>2, <2>3, <2>4
<1>5. ASSUME consumer'.pc \notin Resting
      PROVE  /\ \A u \in Units : u <= consumer'.cursor /\ u \notin consumer'.failed
                                  => consumer'.job \subseteq results'[u]
             /\ row'[consumer'.job].status # "SUCCEEDED"
  <2>1. CASE GoesOn
    <3>1. consumer.job \in Jobs /\ row[consumer.job].status # "SUCCEEDED"
          /\ Done(consumer.job, consumer.cursor, consumer.failed)
      BY <2>1 DEF GoesOn, JobsHaveRows, ProgressIsTrue
    <3>2. row'[consumer.job].status # "SUCCEEDED"
      BY <1>1, <2>1, <3>1, JudgeIsTrue DEF GoesOn, Same, Anew, Saved, Judged
    <3> QED
      BY <1>3, <2>1, <3>1, <3>2 DEF GoesOn
  <2>2. CASE TakesUp
    BY <1>3, <2>2 DEF TakesUp, ProgressIsTrue
  <2>3. CASE Judge
    BY <1>3, <2>3, JudgeIsTrue
  <2> QED
    BY <1>5, <2>1, <2>2, <2>3, ConsumerKinds
<1> QED
  BY <1>4, <1>5 DEF ProgressIsTrue, Done
-----------------------------------------------------------------------------
\* Every step keeps a resumed source in the queue of captures, or on its way.
LEMMA SourceStep ==
    ASSUME ExtractionJobsAssumption, Typed, JobsHaveRows, SourceWaits, Next
    PROVE  SourceWaits'
<1> DEFINE Here == \E i \in DOMAIN captures : captures[i] = Source
           Way == submitter.has = "source" \/ astray
<1>0. /\ captures \in Seq({Source, Other}) /\ consumer \in Consumers
      /\ Source # Other
  BY DEF Typed, QueuesTyped, Source, Other
<1>1. ASSUME UNCHANGED <<source, captures>>, Way => Way', consumer'.pc \in Working => consumer.pc \in Working \/ Begin,
             consumer'.pc = "capture" <=> consumer.pc = "capture",
             Begin /\ consumer'.pc \in Working => source \in {"SUCCEEDED", "PARTIAL"}
      PROVE  SourceWaits'
  BY <1>1 DEF SourceWaits
<1>2. ASSUME consumer' = NoWork, UNCHANGED <<source, captures, locked>>, consumer.pc # "capture" PROVE SourceWaits'
  BY <1>2 DEF SourceWaits, NoWork, Working, locked
<1>3. ASSUME NEW t \in {Source, Other}, captures' = Append(captures, t), UNCHANGED <<source, consumer>>,
             t = Source \/ UNCHANGED locked
      PROVE  SourceWaits'
  <2>1. Here \/ t = Source => Here'
    <3>1. Len(captures') = Len(captures) + 1 /\ captures'[Len(captures) + 1] = t
          /\ \A i \in 1 .. Len(captures) : captures'[i] = captures[i]
      BY <1>0, <1>3
    <3>2. DOMAIN captures' = 1 .. Len(captures) + 1 /\ DOMAIN captures = 1 .. Len(captures) /\ Len(captures) \in Nat
      BY <1>0, <1>3
    <3> QED
      BY <3>1, <3>2
  <2>2. source' = "QUEUED" => Here' \/ Way'
    BY <1>3, <2>1 DEF SourceWaits, locked
  <2> QED
    BY <1>3, <2>2 DEF SourceWaits, Terminal
<1>4. CASE PutSource \/ SubmitOther
  <2>1. CASE SubmitOther \/ captures' = Append(captures, Source)
    BY <1>3, <1>4, <2>1 DEF PutSource, SubmitOther
  <2>2. CASE PutSource /\ astray'
    BY <2>2 DEF PutSource, SourceWaits
  <2> QED
    BY <1>4, <2>1, <2>2 DEF PutSource
<1>14. CASE ResumeSource
  BY <1>14 DEF ResumeSource, Holds, SourceWaits, Terminal
<1>15. CASE PutJob
  <2>1. UNCHANGED <<source, captures, consumer, astray>> /\ submitter.has # "source"
    BY <1>15 DEF PutJob
  <2> QED
    BY <2>1 DEF SourceWaits
<1>5. CASE TakeCapture
  <2>1. captures # <<>> /\ captures' = Tail(captures) /\ consumer.pc = "poll"
    BY <1>5 DEF TakeCapture
  <2>2. CASE Head(captures) = Source
    BY <1>0, <1>5, <2>2 DEF TakeCapture, Goes, SourceWaits, Consumers, Working, locked
  <2>3. CASE Head(captures) # Source
    <3>1. Here => Here'
      <4>1. /\ Len(captures') = Len(captures) - 1 /\ captures[1] # Source
            /\ \A i \in 1 .. Len(captures) - 1 : captures'[i] = captures[i + 1]
            /\ DOMAIN captures' = 1 .. Len(captures) - 1 /\ DOMAIN captures = 1 .. Len(captures)
            /\ Len(captures) \in Nat
        BY <1>0, <2>1, <2>3
      <4>2. \A i \in 2 .. Len(captures) : i - 1 \in DOMAIN captures' /\ captures'[i - 1] = captures[i]
        BY <4>1
      <4>3. ASSUME NEW i \in DOMAIN captures, captures[i] = Source PROVE i - 1 \in DOMAIN captures' /\ captures'[i - 1] = Source
        BY <4>1, <4>2, <4>3
      <4> QED
        BY <4>3
    <3>2. UNCHANGED <<source, consumer, submitter, astray>>
      BY <1>5, <2>3 DEF TakeCapture, locked
    <3> QED
      BY <3>1, <3>2 DEF SourceWaits
  <2> QED
    BY <2>2, <2>3
<1>6. CASE EndCapture
  BY <1>6 DEF EndCapture, SourceWaits, NoWork, Working, Terminal, locked
<1>7. CASE Begin
  BY <1>0, <1>1, <1>2, <1>7 DEF Begin, Goes, Consumers, Working, locked
<1>8. CASE Restart
  <2>1. consumer' = NoWork /\ source' = (IF source \in Terminal THEN source ELSE "QUEUED")
        /\ captures' = (IF source \in Terminal THEN <<>> ELSE <<Source>>) \o Others
    BY <1>8 DEF Restart
  <2>2. source' = "QUEUED" => Here'
    <3>1. SUFFICES ASSUME source \notin Terminal PROVE Here'
      BY <2>1 DEF Terminal
    <3>2. captures' = <<Source>> \o Others /\ Others \in Seq({Source, Other})
      BY <1>0, <2>1, <3>1, OthersTyped
    <3>3. 1 \in DOMAIN captures' /\ captures'[1] = Source
      BY <3>2
    <3> QED
      BY <3>3
  <2> QED
    BY <2>1, <2>2 DEF SourceWaits, NoWork, Working, Terminal
<1>9. CASE Yield \/ RunCanceled \/ RunStopped \/ Finish
  BY <1>2, <1>9 DEF Yield, RunCanceled, RunStopped, Finish
<1>10. CASE PollEmpty \/ StartUnit \/ Command \/ Judge
  BY <1>0, <1>1, <1>10 DEF PollEmpty, StartUnit, Command, Judge, Begin, Goes, Consumers, Working, locked
<1>11. ASSUME NEW e \in Jobs, Take(e) PROVE SourceWaits'
  BY <1>0, <1>1, <1>2, <1>11 DEF Take, NoWork, Working, Begin, locked
<1>12. ASSUME NEW e \in Jobs, \/ \E k \in Policies : Submit(e, k)
                              \/ Resubmit(e) \/ ResumeJob(e) \/ CancelRead(e)
       PROVE  SourceWaits'
  BY <1>12 DEF Submit, Resubmit, ResumeJob, CancelRead, Holds, Nobody, HistoryOfLock, locked, SourceWaits
<1>13. CASE CancelRequest \/ CancelMark \/ Shutdown
  BY <1>13 DEF CancelRequest, CancelMark, Shutdown, SourceWaits, locked
<1> QED
  BY <1>4, <1>5, <1>6, <1>7, <1>8, <1>9, <1>10, <1>11, <1>12, <1>13, <1>14, <1>15
     DEF Next, Requests, Call, Consume

-----------------------------------------------------------------------------
\* Initially the invariant holds.
LEMMA InvInit == ASSUME ExtractionJobsAssumption PROVE Init => IInv
<1> SUFFICES ASSUME Init PROVE IInv
  OBVIOUS
<1>1. Typed
  <2>1. RowTyped
    <3>1. Fresh(0) \in Rows
      BY Constants, FreshRow
    <3>2. NoRow \in Rows
      BY <3>1 DEF NoRow, Rows, Statuses
    <3> QED
      BY <3>2 DEF Init, RowTyped
  <2>2. consumer \in Consumers
    BY Constants DEF Init, NoWork, Consumers, Resting
  <2>3. QueuesTyped /\ FilesTyped
    BY DEF Init, QueuesTyped, FilesTyped
  <2> QED
    BY <2>1, <2>2, <2>3 DEF Typed
<1>2. \A e \in Jobs : row[e].status = "none" /\ row[e].cursor = 0 /\ row[e].failed = {}
  BY DEF Init, NoRow, Fresh
<1>3. JobsHaveRows
  BY DEF Init, NoWork, NoCall, Nobody, JobsHaveRows, Resting
<1>4. ProgressIsTrue
  BY <1>2, Constants DEF Init, NoWork, ProgressIsTrue, Done, Units, Resting
<1>5. SourceWaits
  BY DEF Init, NoWork, SourceWaits, Working, Terminal
<1>6. NoExtractionLost /\ RetentionHonoured
  BY <1>2 DEF Init, NoExtractionLost, RetentionHonoured
<1> QED
  BY <1>1, <1>3, <1>4, <1>5, <1>6 DEF IInv

\* Every step keeps the invariant.
LEMMA InvNext == ASSUME ExtractionJobsAssumption PROVE IInv /\ [Next]_vars => IInv'
<1>1. ASSUME IInv, Next PROVE IInv'
  BY <1>1, TypedStep, RowsStep, ProgressStep, SourceStep, LostStep, RetentionStep DEF IInv
<1>2. ASSUME IInv, UNCHANGED vars PROVE IInv'
  BY <1>2 DEF IInv, vars, files, locked, Typed, RowTyped, QueuesTyped, FilesTyped, JobsHaveRows, Exists,
     ProgressIsTrue, Done, SourceWaits, NoExtractionLost, RetentionHonoured
<1> QED
  BY <1>1, <1>2

\* A unit is only started by StartUnit, when no capture waits.
LEMMA UnitStep ==
    ASSUME ExtractionJobsAssumption, IInv, Next, consumer.pc = "next", consumer'.pc = "unit"
    PROVE  \/ source \in {"SUCCEEDED", "PARTIAL"}
           \/ source = "QUEUED" /\ (submitter.has = "source" \/ astray)
<1>0. consumer \in Consumers /\ SourceWaits
  BY DEF IInv, Typed
<1>1. consumer' # consumer /\ consumer' # NoWork
  BY DEF NoWork
<1>2. CASE StartUnit
  <2>1. captures = <<>>
    BY <1>2 DEF StartUnit
  <2>2. source = "QUEUED" => submitter.has = "source" \/ astray
    BY <1>0, <2>1 DEF SourceWaits
  <2> QED
    BY <1>0, <2>2 DEF SourceWaits, Working
<1>3. CASE Begin \/ Judge \/ Command \/ TakeCapture \/ PollEmpty \/ EndCapture
  BY <1>0, <1>3 DEF Begin, Judge, Command, TakeCapture, PollEmpty, EndCapture
<1>4. CASE Yield \/ RunCanceled \/ RunStopped \/ Finish \/ Restart
  BY <1>1, <1>4 DEF Yield, RunCanceled, RunStopped, Finish, Restart
<1>5. ASSUME NEW e \in Jobs, \/ \E k \in Policies : Submit(e, k)
                             \/ Resubmit(e) \/ ResumeJob(e) \/ CancelRead(e) \/ Take(e)
      PROVE  FALSE
  BY <1>1, <1>5 DEF Submit, Resubmit, ResumeJob, CancelRead, Take
<1>6. CASE ResumeSource \/ SubmitOther \/ CancelRequest \/ CancelMark \/ PutJob \/ PutSource \/ Shutdown
  BY <1>1, <1>6 DEF ResumeSource, SubmitOther, CancelRequest, CancelMark, PutJob, PutSource, Shutdown
<1> QED
  BY <1>2, <1>3, <1>4, <1>5, <1>6 DEF Next, Requests, Call, Consume

\* The inductive invariant: what the rows and the consumer say of their progress
\* is true of the results, what is queued, canceled, worked on or about to be queued
\* has a row, and a source that was resumed waits in the queue of captures unless
\* its call has not come that far.
THEOREM InvariantHolds == ASSUME ExtractionJobsAssumption PROVE Spec => []IInv
BY InvInit, InvNext, PTL DEF Spec

\* No job that waits is forgotten by a Worker that serves, whatever submits,
\* cancels, resumes, captures that go first, stops and crashes do to it, unless the
\* call that queued it raised between its row and the queue
\* (extraction_jobs.py:88-90 and _worker_loop of task_runner.py).
THEOREM ExtractionsKept == ASSUME ExtractionJobsAssumption PROVE Spec => []NoExtractionLost
<1>1. IInv => NoExtractionLost
  BY DEF IInv
<1> QED
  BY <1>1, InvariantHolds, PTL

\* A job that says it succeeded has the results of every unit of its source
\* (run of extraction_jobs.py).
THEOREM SuccessesAreComplete == ASSUME ExtractionJobsAssumption PROVE Spec => []SuccessIsComplete
<1>1. IInv => SuccessIsComplete
  BY Constants DEF IInv, ProgressIsTrue, Done, SuccessIsComplete, Units
<1> QED
  BY <1>1, InvariantHolds, PTL

\* A PCAP only goes when a job that was not to retain it has its results.
THEOREM RetentionsAreHonoured == ASSUME ExtractionJobsAssumption PROVE Spec => []RetentionHonoured
<1>1. IInv => RetentionHonoured
  BY DEF IInv
<1> QED
  BY <1>1, InvariantHolds, PTL

\* The types that no other step needs.
Handlers == [pc : {"idle", "request", "mark"}, job : Jobs \cup {NoExtraction}, seen : Statuses]
Submitters == [has : {"nothing", "job", "source"}, job : Jobs \cup {NoExtraction}]
RestTyped == /\ created \in Seq(Jobs) /\ handler \in Handlers /\ serving \in BOOLEAN /\ pcap \subseteq captured
             /\ submitter \in Submitters /\ stranded \subseteq Jobs /\ astray \in BOOLEAN

\* The invariant and these types are the whole type invariant.
LEMMA TypesAreTypeOK == ASSUME IInv, RestTyped PROVE TypeOK
<1>1. source \in Terminal \cup {"QUEUED", "CAPTURING"}
  BY DEF IInv, SourceWaits
<1>2. row \in [Jobs -> Rows] /\ consumer \in Consumers /\ QueuesTyped /\ FilesTyped
  BY DEF IInv, Typed, RowTyped
<1>3. Resting \cup Working \cup {"begin"} = {"poll", "capture", "take", "begin", "next", "unit", "judge"}
  BY DEF Resting, Working
<1> QED
  BY <1>1, <1>2, <1>3
     DEF RestTyped, TypeOK, Rows, Statuses, Consumers, Handlers, Submitters, QueuesTyped, FilesTyped

\* Initially they hold.
LEMMA RestInit == Init => RestTyped
<1> SUFFICES ASSUME Init PROVE RestTyped
  OBVIOUS
<1>1. <<>> \in Seq(Jobs)
  OBVIOUS
<1> QED
  BY <1>1 DEF Init, RestTyped, Handlers, Statuses, NoCall, Submitters, Nobody

\* Every step keeps them.
LEMMA RestStep ==
    ASSUME ExtractionJobsAssumption, IInv, RestTyped, [Next]_vars
    PROVE  RestTyped'
<1> DEFINE others == <<created, handler, serving, captured, pcap, submitter, stranded, astray>>
<1> USE DEF RestTyped
<1>0. ASSUME UNCHANGED others PROVE RestTyped'
  BY <1>0
<1>1. ASSUME NEW e \in Jobs, NEW k \in Policies, Submit(e, k) PROVE RestTyped'
  BY <1>1 DEF Submit, files, Holds, Submitters, HistoryOfLock
<1>2. ASSUME NEW e \in Jobs, CancelRead(e) PROVE RestTyped'
  <2>1. row[e].status \in Statuses
    BY DEF IInv, Typed, RowTyped, Rows
  <2>2. handler' \in Handlers
    BY <1>2, <2>1 DEF CancelRead, Handlers
  <2> QED
    BY <1>2, <2>2 DEF CancelRead, files, locked
<1>3. CASE CancelRequest \/ CancelMark
  <2>1. NoCall \in Handlers /\ [handler EXCEPT !.pc = "mark"] \in Handlers
    BY DEF NoCall, Handlers, Statuses
  <2>2. handler' \in Handlers
    BY <1>3, <2>1 DEF CancelRequest, CancelMark
  <2> QED
    BY <1>3, <2>2 DEF CancelRequest, CancelMark, files, locked
<1>4. CASE EndCapture
  BY <1>4 DEF EndCapture, IInv, Typed, FilesTyped, locked
<1>5. CASE Command
  <2>1. pcap' \subseteq pcap /\ captured' = captured
    BY <1>5, CommandFiles DEF IInv
  <2> QED
    BY <1>5, <2>1 DEF Command, locked
<1>6. CASE Shutdown
  BY <1>6 DEF Shutdown, files, locked
<1>7. CASE Restart
  <2>1. NoCall \in Handlers
    BY DEF NoCall, Handlers, Statuses
  <2> QED
    BY <1>7, <2>1 DEF Restart, files, Nobody, Submitters
<1>8. ASSUME NEW e \in Jobs, Take(e) PROVE RestTyped'
  BY <1>8, <1>0 DEF Take, files, locked
<1>11. ASSUME NEW e \in Jobs, Resubmit(e) \/ ResumeJob(e) PROVE RestTyped'
  BY <1>11 DEF Resubmit, ResumeJob, files, Holds, Submitters, HistoryOfLock
<1>12. CASE ResumeSource
  BY <1>12 DEF ResumeSource, files, Holds, Submitters, HistoryOfLock
<1>13. CASE PutJob
  <2>1. submitter.job \in Jobs /\ submitter' = Nobody
    BY <1>13 DEF PutJob, IInv, JobsHaveRows
  <2>2. stranded' \subseteq Jobs
    BY <1>13, <2>1 DEF PutJob
  <2> QED
    BY <1>13, <2>1, <2>2 DEF PutJob, files, Nobody, Submitters
<1>14. CASE PutSource
  BY <1>14 DEF PutSource, files, Nobody, Submitters
<1>9. CASE \/ SubmitOther \/ TakeCapture \/ PollEmpty \/ Begin \/ StartUnit \/ Yield
           \/ RunCanceled \/ RunStopped \/ Judge \/ Finish
  BY <1>9, <1>0 DEF SubmitOther, TakeCapture, PollEmpty, Begin, StartUnit, Yield,
       RunCanceled, RunStopped, Judge, Finish, files, locked
<1>10. CASE UNCHANGED vars
  BY <1>10, <1>0 DEF vars, files, locked
<1> QED
  BY <1>1, <1>2, <1>3, <1>4, <1>5, <1>6, <1>7, <1>8, <1>9, <1>10, <1>11, <1>12, <1>13, <1>14
     DEF Next, Requests, Call, Consume

\* What the rows say of the files is true, over all the times a job gave way,
\* stopped, crashed, was canceled and taken up again: every variable has its
\* type, a success has every unit, and a PCAP only went with its results.
THEOREM RowsTell == ASSUME ExtractionJobsAssumption PROVE Spec => []RowsTellTheFiles
<1>1. IInv /\ RestTyped => TypeOK
  BY TypesAreTypeOK
<1>2. Init => RestTyped
  BY RestInit
<1>3. IInv /\ RestTyped /\ [Next]_vars => RestTyped'
  BY RestStep
<1> QED
  BY <1>1, <1>2, <1>3, InvariantHolds, SuccessesAreComplete, RetentionsAreHonoured, PTL
     DEF Spec, RowsTellTheFiles

\* No unit is started while its source waits in the queue, is captured or has
\* nothing to read; only a resume between its row and its queue is not seen.
THEOREM UnitsRest == ASSUME ExtractionJobsAssumption PROVE Spec => UnitsStartAtRest
<1>1. IInv /\ [Next]_vars =>
          [consumer.pc = "next" /\ consumer'.pc = "unit" =>
              \/ source \in {"SUCCEEDED", "PARTIAL"}
              \/ source = "QUEUED" /\ (submitter.has = "source" \/ astray)]_vars
  BY UnitStep
<1> QED
  BY <1>1, InvariantHolds, PTL DEF Spec, UnitsStartAtRest

-----------------------------------------------------------------------------
(* JobContract.  The lists are brought into normal form on both sides, so the  *)
(* argument is that a normal form is a fixed point of bringing it into one.    *)

\* The elements of a list, and that it repeats none.
Elements(s) == {s[i] : i \in DOMAIN s}
NoRepeats(s) == \A i, j \in DOMAIN s : s[i] = s[j] => i = j

\* The positions of a set are numbered without gaps: Rank is a bijection onto
\* 1 .. Cardinality(I), because it is injective and both sets have one size.
LEMMA Ranks ==
    ASSUME NEW n \in Nat, NEW I \in SUBSET (1 .. n)
    PROVE  /\ Cardinality(I) \in Nat
           /\ \A i \in I : Rank(I, i) \in 1 .. Cardinality(I)
           /\ \A i, h \in I : Rank(I, i) = Rank(I, h) => i = h
           /\ \A k \in 1 .. Cardinality(I) : \E i \in I : Rank(I, i) = k
<1> DEFINE N == 1 .. Cardinality(I)
           rank == [i \in I |-> Rank(I, i)]
<1>1. IsFiniteSet(1 .. n)
  BY FS_Interval
<1>2. IsFiniteSet(I) /\ Cardinality(I) \in Nat
  BY <1>1, FS_Subset, FS_CardinalityType
<1>3. ASSUME NEW i \in I
      PROVE  /\ Rank(I, i) \in N
             /\ IsFiniteSet({j \in I : j <= i})
  <2> DEFINE L == {j \in I : j <= i}
  <2>1. L \in SUBSET I /\ i \in L
    BY DEF L
  <2>2. IsFiniteSet(L) /\ Cardinality(L) <= Cardinality(I)
    BY <1>2, <2>1, FS_Subset
  <2>3. Cardinality(L) \in Nat /\ Cardinality(L) # 0
    BY <2>1, <2>2, FS_CardinalityType, FS_EmptySet
  <2> QED
    BY <1>2, <2>2, <2>3 DEF Rank
<1>4. ASSUME NEW i \in I, NEW h \in I, i < h PROVE Rank(I, i) < Rank(I, h)
  <2> DEFINE L == {j \in I : j <= i}
             H == {j \in I : j <= h}
  <2>1. L \in SUBSET H /\ h \in H /\ h \notin L
    <3>1. \A j \in I : j \in Nat
      OBVIOUS
    <3>2. \A j \in I : j <= i => j <= h
      BY <1>4, <3>1
    <3>3. h <= h /\ ~(h <= i)
      BY <1>4, <3>1
    <3> QED
      BY <3>2, <3>3
  <2>2. Cardinality(L) <= Cardinality(H) /\ Cardinality(L) # Cardinality(H)
    <3>1. IsFiniteSet(H)
      BY <1>3
    <3> HIDE DEF L, H
    <3> QED
      BY <2>1, <3>1, FS_Subset
  <2>3. Cardinality(L) \in Nat /\ Cardinality(H) \in Nat
    BY <1>3 DEF Rank
  <2> QED
    BY <2>2, <2>3 DEF Rank
<1>5. \A i, h \in I : Rank(I, i) = Rank(I, h) => i = h
  <2> SUFFICES ASSUME NEW i \in I, NEW h \in I, Rank(I, i) = Rank(I, h) PROVE i = h
    OBVIOUS
  <2>1. Rank(I, i) \in N /\ Rank(I, h) \in N
    BY <1>3
  <2>2. Rank(I, i) \in Nat /\ Rank(I, h) \in Nat
    BY <1>2, <2>1
  <2>3. ~(i < h) /\ ~(h < i)
    BY <1>4, <2>2
  <2> QED
    BY <2>3
<1>6. rank \in Injection(I, N)
  <2>1. rank \in [I -> N]
    BY <1>3
  <2>2. \A i, h \in I : rank[i] = rank[h] => i = h
    BY <1>5
  <2> QED
    BY <2>1, <2>2 DEF Injection, IsInjective
<1>7. IsFiniteSet(N) /\ Cardinality(N) = Cardinality(I)
  BY <1>2, FS_Interval
<1>8. rank \in Surjection(I, N)
  BY <1>6, <1>7, FS_Injection
<1>9. \A k \in N : \E i \in I : Rank(I, i) = k
  BY <1>8 DEF Surjection
<1> QED
  BY <1>2, <1>3, <1>5, <1>9

\* What At picks out of a sequence.
LEMMA AtFacts ==
    ASSUME NEW T, NEW s \in Seq(T), NEW I \in SUBSET DOMAIN s
    PROVE  /\ At(s, I) \in Seq(T) /\ DOMAIN At(s, I) = 1 .. Cardinality(I)
           /\ \A k \in DOMAIN At(s, I) : \E i \in I : Rank(I, i) = k /\ At(s, I)[k] = s[i]
           /\ \A i \in I : Rank(I, i) \in DOMAIN At(s, I) /\ At(s, I)[Rank(I, i)] = s[i]
<1>1. Len(s) \in Nat /\ DOMAIN s = 1 .. Len(s) /\ I \in SUBSET (1 .. Len(s))
  OBVIOUS
<1>2. /\ Cardinality(I) \in Nat
      /\ \A i \in I : Rank(I, i) \in 1 .. Cardinality(I)
      /\ \A i, h \in I : Rank(I, i) = Rank(I, h) => i = h
      /\ \A k \in 1 .. Cardinality(I) : \E i \in I : Rank(I, i) = k
  BY <1>1, Ranks
<1>3. ASSUME NEW k \in 1 .. Cardinality(I)
      PROVE  \E i \in I : Rank(I, i) = k /\ At(s, I)[k] = s[i]
  <2> DEFINE c == CHOOSE i \in I : Rank(I, i) = k
  <2>1. c \in I /\ Rank(I, c) = k
    BY <1>2
  <2>2. At(s, I)[k] = s[c]
    BY DEF At
  <2> QED
    BY <2>1, <2>2
<1>4. DOMAIN At(s, I) = 1 .. Cardinality(I)
  BY DEF At
<1>5. ASSUME NEW i \in I PROVE At(s, I)[Rank(I, i)] = s[i]
  <2>1. PICK h \in I : Rank(I, h) = Rank(I, i) /\ At(s, I)[Rank(I, i)] = s[h]
    BY <1>2, <1>3
  <2>2. h = i
    BY <1>2, <2>1
  <2> QED
    BY <2>1, <2>2
<1>6. \A i \in DOMAIN s : s[i] \in T
  OBVIOUS
<1>7. At(s, I) \in [1 .. Cardinality(I) -> T]
  <2>1. \A k \in 1 .. Cardinality(I) : At(s, I)[k] \in T
    BY <1>3, <1>6
  <2>2. At(s, I) = [k \in 1 .. Cardinality(I) |-> At(s, I)[k]]
    BY DEF At
  <2> QED
    BY <2>1, <2>2
<1>8. At(s, I) \in Seq(T)
  BY <1>2, <1>7
<1> QED
  BY <1>2, <1>3, <1>4, <1>5, <1>8

\* All positions make the sequence itself.
LEMMA AtAll ==
    ASSUME NEW T, NEW s \in Seq(T)
    PROVE  At(s, DOMAIN s) = s
<1>1. Len(s) \in Nat /\ DOMAIN s = 1 .. Len(s) /\ DOMAIN s \in SUBSET (1 .. Len(s))
  OBVIOUS
<1>2. ASSUME NEW i \in 1 .. Len(s) PROVE Rank(DOMAIN s, i) = i
  <2>1. {j \in DOMAIN s : j <= i} = 1 .. i
    BY <1>1
  <2>2. Cardinality(1 .. i) = i
    BY <1>1, FS_Interval
  <2> QED
    BY <2>1, <2>2 DEF Rank
<1>3. Cardinality(DOMAIN s) = Len(s)
  BY <1>1, FS_Interval
<1>4. /\ At(s, DOMAIN s) \in Seq(T) /\ DOMAIN At(s, DOMAIN s) = 1 .. Len(s)
      /\ \A i \in DOMAIN s : At(s, DOMAIN s)[Rank(DOMAIN s, i)] = s[i]
  BY <1>3, AtFacts
<1>5. \A i \in 1 .. Len(s) : At(s, DOMAIN s)[i] = s[i]
  BY <1>1, <1>2, <1>4
<1> QED
  BY <1>1, <1>4, <1>5

\* Dedupe keeps the elements and leaves none twice.
LEMMA DedupeFacts ==
    ASSUME NEW T, NEW s \in Seq(T)
    PROVE  /\ Dedupe(s) \in Seq(T) /\ NoRepeats(Dedupe(s))
           /\ Elements(Dedupe(s)) = Elements(s)
<1> DEFINE I == {i \in DOMAIN s : \A j \in 1 .. i - 1 : s[j] # s[i]}
           d == At(s, I)
<1>1. Len(s) \in Nat /\ DOMAIN s = 1 .. Len(s) /\ I \in SUBSET DOMAIN s
  OBVIOUS
<1>2. /\ d \in Seq(T)
      /\ \A k \in DOMAIN d : \E i \in I : Rank(I, i) = k /\ d[k] = s[i]
      /\ \A i \in I : Rank(I, i) \in DOMAIN d /\ d[Rank(I, i)] = s[i]
  <2> HIDE DEF I
  <2> QED
    BY <1>1, AtFacts
<1>3. \A i, h \in I : s[i] = s[h] => i = h
  BY <1>1
<1>4. NoRepeats(d)
  <2> SUFFICES ASSUME NEW k \in DOMAIN d, NEW l \in DOMAIN d, d[k] = d[l] PROVE k = l
    BY DEF NoRepeats
  <2>1. PICK i \in I : Rank(I, i) = k /\ d[k] = s[i]
    BY <1>2
  <2>2. PICK h \in I : Rank(I, h) = l /\ d[l] = s[h]
    BY <1>2
  <2> HIDE DEF I, d
  <2>3. i = h
    BY <1>3, <2>1, <2>2
  <2> QED
    BY <2>1, <2>2, <2>3
<1>5. ASSUME NEW i \in DOMAIN s PROVE \E h \in I : s[h] = s[i]
  <2> DEFINE J == {j \in DOMAIN s : s[j] = s[i]}
  <2>1. J \in SUBSET (1 .. Len(s)) /\ i \in J
    BY <1>1
  <2>2. Cardinality(J) \in Nat /\ 1 \in 1 .. Cardinality(J)
    <3>1. Cardinality(J) \in Nat /\ Rank(J, i) \in 1 .. Cardinality(J)
      <4> HIDE DEF J
      <4> QED
        BY <1>1, <2>1, Ranks
    <3> QED
      BY <3>1
  <2>3. PICK h \in J : Rank(J, h) = 1
    <3> HIDE DEF J
    <3> QED
      BY <1>1, <2>1, <2>2, Ranks
  <2>4. ASSUME NEW j \in J, j < h PROVE FALSE
    <3> DEFINE L == {x \in J : x <= h}
    <3>1. IsFiniteSet(L) /\ {j, h} \in SUBSET L
      <4>1. L \in SUBSET (1 .. Len(s)) /\ IsFiniteSet(1 .. Len(s))
        BY <1>1, FS_Interval
      <4>2. IsFiniteSet(L)
        BY <4>1, FS_Subset
      <4> QED
        BY <2>1, <2>4, <4>2
    <3>2. Cardinality({j, h}) <= Cardinality(L)
      <4> HIDE DEF L
      <4> QED
        BY <3>1, FS_Subset
    <3>3. Cardinality({j, h}) = 2
      <4>1. j # h
        BY <1>1, <2>1, <2>4
      <4>2. IsFiniteSet({j}) /\ Cardinality({j}) = 1
        BY FS_Singleton
      <4>3. Cardinality({j} \cup {h}) = Cardinality({j}) + 1
        BY <4>1, <4>2, FS_AddElement
      <4>4. {j, h} = {j} \cup {h}
        OBVIOUS
      <4>5. Cardinality({j, h}) = Cardinality({j}) + 1
        BY <4>3, <4>4, Zenon
      <4> QED
        BY <4>2, <4>5
    <3> QED
      BY <2>3, <3>2, <3>3 DEF Rank
  <2>5. h \in I
    BY <1>1, <2>1, <2>3, <2>4
  <2> QED
    BY <2>5
<1>6. Elements(d) = Elements(s)
  <2>1. ASSUME NEW k \in DOMAIN d PROVE d[k] \in Elements(s)
    BY <1>1, <1>2 DEF Elements
  <2>2. ASSUME NEW i \in DOMAIN s PROVE s[i] \in Elements(d)
    <3>1. PICK h \in I : s[h] = s[i]
      BY <1>5
    <3> HIDE DEF I, d
    <3> QED
      BY <1>2, <3>1 DEF Elements
  <2> HIDE DEF I, d
  <2> QED
    BY <2>1, <2>2 DEF Elements
<1> QED
  BY <1>2, <1>4, <1>6 DEF Dedupe

\* What has no element twice stays.
LEMMA DedupeDistinct ==
    ASSUME NEW T, NEW s \in Seq(T), NoRepeats(s)
    PROVE  Dedupe(s) = s
<1>1. {i \in DOMAIN s : \A j \in 1 .. i - 1 : s[j] # s[i]} = DOMAIN s
  <2> SUFFICES ASSUME NEW i \in DOMAIN s, NEW j \in 1 .. i - 1 PROVE s[j] # s[i]
    OBVIOUS
  <2>1. DOMAIN s = 1 .. Len(s) /\ Len(s) \in Nat
    OBVIOUS
  <2>2. j \in DOMAIN s /\ j # i
    BY <2>1
  <2> QED
    BY <2>2 DEF NoRepeats
<1> QED
  BY <1>1, AtAll DEF Dedupe

\* A sequence is empty if it has no elements.
LEMMA NoElements ==
    ASSUME NEW T, NEW s \in Seq(T)
    PROVE  s = <<>> <=> Elements(s) = {}
<1>1. Len(s) \in Nat /\ DOMAIN s = 1 .. Len(s)
  OBVIOUS
<1>2. ASSUME s # <<>> PROVE Elements(s) # {}
  <2>1. 1 \in DOMAIN s
    BY <1>1, <1>2
  <2> QED
    BY <2>1 DEF Elements
<1>3. ASSUME s = <<>> PROVE Elements(s) = {}
  <2>1. DOMAIN s = {}
    BY <1>3
  <2> QED
    BY <2>1 DEF Elements
<1> QED
  BY <1>2, <1>3

\* Both normal forms are the same when taken twice.
LEMMA NormalTwice ==
    /\ \A x \in AllowedBrowsers : Lower(x) = x
    /\ \A x : Suffix(Suffix(x)) = Suffix(x)
    /\ \A x : x # "blank" => Suffix(x) # "blank"
BY DEF AllowedBrowsers, Lower, Suffix

\* A job that validate_job has returned: its browsers, steps and suffixes are in
\* normal form, and it keeps the rules of the gate.
NormalSuffixes(s) == \A k \in DOMAIN s : s[k] # "blank" /\ Suffix(s[k]) = s[k]
NormalBrowsers(b) == b # <<>> /\ NoRepeats(b) /\ \A k \in DOMAIN b : b[k] \in AllowedBrowsers
NormalJob(j) ==
    /\ j.id \in Texts /\ j.id # "malformed" /\ j.pcap \in BOOLEAN
    /\ j.items \in Seq(ItemShape) /\ ItemsFit(j.items, MasterMaxItems)
    /\ j.targets \in Seq(TargetShape)
    /\ \A i, h \in DOMAIN j.targets : j.targets[i].machine = j.targets[h].machine => i = h
    /\ \A i \in DOMAIN j.targets : NormalBrowsers(j.targets[i].browsers)
    /\ j.analysis \in AnalysisShape /\ SwitchesFit(j.analysis, j.pcap)
    /\ NoRepeats(j.analysis.steps) /\ NoRepeats(j.analysis.suffixes)
    /\ NormalSuffixes(j.analysis.suffixes)

\* The steps and suffixes the Master keeps.
LEMMA NormalAnalysis ==
    ASSUME NEW a \in AnalysisShape, NEW withPcap \in BOOLEAN, SwitchesFit(a, withPcap),
           NEW low, low = [k \in DOMAIN WithoutBlanks(a.suffixes) |-> Suffix(WithoutBlanks(a.suffixes)[k])],
           NEW n, n = [a EXCEPT !.steps = Dedupe(a.steps), !.suffixes = Dedupe(low)]
    PROVE  /\ n \in AnalysisShape /\ SwitchesFit(n, withPcap)
           /\ NoRepeats(n.steps) /\ NoRepeats(n.suffixes) /\ NormalSuffixes(n.suffixes)
<1> DEFINE kept == WithoutBlanks(a.suffixes)
<1>1. a.steps \in Seq(Texts) /\ a.suffixes \in Seq(Texts)
  BY DEF AnalysisShape
<1>2. /\ kept \in Seq(Texts)
      /\ \A k \in DOMAIN kept : \E i \in DOMAIN a.suffixes : kept[k] = a.suffixes[i] /\ a.suffixes[i] # "blank"
  <2> DEFINE I == {i \in DOMAIN a.suffixes : a.suffixes[i] # "blank"}
  <2>1. I \in SUBSET DOMAIN a.suffixes
    OBVIOUS
  <2>2. kept = At(a.suffixes, I)
    BY DEF WithoutBlanks
  <2>3. kept \in Seq(Texts) /\ \A k \in DOMAIN kept : \E i \in I : kept[k] = a.suffixes[i]
    <3> HIDE DEF I
    <3> QED
      BY <1>1, <2>1, <2>2, AtFacts
  <2> QED
    BY <2>3
<1>3. /\ low \in Seq(Texts) /\ DOMAIN low = DOMAIN kept
      /\ NormalSuffixes(low)
  <2>1. ASSUME NEW k \in DOMAIN kept
        PROVE  Suffix(kept[k]) \in Texts /\ Suffix(kept[k]) # "blank" /\ Suffix(Suffix(kept[k])) = Suffix(kept[k])
    <3>1. kept[k] \in Texts /\ kept[k] # "blank"
      BY <1>1, <1>2
    <3>2. Suffix(kept[k]) \in Texts
      <4>1. Suffix(kept[k]) \in {"host", "", kept[k]}
        BY DEF Suffix
      <4> QED
        BY <3>1, <4>1, JobContractAssumption
    <3> QED
      BY <3>1, <3>2, NormalTwice
  <2>2. Len(kept) \in Nat /\ DOMAIN kept = 1 .. Len(kept)
    BY <1>2
  <2>3. low \in [1 .. Len(kept) -> Texts] /\ \A k \in DOMAIN kept : low[k] = Suffix(kept[k])
    BY <2>1, <2>2
  <2> QED
    BY <2>1, <2>2, <2>3 DEF NormalSuffixes
<1>4. /\ Dedupe(a.steps) \in Seq(Texts) /\ NoRepeats(Dedupe(a.steps))
      /\ Elements(Dedupe(a.steps)) = Elements(a.steps)
      /\ Dedupe(low) \in Seq(Texts) /\ NoRepeats(Dedupe(low)) /\ Elements(Dedupe(low)) = Elements(low)
  BY <1>1, <1>3, DedupeFacts
<1>5. /\ n \in AnalysisShape /\ n.steps = Dedupe(a.steps) /\ n.suffixes = Dedupe(low)
      /\ n.pipeline = a.pipeline /\ n.deletePcap = a.deletePcap /\ n.withCoframe = a.withCoframe
  BY <1>4 DEF AnalysisShape
<1>6. NormalSuffixes(n.suffixes)
  <2> SUFFICES ASSUME NEW k \in DOMAIN n.suffixes
               PROVE  n.suffixes[k] # "blank" /\ Suffix(n.suffixes[k]) = n.suffixes[k]
    BY DEF NormalSuffixes
  <2>1. n.suffixes[k] \in Elements(low)
    BY <1>4, <1>5 DEF Elements
  <2> QED
    BY <1>3, <2>1 DEF Elements, NormalSuffixes
<1>7. /\ n.steps = <<>> <=> a.steps = <<>>
      /\ a.suffixes = <<>> => n.suffixes = <<>>
      /\ \A k \in DOMAIN n.steps : \E i \in DOMAIN a.steps : n.steps[k] = a.steps[i]
  <2>1. n.steps = <<>> <=> a.steps = <<>>
    BY <1>1, <1>4, <1>5, NoElements
  <2>2. ASSUME a.suffixes = <<>> PROVE n.suffixes = <<>>
    <3>1. DOMAIN kept = {}
      BY <1>2, <2>2
    <3>2. Elements(low) = {}
      BY <1>3, <3>1 DEF Elements
    <3> QED
      BY <1>4, <1>5, <3>2, NoElements
  <2>3. ASSUME NEW k \in DOMAIN n.steps PROVE \E i \in DOMAIN a.steps : n.steps[k] = a.steps[i]
    <3>1. n.steps[k] \in Elements(a.steps)
      BY <1>4, <1>5 DEF Elements
    <3> QED
      BY <3>1 DEF Elements
  <2> QED
    BY <2>1, <2>2, <2>3
<1>8. SwitchesFit(n, withPcap)
  BY <1>5, <1>7 DEF SwitchesFit
<1> QED
  BY <1>4, <1>5, <1>6, <1>8

\* What validate_job accepts it brings into normal form.
LEMMA NormalForm ==
    ASSUME NEW r \in Bodies, MasterAccepts(r), NEW j, j = MasterNormal(r)
    PROVE  NormalJob(j) /\ j # Nothing
<1>1. /\ r.id \in Texts /\ r.items \in Seq(ItemShape) /\ r.targets \in Seq(TargetShape)
      /\ r.pcap \in BOOLEAN /\ r.analysis \in AnalysisShape
  BY JobContractAssumption
<1> DEFINE lowered(i) == [k \in DOMAIN r.targets[i].browsers |-> Lower(r.targets[i].browsers[k])]
           target(i) == [machine |-> r.targets[i].machine, browsers |-> Dedupe(lowered(i))]
<1>2. ASSUME NEW i \in DOMAIN r.targets
      PROVE  target(i) \in TargetShape /\ NormalBrowsers(target(i).browsers)
  <2>1. r.targets[i].browsers \in Seq(Texts) /\ r.targets[i] \in TargetShape
    <3>1. r.targets[i] \in TargetShape
      BY <1>1
    <3> QED
      BY <3>1 DEF TargetShape
  <2>2. r.targets[i].browsers # <<>> /\ \A k \in DOMAIN r.targets[i].browsers : Lower(r.targets[i].browsers[k]) \in AllowedBrowsers
    BY DEF MasterAccepts
  <2> DEFINE b == r.targets[i].browsers
             l == lowered(i)
  <2>3. Len(b) \in Nat /\ DOMAIN b = 1 .. Len(b) /\ Len(b) # 0
    BY <2>1, <2>2
  <2>4. l \in [1 .. Len(b) -> AllowedBrowsers]
    BY <2>2, <2>3
  <2>5. l \in Seq(AllowedBrowsers) /\ l # <<>>
    <3>1. l \in Seq(AllowedBrowsers) /\ DOMAIN l = 1 .. Len(b)
      <4> HIDE DEF l
      <4> QED
        BY <2>3, <2>4
    <3>2. 1 \in DOMAIN l
      BY <2>3, <3>1
    <3> HIDE DEF l
    <3> QED
      BY <3>1, <3>2
  <2> HIDE DEF l
  <2>6. Dedupe(l) \in Seq(AllowedBrowsers) /\ NoRepeats(Dedupe(l)) /\ Elements(Dedupe(l)) = Elements(l)
    BY <2>5, DedupeFacts
  <2>7. Dedupe(l) # <<>>
    BY <2>5, <2>6, NoElements
  <2>8. Dedupe(l) \in Seq(Texts) /\ \A k \in DOMAIN Dedupe(l) : Dedupe(l)[k] \in AllowedBrowsers
    <3>1. \A k \in DOMAIN Dedupe(l) : Dedupe(l)[k] \in AllowedBrowsers
      BY <2>6
    <3>2. AllowedBrowsers \subseteq Texts
      BY JobContractAssumption DEF AllowedBrowsers
    <3>3. Len(Dedupe(l)) \in Nat /\ Dedupe(l) \in [1 .. Len(Dedupe(l)) -> AllowedBrowsers]
      BY <2>6
    <3>4. Dedupe(l) \in [1 .. Len(Dedupe(l)) -> Texts]
      BY <3>2, <3>3
    <3> QED
      BY <3>1, <3>3, <3>4
  <2>9. target(i).browsers = Dedupe(l) /\ target(i) \in TargetShape
    BY <2>1, <2>8 DEF TargetShape, l
  <2> QED
    BY <2>6, <2>7, <2>8, <2>9 DEF NormalBrowsers
<1>3. j.targets = [i \in DOMAIN r.targets |-> target(i)]
  BY DEF MasterNormal
<1>4. j.id = r.id /\ j.items = r.items /\ j.pcap = r.pcap
  BY DEF MasterNormal
<1>5. /\ j.analysis \in AnalysisShape /\ SwitchesFit(j.analysis, j.pcap)
      /\ NoRepeats(j.analysis.steps) /\ NoRepeats(j.analysis.suffixes)
      /\ NormalSuffixes(j.analysis.suffixes)
  <2> DEFINE kept == WithoutBlanks(r.analysis.suffixes)
             low == [k \in DOMAIN kept |-> Suffix(kept[k])]
  <2>1. j.analysis = [r.analysis EXCEPT !.steps = Dedupe(r.analysis.steps), !.suffixes = Dedupe(low)]
    BY DEF MasterNormal
  <2>2. SwitchesFit(r.analysis, r.pcap)
    BY DEF MasterAccepts
  <2>3. low = [k \in DOMAIN WithoutBlanks(r.analysis.suffixes) |-> Suffix(WithoutBlanks(r.analysis.suffixes)[k])]
    OBVIOUS
  <2> HIDE DEF low
  <2>4. /\ j.analysis \in AnalysisShape /\ SwitchesFit(j.analysis, r.pcap)
        /\ NoRepeats(j.analysis.steps) /\ NoRepeats(j.analysis.suffixes)
        /\ NormalSuffixes(j.analysis.suffixes)
    BY <1>1, <2>1, <2>2, <2>3, NormalAnalysis
  <2> QED
    BY <1>4, <2>4
<1>6. j.targets \in Seq(TargetShape) /\ DOMAIN j.targets = DOMAIN r.targets
  <2>1. Len(r.targets) \in Nat /\ DOMAIN r.targets = 1 .. Len(r.targets)
    BY <1>1
  <2>2. j.targets \in [1 .. Len(r.targets) -> TargetShape]
    BY <1>2, <1>3, <2>1
  <2> QED
    BY <2>1, <2>2
<1>7. \A i \in DOMAIN j.targets : j.targets[i].machine = r.targets[i].machine /\ NormalBrowsers(j.targets[i].browsers)
  BY <1>2, <1>3, <1>6
<1>8. \A i, h \in DOMAIN j.targets : j.targets[i].machine = j.targets[h].machine => i = h
  BY <1>6, <1>7 DEF MasterAccepts
<1>9. j.id # "malformed" /\ ItemsFit(j.items, MasterMaxItems)
  BY <1>4 DEF MasterAccepts
<1>10. j # Nothing
  <2>1. "items" \in DOMAIN j /\ "items" \notin DOMAIN Nothing
    BY DEF MasterNormal, Nothing
  <2> QED
    BY <2>1
<1> QED
  BY <1>1, <1>4, <1>5, <1>6, <1>7, <1>8, <1>9, <1>10 DEF NormalJob
-----------------------------------------------------------------------------
\* The machines a job names.
Named == {job.targets[i].machine : i \in DOMAIN job.targets}

\* Nothing was accepted, or there is one job in normal form, with its rows; only
\* the machines it names have a status or a task, and a task is its payload.
Before == job = Nothing /\ \A m \in Machines : status[m] = "none" /\ task[m] = NoTask
After ==
    /\ answer # "none" /\ job # Nothing /\ NormalJob(job) /\ rows = RowsOf(job)
    /\ \A m \in Machines : status[m] # "none" => m \in Named
    /\ \A m \in Machines : task[m] # NoTask => m \in Named /\ task[m] = WorkerNormal(Payload(m))

ContractInv ==
    /\ worker \in [Machines -> Workers]
    /\ DOMAIN status = Machines /\ DOMAIN task = Machines
    /\ Before \/ After

\* A job names each of its machines once.
LEMMA TargetFound ==
    ASSUME NormalJob(job), NEW m \in Named
    PROVE  /\ TargetOf(m) \in DOMAIN job.targets /\ job.targets[TargetOf(m)].machine = m
           /\ \A i \in DOMAIN job.targets : job.targets[i].machine = m => i = TargetOf(m)
<1>1. \E i \in DOMAIN job.targets : job.targets[i].machine = m
  BY DEF Named
<1>2. TargetOf(m) \in DOMAIN job.targets /\ job.targets[TargetOf(m)].machine = m
  BY <1>1 DEF TargetOf
<1> QED
  BY <1>2 DEF NormalJob

\* The steps after the job was accepted leave it and its rows alone.
LEMMA LaterSteps ==
    ASSUME ContractInv, NEW m \in Machines,
           TargetGone(m) \/ BrowserMissing(m) \/ Taken(m) \/ Waits(m) \/ Flip(m) \/ Disable(m)
    PROVE  /\ UNCHANGED <<job, answer, rows, worker>>
           /\ \/ status' = status
              \/ Pending(m) /\ \E s : status' = [status EXCEPT ![m] = s]
           /\ DOMAIN task' = Machines
           /\ \A n \in Machines :
                 task'[n] = task[n] \/ (n = m /\ Pending(m) /\ task'[n] = WorkerNormal(Payload(m)))
<1>0. DOMAIN task = Machines
  BY DEF ContractInv
<1>1. CASE TargetGone(m) \/ BrowserMissing(m) \/ Waits(m)
  BY <1>0, <1>1 DEF TargetGone, BrowserMissing, Waits, Answered
<1>2. CASE Taken(m)
  <2>1. /\ Pending(m) /\ UNCHANGED <<job, answer, rows, worker>>
        /\ task' = [task EXCEPT ![m] = IF @ = NoTask THEN WorkerNormal(Payload(m)) ELSE @]
        /\ \E s : status' = [status EXCEPT ![m] = s]
    BY <1>2 DEF Taken, Answered
  <2>2. CASE task[m] = NoTask
    BY <1>0, <2>1, <2>2
  <2>3. CASE task[m] # NoTask
    BY <1>0, <2>1, <2>3
  <2> QED
    BY <2>1, <2>2, <2>3
<1>3. CASE Flip(m) \/ Disable(m)
  BY <1>0, <1>3 DEF Flip, Disable
<1> QED
  BY <1>1, <1>2, <1>3

\* Every step keeps the invariant.
LEMMA ContractStep ==
    ASSUME ContractInv, [ContractNext]_contractVars
    PROVE  ContractInv'
<1>1. CASE Post
  <2>1. answer = "none" /\ UNCHANGED <<worker, task>>
    BY <1>1 DEF Post
  <2>2. Before
    BY <2>1 DEF ContractInv, After
  <2>3. PICK r \in Bodies :
           LET j == MasterNormal(r)
               machines == {j.targets[i].machine : i \in DOMAIN j.targets}
           IN  IF MasterAccepts(r) /\ machines \subseteq enabled
               THEN /\ answer' = "accepted" /\ job' = j /\ rows' = RowsOf(j)
                    /\ status' = [m \in Machines |-> IF m \in machines THEN "CREATED" ELSE "none"]
               ELSE answer' = "refused" /\ UNCHANGED <<job, rows, status>>
    BY <1>1 DEF Post
  <2> DEFINE j == MasterNormal(r)
             machines == {j.targets[i].machine : i \in DOMAIN j.targets}
  <2>4. CASE MasterAccepts(r) /\ machines \subseteq enabled
    <3>1. /\ answer' = "accepted" /\ job' = j /\ rows' = RowsOf(j)
          /\ status' = [m \in Machines |-> IF m \in machines THEN "CREATED" ELSE "none"]
      BY <2>3, <2>4
    <3>2. NormalJob(j) /\ j # Nothing
      BY <2>4, NormalForm
    <3> HIDE DEF j
    <3>3. NormalJob(job') /\ job' # Nothing /\ rows' = RowsOf(job') /\ answer' # "none"
      BY <3>1, <3>2
    <3>4. Named' = machines
      BY <3>1 DEF Named
    <3>5. \A m \in Machines : status'[m] # "none" => m \in Named'
      BY <3>1, <3>4
    <3>6. \A m \in Machines : task'[m] = NoTask
      BY <2>1, <2>2 DEF Before
    <3>7. After'
      BY <3>3, <3>5, <3>6 DEF After
    <3> QED
      BY <2>1, <3>1, <3>7 DEF ContractInv
  <2>5. CASE ~(MasterAccepts(r) /\ machines \subseteq enabled)
    <3>1. UNCHANGED <<job, rows, status, worker, task>>
      BY <2>1, <2>3, <2>5
    <3> QED
      BY <2>2, <3>1 DEF ContractInv, Before
  <2> QED
    BY <2>4, <2>5
<1>2. ASSUME NEW m \in Machines,
             TargetGone(m) \/ BrowserMissing(m) \/ Taken(m) \/ Waits(m) \/ Flip(m) \/ Disable(m)
      PROVE  ContractInv'
  <2>1. /\ UNCHANGED <<job, answer, rows, worker>>
        /\ \/ status' = status
           \/ Pending(m) /\ \E s : status' = [status EXCEPT ![m] = s]
        /\ DOMAIN task' = Machines
        /\ \A n \in Machines :
              task'[n] = task[n] \/ (n = m /\ Pending(m) /\ task'[n] = WorkerNormal(Payload(m)))
    BY <1>2, LaterSteps
  <2>2. Named' = Named /\ \A n : Payload(n)' = Payload(n)
    BY <2>1 DEF Named, Payload, TargetOf
  <2>3. DOMAIN status' = Machines /\ DOMAIN task' = Machines
    BY <2>1 DEF ContractInv
  <2>4. CASE Before
    <3>1. ~Pending(m)
      BY <2>4 DEF Before, Pending
    <3> QED
      BY <2>1, <2>3, <2>4, <3>1 DEF ContractInv, Before
  <2>5. CASE After
    <3>1. Pending(m) => m \in Named
      BY <2>5 DEF After, Pending
    <3>2. \A n \in Machines : status'[n] # "none" => n \in Named'
      BY <2>1, <2>2, <2>5, <3>1 DEF After, ContractInv
    <3>3. \A n \in Machines : task'[n] # NoTask => n \in Named' /\ task'[n] = WorkerNormal(Payload(n)')
      BY <2>1, <2>2, <2>5, <3>1 DEF After, ContractInv
    <3>4. NormalJob(job') /\ job' # Nothing /\ rows' = RowsOf(job') /\ answer' # "none"
      BY <2>1, <2>5 DEF After
    <3>5. After'
      BY <3>2, <3>3, <3>4 DEF After
    <3> QED
      BY <2>1, <2>3, <3>5 DEF ContractInv
  <2> QED
    BY <2>4, <2>5 DEF ContractInv
<1>3. CASE UNCHANGED contractVars
  BY <1>3 DEF contractVars, ContractInv, Before, After, Named, Payload, TargetOf
<1> QED
  BY <1>1, <1>2, <1>3 DEF ContractNext

LEMMA ContractStart ==
    ASSUME ContractInit
    PROVE  ContractInv
BY DEF ContractInit, ContractInv, Before

LEMMA LengthIsNatural ==
    ASSUME NEW T, NEW s \in Seq(T)
    PROVE  Len(s) \in Nat
OBVIOUS

LEMMA NotMore ==
    ASSUME NEW a \in Nat, NEW b \in Nat, ~(a > b)
    PROVE  a <= b
OBVIOUS

\* Items that fit under one limit and are few enough for another fit under that one.
LEMMA ItemsFitUnder ==
    ASSUME NEW T, NEW items \in Seq(T), NEW most \in Nat, NEW n \in Nat,
           ItemsFit(items, n), Len(items) <= most
    PROVE  ItemsFit(items, most)
<1>1. Len(items) \in Nat
  BY LengthIsNatural
<1> QED
  BY <1>1 DEF ItemsFit

\* What the two gates say of one payload: the Worker has only its own limits and the
\* suffixes to refuse it for.
LEMMA SecondGate ==
    ASSUME NormalJob(job), NEW m \in Named, NEW w \in Workers,
           Len(job.items) <= w.maxItems, Wanted(m) \subseteq w.allowed,
           \A k \in DOMAIN job.analysis.suffixes : job.analysis.suffixes[k] \notin {"", "phrase"},
           NEW p, p = Payload(m)
    PROVE  WorkerAccepts(p, w)
<1>1. /\ p.id = WorkerDirectoryId(job.id) /\ p.items = job.items /\ p.pcap = job.pcap
      /\ p.browsers = job.targets[TargetOf(m)].browsers /\ p.analysis = job.analysis
  BY DEF Payload
<1>2. p.id \notin {"malformed", "wide"}
  BY <1>1 DEF NormalJob, WorkerDirectoryId
<1>3. ItemsFit(p.items, w.maxItems)
  <2>1. w.maxItems \in Nat /\ MasterMaxItems \in Nat
    BY JobContractAssumption
  <2>2. ItemsFit(job.items, MasterMaxItems) /\ job.items \in Seq(ItemShape)
    BY DEF NormalJob
  <2>3. ItemsFit(job.items, w.maxItems)
    BY <2>1, <2>2, ItemsFitUnder
  <2> QED
    BY <1>1, <2>3
<1>4. p.browsers # <<>> /\ \A k \in DOMAIN p.browsers : Lower(p.browsers[k]) \in w.allowed
  <2>1. NormalBrowsers(p.browsers)
    BY <1>1, TargetFound DEF NormalJob
  <2>2. \A k \in DOMAIN p.browsers : Lower(p.browsers[k]) = p.browsers[k]
    BY <2>1, NormalTwice DEF NormalBrowsers
  <2> QED
    BY <1>1, <2>1, <2>2 DEF NormalBrowsers, Wanted
<1>5. SwitchesFit(p.analysis, p.pcap)
  BY <1>1 DEF NormalJob
<1>6. \A k \in DOMAIN p.analysis.suffixes :
         p.analysis.suffixes[k] # "blank" /\ Suffix(p.analysis.suffixes[k]) \notin {"", "phrase"}
  <2>1. NormalSuffixes(job.analysis.suffixes)
    BY DEF NormalJob
  <2> QED
    BY <1>1, <2>1 DEF NormalSuffixes
<1> QED
  BY <1>2, <1>3, <1>4, <1>5, <1>6 DEF WorkerAccepts

\* A list in normal form stays as it is when it is brought into normal form again.
LEMMA ListTwice ==
    ASSUME NEW T, NEW s \in Seq(T), NoRepeats(s), NEW t, t = [k \in DOMAIN s |-> s[k]]
    PROVE  Dedupe(t) = s
<1>1. t = s
  OBVIOUS
<1> QED
  BY <1>1, DedupeDistinct

\* The Worker's normal form of a payload is the payload.
LEMMA PayloadStays ==
    ASSUME NormalJob(job), NEW m \in Named, NEW p, p = Payload(m), NEW t, t = WorkerNormal(p)
    PROVE  /\ t.analysis = job.analysis /\ t.pcap = job.pcap /\ t.items = job.items
           /\ t.browsers = job.targets[TargetOf(m)].browsers
<1>1. /\ DOMAIN p = {"id", "items", "pcap", "browsers", "analysis"}
      /\ p.items = job.items /\ p.pcap = job.pcap
      /\ p.browsers = job.targets[TargetOf(m)].browsers /\ p.analysis = job.analysis
  BY DEF Payload
<1>2. p.browsers \in Seq(Texts) /\ NormalBrowsers(p.browsers)
  <2>1. job.targets[TargetOf(m)] \in TargetShape /\ NormalBrowsers(job.targets[TargetOf(m)].browsers)
    BY TargetFound DEF NormalJob
  <2> QED
    BY <1>1, <2>1 DEF TargetShape
<1>3. /\ p.analysis \in AnalysisShape
      /\ p.analysis.steps \in Seq(Texts) /\ p.analysis.suffixes \in Seq(Texts)
      /\ NoRepeats(p.analysis.steps) /\ NoRepeats(p.analysis.suffixes)
      /\ NormalSuffixes(p.analysis.suffixes)
  BY <1>1 DEF NormalJob, AnalysisShape
<1>4. Dedupe([k \in DOMAIN p.browsers |-> Lower(p.browsers[k])]) = p.browsers
  <2>1. NoRepeats(p.browsers) /\ \A k \in DOMAIN p.browsers : Lower(p.browsers[k]) = p.browsers[k]
    BY <1>2, NormalTwice DEF NormalBrowsers
  <2>2. [k \in DOMAIN p.browsers |-> Lower(p.browsers[k])] = [k \in DOMAIN p.browsers |-> p.browsers[k]]
    BY <2>1
  <2> QED
    BY <1>2, <2>1, <2>2, ListTwice
<1>5. Dedupe(p.analysis.steps) = p.analysis.steps
  BY <1>3, DedupeDistinct
<1>6. Dedupe([k \in DOMAIN p.analysis.suffixes |-> Suffix(p.analysis.suffixes[k])]) = p.analysis.suffixes
  <2>1. [k \in DOMAIN p.analysis.suffixes |-> Suffix(p.analysis.suffixes[k])]
           = [k \in DOMAIN p.analysis.suffixes |-> p.analysis.suffixes[k]]
    BY <1>3 DEF NormalSuffixes
  <2> QED
    BY <1>3, <2>1, ListTwice
<1>7. /\ t.items = p.items /\ t.pcap = p.pcap
      /\ t.browsers = Dedupe([k \in DOMAIN p.browsers |-> Lower(p.browsers[k])])
  BY <1>1 DEF WorkerNormal
<1>8. t.analysis = [p.analysis EXCEPT
                      !.steps = Dedupe(p.analysis.steps),
                      !.suffixes = Dedupe([k \in DOMAIN p.analysis.suffixes |-> Suffix(p.analysis.suffixes[k])])]
  BY <1>1, <1>3 DEF WorkerNormal, AnalysisShape
<1>9. t.analysis = p.analysis
  <2>1. t.analysis = [p.analysis EXCEPT !.steps = p.analysis.steps, !.suffixes = p.analysis.suffixes]
    BY <1>5, <1>6, <1>8
  <2> QED
    BY <1>3, <2>1 DEF AnalysisShape
<1> QED
  BY <1>1, <1>4, <1>7, <1>9

\* RefusalsAreTheWorkers: whatever a client posts and whichever machines answer, what
\* validate_job lets through validate_task_payload refuses for the Worker's own limits or
\* for an SNI suffix only, and the ID of the task is a directory name.
THEOREM RefusalsOfWorkers == ContractSpec => []RefusalsAreTheWorkers
<1>1. ContractInv => RefusalsAreTheWorkers
  <2> SUFFICES ASSUME ContractInv, NEW m \in Machines, Pending(m)
               PROVE  /\ WorkerDirectoryId(job.id) \notin {"reserved", "endsWithDot", "wide"}
                      /\ \/ WorkerAccepts(Payload(m), worker[m])
                         \/ Len(job.items) > worker[m].maxItems
                         \/ ~(Wanted(m) \subseteq worker[m].allowed)
                         \/ \E k \in DOMAIN job.analysis.suffixes : job.analysis.suffixes[k] \in {"", "phrase"}
    BY DEF RefusalsAreTheWorkers
  <2>1. After
    BY DEF ContractInv, Before, Pending
  <2>2. NormalJob(job) /\ m \in Named /\ worker[m] \in Workers
    BY <2>1 DEF ContractInv, After, Pending
  <2>3. worker[m].maxItems \in Nat /\ Len(job.items) \in Nat
    <3>1. job.items \in Seq(ItemShape)
      BY <2>2 DEF NormalJob
    <3>2. Len(job.items) \in Nat
      BY <3>1, LengthIsNatural
    <3> QED
      BY <2>2, <3>2, JobContractAssumption
  <2>4. WorkerDirectoryId(job.id) \notin {"reserved", "endsWithDot", "wide"}
    BY DEF WorkerDirectoryId
  <2>5. ASSUME ~(Len(job.items) > worker[m].maxItems), Wanted(m) \subseteq worker[m].allowed,
               \A k \in DOMAIN job.analysis.suffixes : job.analysis.suffixes[k] \notin {"", "phrase"}
        PROVE  WorkerAccepts(Payload(m), worker[m])
    <3>1. Len(job.items) <= worker[m].maxItems
      BY <2>3, <2>5, NotMore
    <3> QED
      BY <2>2, <2>5, <3>1, SecondGate
  <2> QED
    BY <2>4, <2>5
<1> QED
  BY <1>1, ContractStart, ContractStep, PTL DEF ContractSpec

LEMMA RowFields ==
    \A m, i, b : Row(m, i, b).machine = m /\ Row(m, i, b).item = i /\ Row(m, i, b).browser = b
BY DEF Row

\* RowsAreUnits: the task a Worker holds makes exactly the units the Master has rows for,
\* with its switches and steps, however the request wrote browsers, steps and suffixes.
THEOREM UnitsOfRows == ContractSpec => []RowsAreUnits
<1>1. ContractInv => RowsAreUnits
  <2> SUFFICES ASSUME ContractInv, NEW m \in Machines, task[m] # NoTask
               PROVE  /\ {Unit(r.item, r.browser) : r \in {x \in rows : x.machine = m}}
                           = {Unit(task[m].items[i].id, task[m].browsers[b]) :
                                 i \in DOMAIN task[m].items, b \in DOMAIN task[m].browsers}
                      /\ task[m].analysis = job.analysis /\ task[m].pcap = job.pcap
    BY DEF RowsAreUnits
  <2>1. After
    BY DEF ContractInv, Before
  <2>2. NormalJob(job) /\ m \in Named /\ task[m] = WorkerNormal(Payload(m)) /\ rows = RowsOf(job)
    BY <2>1 DEF After
  <2>3. /\ task[m].analysis = job.analysis /\ task[m].pcap = job.pcap /\ task[m].items = job.items
        /\ task[m].browsers = job.targets[TargetOf(m)].browsers
    BY <2>2, PayloadStays
  <2> DEFINE made == {Row(m, task[m].items[k].id, task[m].browsers[b]) :
                         k \in DOMAIN task[m].items, b \in DOMAIN task[m].browsers}
  <2>4. {x \in rows : x.machine = m} = made
    <3>1. PICK n \in DOMAIN job.targets :
             /\ task[m].browsers = job.targets[n].browsers /\ job.targets[n].machine = m
             /\ \A i \in DOMAIN job.targets : job.targets[i].machine = m => i = n
      BY <2>2, <2>3, TargetFound
    <3>2. ASSUME NEW x \in made PROVE x \in rows /\ x.machine = m
      <4>1. PICK k \in DOMAIN job.items, b \in DOMAIN job.targets[n].browsers :
               x = Row(job.targets[n].machine, job.items[k].id, job.targets[n].browsers[b])
        BY <2>3, <3>1, <3>2
      <4> QED
        BY <2>2, <3>1, <4>1, RowFields DEF RowsOf
    <3>3. ASSUME NEW x \in rows, x.machine = m PROVE x \in made
      <4>1. PICK i \in DOMAIN job.targets :
               \E k \in DOMAIN job.items, b \in DOMAIN job.targets[i].browsers :
                  x = Row(job.targets[i].machine, job.items[k].id, job.targets[i].browsers[b])
        BY <2>2, <3>3 DEF RowsOf
      <4>2. job.targets[i].machine = m
        BY <3>3, <4>1, RowFields
      <4>3. i = n
        BY <3>1, <4>2
      <4> QED
        BY <2>3, <3>1, <4>1, <4>3
    <3> HIDE DEF made
    <3> QED
      BY <3>2, <3>3
  <2> DEFINE units == {Unit(task[m].items[k].id, task[m].browsers[b]) :
                          k \in DOMAIN task[m].items, b \in DOMAIN task[m].browsers}
  <2>5. ASSUME NEW r \in made PROVE Unit(r.item, r.browser) \in units
    <3>1. PICK k \in DOMAIN task[m].items, b \in DOMAIN task[m].browsers :
             r = Row(m, task[m].items[k].id, task[m].browsers[b])
      OBVIOUS
    <3>2. r.item = task[m].items[k].id /\ r.browser = task[m].browsers[b]
      BY <3>1, RowFields
    <3> QED
      BY <3>2
  <2>6. ASSUME NEW x \in units PROVE \E r \in made : x = Unit(r.item, r.browser)
    <3>1. PICK k \in DOMAIN task[m].items, b \in DOMAIN task[m].browsers :
             x = Unit(task[m].items[k].id, task[m].browsers[b])
      OBVIOUS
    <3>2. Row(m, task[m].items[k].id, task[m].browsers[b]) \in made
      OBVIOUS
    <3> QED
      BY <3>1, <3>2, RowFields
  <2> HIDE DEF made, units
  <2>7. {Unit(r.item, r.browser) : r \in {x \in rows : x.machine = m}} = units
    BY <2>4, <2>5, <2>6
  <2> QED
    BY <2>3, <2>7 DEF units
<1> QED
  BY <1>1, ContractStart, ContractStep, PTL DEF ContractSpec

=============================================================================
