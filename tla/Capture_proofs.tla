--------------------------- MODULE Capture_proofs ---------------------------
(***************************************************************************)
(* Proofs about the command that captures.  CaptureRun: what the exit      *)
(* code, the record and the queue of a run say of its units is true, and   *)
(* its extraction keeps away from the unit that is captured; for any       *)
(* input, in which a unit may occur again, and any number of runs, kills   *)
(* and faults.  CaptureSession: a unit that the next run would skip has    *)
(* the whole capture and the keys of one attempt, the capture tool does    *)
(* not outlive its attempt, and no profile goes while a browser handed     *)
(* over may use it; for any number of attempts, names, faults and kills.   *)
(***************************************************************************)
EXTENDS CaptureRun, CaptureSession, FiniteSetTheorems, SequenceTheorems, TLAPS

-----------------------------------------------------------------------------
(* CaptureRun                                                              *)

\* A run that has begun and has not ended; its captures; its consumer at work
\* on a unit.
Live == main.pc \notin {"idle", "exited"}
Capturing == {"unit", "captured"}
Closing == {"close", "closing", "join"}
Busy == consumer.pc \in {"start", "poll", "pause", "paused", "wait", "terminate", "release",
                         "judge"}

\* The types.
Mains == [pc : {"idle", "open", "exited"} \cup Capturing \cup Closing, pos : 0..Len(Plan),
          incomplete : Nat, raised : BOOLEAN, exit : {-1, 0, 1, 2, 3}]
Consumers == [pc : {"none", "loop", "get", "start", "poll", "pause", "paused", "wait", "terminate",
                    "release", "judge", "ended"},
              unit : Units \cup {NoUnit}, error : BOOLEAN, left : BOOLEAN]
Children == [state : {"none", "running", "paused", "done", "failed"}, unit : Units \cup {NoUnit},
             late : BOOLEAN]
Records == [draining : BOOLEAN, queued : Nat, finished : Nat, failed : Nat, done : BOOLEAN]
MainTyped == main \in Mains
ConsumerTyped == consumer \in Consumers /\ (Busy => consumer.unit \in Units)
ChildTyped == child \in Children /\ (child.state # "none" => child.unit \in Units)
RecordTyped == record \in Records
QueueTyped ==
    /\ queue \in Seq(Units \cup {End})
    /\ seen \in SUBSET Units /\ IsFiniteSet(seen)
    /\ failures \in SUBSET Units /\ IsFiniteSet(failures)
    /\ finished \in Nat /\ stop \in BOOLEAN /\ draining \in BOOLEAN
FilesTyped == marker \in SUBSET Units /\ receipt \in SUBSET Units /\ linux \in BOOLEAN
Typed == MainTyped /\ ConsumerTyped /\ ChildTyped /\ RecordTyped /\ QueueTyped /\ FilesTyped

\* How far the run is: it has an exit code when it has ended, a consumer while
\* it lives, a drain flag when its captures are over.
Phased ==
    /\ main.exit # -1 => main.pc = "exited"
    /\ main.pc \in {"idle", "open", "exited"} => consumer.pc = "none"
    /\ main.pc = "open" =>
          /\ main.pos = 1 /\ ~main.raised
          /\ queue = <<>> /\ seen = {} /\ finished = 0 /\ ~consumer.error /\ ~ChildLives
    /\ main.pc \in Capturing \cup Closing => main.pos > 0
    /\ main.pc \in {"open", "close"} \cup Capturing => ~draining /\ ~record.draining
    /\ stop => main.raised /\ main.pc \in {"join", "exited"}
    /\ record.done => main.pc = "exited"

\* The positions of the input that the captures have passed.
Passed == IF main.pc \in Capturing THEN 1 .. main.pos - 1 ELSE DOMAIN Plan

\* What is offered has a checkpoint, and the units passed are offered if they
\* have one; without an incomplete unit they all have.
Offered ==
    /\ seen \subseteq marker
    /\ MainAt("captured") => Unit \notin marker
    /\ main.pc \in Capturing \cup Closing /\ ~main.raised => \A i \in Passed :
          /\ Plan[i] \in marker => Plan[i] \in seen
          /\ main.incomplete = 0 => Plan[i] \in marker

\* The queue holds units that were offered, and at the end that of close, which
\* the consumer takes last.
Ordered ==
    /\ Live /\ Busy => consumer.unit \in seen
    /\ Live => \A i \in DOMAIN queue :
          queue[i] \in seen \/ (queue[i] = End /\ i = Len(queue) /\ MainAt("join"))
    /\ MainAt("join") => \/ queue # <<>> /\ queue[Len(queue)] = End
                         \/ queue = <<>> /\ ConsumerEnded
    /\ ConsumerEnded /\ ~consumer.error => stop \/ (MainAt("join") /\ queue = <<>>)

\* The units in the queue.
Waiting == IF MainAt("join") /\ queue # <<>> THEN Len(queue) - 1 ELSE Len(queue)

\* Unless the consumer has failed, a unit that was offered waits, is worked on,
\* or is judged, and the numbers agree.
Accounted ==
    Live /\ ~consumer.error =>
        /\ \A u \in seen : \/ \E i \in DOMAIN queue : queue[i] = u
                           \/ Busy /\ consumer.unit = u
                           \/ u \in failures \cup receipt
        /\ Cardinality(seen) = finished + Waiting + (IF Busy THEN 1 ELSE 0)

\* The extraction process works on a unit that has a checkpoint, and lives while
\* the consumer watches it, or is dying of an error; a process that could not be
\* ended is of an extraction that failed.
Watched ==
    /\ child.state # "none" => child.unit \in marker
    /\ consumer.pc \in {"loop", "get", "start", "judge"} => ~ChildLives
    /\ consumer.pc \in {"release", "ended"} /\ ~consumer.error => ~ChildLives
    /\ Live /\ consumer.left /\ ~consumer.error =>
          failures # {} \/ (ConsumerAt("judge") /\ child.state # "done")

IInv == /\ Typed /\ Phased /\ Offered /\ Ordered /\ Accounted /\ Watched
        /\ ExitIsHonest /\ NoExtractionLeft /\ RecordIsFinal
-----------------------------------------------------------------------------
\* The input has a first unit.
LEMMA PlanFacts ==
    /\ Plan \in Seq(Units) /\ Len(Plan) \in Nat \ {0} /\ DOMAIN Plan = 1..Len(Plan)
    /\ \A i \in DOMAIN Plan : Plan[i] \in Units
BY CaptureRunAssumption

\* What the consumer writes into the record is a record of the queue.
LEMMA ProgressIs ==
    ASSUME QueueTyped, NEW d \in BOOLEAN
    PROVE  /\ Progress(d) \in Records
           /\ Progress(d).draining = draining /\ Progress(d).done = d
           /\ Progress(d).queued = Len(queue) /\ Progress(d).finished = finished
           /\ Progress(d).failed = Cardinality(failures)
<1>1. Len(queue) \in Nat /\ Cardinality(failures) \in Nat
  BY FS_CardinalityType DEF QueueTyped
<1> QED
  BY <1>1 DEF QueueTyped, Progress, Records

\* The position after a unit: the next one, or the end of the captures.
LEMMA AfterUnitIs ==
    ASSUME MainTyped, Phased, main.pc \in Capturing
    PROVE  /\ main.pos \in DOMAIN Plan /\ Unit = Plan[main.pos] /\ Unit \in Units
           /\ AfterUnit \in Mains
           /\ AfterUnit.incomplete = main.incomplete /\ AfterUnit.raised = main.raised
           /\ AfterUnit.exit = main.exit
           /\ \/ main.pos < Len(Plan) /\ AfterUnit.pc = "unit" /\ AfterUnit.pos = main.pos + 1
              \/ main.pos = Len(Plan) /\ AfterUnit.pc = "close" /\ AfterUnit.pos = main.pos
<1> USE PlanFacts DEF MainTyped, Mains
<1>1. main.pos \in 1..Len(Plan)
  BY DEF Phased
<1>2. Unit = Plan[main.pos] /\ Unit \in Units
  BY <1>1 DEF Unit
<1>3. CASE main.pos < Len(Plan)
  <2>1. AfterUnit = [main EXCEPT !.pc = "unit", !.pos = main.pos + 1]
    BY <1>3 DEF AfterUnit
  <2>2. main.pos + 1 \in 0..Len(Plan) /\ main.pos \in DOMAIN Plan
    BY <1>1, <1>3
  <2> QED
    BY <1>2, <1>3, <2>1, <2>2 DEF Capturing, Closing
<1>4. CASE main.pos = Len(Plan)
  <2>0. ~(main.pos < Len(Plan))
    BY <1>1, <1>4
  <2>1. AfterUnit = [main EXCEPT !.pc = "close", !.pos = main.pos]
    BY <2>0, Zenon DEF AfterUnit
  <2>2. main.pos \in DOMAIN Plan
    BY <1>1
  <2> QED
    BY <1>2, <1>4, <2>1, <2>2 DEF Capturing, Closing
<1> QED
  BY <1>1, <1>3, <1>4

\* The end of the process.
LEMMA GoneIs ==
    ASSUME Typed, NEW x \in {0, 1, 2, 3}, Gone(x)
    PROVE  /\ MainTyped' /\ main'.pc = "exited" /\ main'.exit = x
           /\ main'.raised = main.raised /\ main'.incomplete = main.incomplete
           /\ ConsumerTyped' /\ consumer'.pc = "none" /\ consumer'.error = consumer.error
           /\ consumer'.left = consumer.left
           /\ consumer'.unit = consumer.unit
BY DEF Typed, Gone, MainTyped, Mains, ConsumerTyped, Consumers, Busy, Capturing, Closing

\* The steps of the consumer thread.
LEMMA ConsumerMoves ==
    ASSUME ConsumerTyped
    PROVE  /\ \A p \in {"loop", "get", "ended", "none"} : ConsumerGoes(p) => ConsumerTyped'
           /\ Busy => \A p \in {"poll", "pause", "paused", "wait", "terminate", "release", "judge"} :
                         ConsumerGoes(p) => ConsumerTyped'
           /\ ConsumerDies => ConsumerTyped'
           /\ Busy /\ ConsumerFails => ConsumerTyped'
BY DEF ConsumerTyped, Consumers, Busy, ConsumerGoes, ConsumerDies, ConsumerFails

\* One more unit is offered, or it was offered before.
LEMMA OfferIs ==
    ASSUME QueueTyped, NEW u \in Units, Offer(u)
    PROVE  /\ queue' \in Seq(Units \cup {End})
           /\ seen' = seen \cup {u} /\ seen' \in SUBSET Units /\ IsFiniteSet(seen')
           /\ \/ u \in seen /\ queue' = queue
              \/ /\ u \notin seen /\ queue' = Append(queue, u)
                 /\ Cardinality(seen') = Cardinality(seen) + 1
<1>1. CASE u \in seen
  BY <1>1 DEF Offer, QueueTyped
<1>2. CASE u \notin seen
  <2>1. queue' = Append(queue, u) /\ seen' = seen \cup {u}
    BY <1>2 DEF Offer
  <2>2. IsFiniteSet(seen') /\ Cardinality(seen') = Cardinality(seen) + 1
    BY <1>2, <2>1, FS_AddElement DEF QueueTyped
  <2>3. queue' \in Seq(Units \cup {End})
    BY <2>1 DEF QueueTyped
  <2> QED
    BY <1>2, <2>1, <2>2, <2>3 DEF QueueTyped
<1> QED
  BY <1>1, <1>2
-----------------------------------------------------------------------------
\* Every step keeps the type of the main thread.
LEMMA MainStepTyped == ASSUME Typed, Phased, Next PROVE MainTyped'
<1> USE DEF Typed
<1>1. CASE Start
  BY <1>1, PlanFacts DEF Start, MainTyped, Mains, Capturing
<1>2. CASE Killed
  BY <1>2, GoneIs DEF Killed
<1>3. CASE Open
  <2>1. ASSUME main' = [main EXCEPT !.pc = "unit"] PROVE MainTyped'
    BY <2>1 DEF MainTyped, Mains, Capturing, Closing
  <2> QED
    BY <1>3, <2>1, GoneIs DEF Open
<1>4. CASE Skip
  BY <1>4, AfterUnitIs DEF Skip, MainAt, MainTyped, Capturing
<1>5. CASE Capture
  BY <1>5 DEF Capture, MainTyped, Mains, Capturing, Closing
<1>6. CASE MarkComplete
  <2>1. AfterUnit \in Mains
    BY <1>6, AfterUnitIs DEF MarkComplete, MainAt, Capturing
  <2>2. [AfterUnit EXCEPT !.incomplete = @ + 1] \in Mains
    BY <2>1 DEF Mains
  <2> QED
    BY <1>6, <2>1, <2>2 DEF MarkComplete, MainTyped
<1>7. CASE CapturesRaise
  BY <1>7 DEF CapturesRaise, MainTyped, Mains, Capturing, Closing
<1>8. CASE Close
  <2>1. ASSUME main' = [main EXCEPT !.pc = "closing"] PROVE MainTyped'
    BY <2>1 DEF MainTyped, Mains, Capturing, Closing
  <2> QED
    BY <1>8, <2>1, GoneIs DEF Close
<1>9. CASE CloseStop
  BY <1>9 DEF CloseStop, MainTyped, Mains, Capturing, Closing
<1>10. CASE Join
  <2>1. ExitCode \in {0, 1, 2, 3}
    BY DEF ExitCode
  <2> QED
    BY <1>10, <2>1, GoneIs DEF Join
<1>11. CASE ConsumerStep \/ ChildEnds \/ TimePasses
  BY <1>11 DEF ConsumerStep, Loop, Get, StartChild, Poll, Pause, Continue, Wait, Terminate, Release, Judge,
               ChildEnds, TimePasses, MainTyped
<1> QED
  BY <1>1, <1>2, <1>3, <1>4, <1>5, <1>6, <1>7, <1>8, <1>9, <1>10, <1>11 DEF Next, MainStep

\* Every step keeps the type of the consumer thread.
LEMMA ConsumerStepTyped == ASSUME Typed, Phased, Ordered, Next PROVE ConsumerTyped'
<1> USE DEF Typed
<1>1. CASE Start
  BY <1>1 DEF Start, ConsumerTyped, Consumers, Busy
<1>2. CASE Killed
  BY <1>2, GoneIs DEF Killed
<1>3. CASE Open
  <2>1. ASSUME consumer' = [consumer EXCEPT !.pc = "loop"] PROVE ConsumerTyped'
    BY <2>1 DEF ConsumerTyped, Consumers, Busy
  <2> QED
    BY <1>3, <2>1, GoneIs DEF Open
<1>4. CASE Close
  <2>1. ASSUME UNCHANGED consumer PROVE ConsumerTyped'
    BY <2>1 DEF ConsumerTyped, Busy
  <2> QED
    BY <1>4, <2>1, GoneIs DEF Close
<1>5. CASE Join
  <2>1. ExitCode \in {0, 1, 2, 3}
    BY DEF ExitCode
  <2> QED
    BY <1>5, <2>1, GoneIs DEF Join
<1>6. CASE Loop
  BY <1>6, ConsumerMoves DEF Loop
<1>7. CASE Get
  <2>1. Head(queue) \in Units \cup {End}
    BY <1>7 DEF Get, QueueTyped
  <2>2. CASE Head(queue) = End
    BY <1>7, <2>2 DEF Get, ConsumerTyped, Consumers, Busy
  <2>3. CASE Head(queue) # End
    BY <1>7, <2>1, <2>3 DEF Get, ConsumerTyped, Consumers, Busy
  <2> QED
    BY <2>2, <2>3
<1>71. CASE Release
  <2>1. Busy
    BY <1>71 DEF Release, ConsumerAt, Busy
  <2>2. CASE Released \/ ConsumerDies
    BY <2>1, <2>2, ConsumerMoves DEF Released
  <2>3. CASE consumer' = [consumer EXCEPT !.pc = IF consumer.error THEN "ended" ELSE "judge",
                                          !.left = TRUE]
    BY <2>1, <2>3 DEF ConsumerTyped, Consumers, Busy
  <2> QED
    BY <1>71, <2>2, <2>3 DEF Release
<1>8. CASE StartChild \/ Pause \/ Continue \/ Wait \/ Terminate
  BY <1>8, ConsumerMoves DEF StartChild, Pause, Continue, Wait, Terminate, Release, ConsumerAt, Busy
<1>9. CASE Poll
  <2>1. \E p \in {"release", "terminate", "pause", "wait"} : ConsumerGoes(p)
    BY <1>9 DEF Poll
  <2> QED
    BY <1>9, <2>1, ConsumerMoves DEF Poll, ConsumerAt, Busy
<1>10. CASE Judge
  <2>1. ASSUME consumer' = [consumer EXCEPT !.pc = "loop", !.unit = NoUnit] PROVE ConsumerTyped'
    BY <2>1 DEF ConsumerTyped, Consumers, Busy
  <2> QED
    BY <1>10, <2>1, ConsumerMoves DEF Judge
<1>11. CASE Skip \/ Capture \/ MarkComplete \/ CapturesRaise \/ CloseStop \/ ChildEnds \/ TimePasses
  BY <1>11 DEF Skip, Capture, MarkComplete, CapturesRaise, CloseStop, ChildEnds, TimePasses,
               ConsumerTyped, Busy
<1> QED
  BY <1>1, <1>2, <1>3, <1>4, <1>5, <1>6, <1>7, <1>71, <1>8, <1>9, <1>10, <1>11
     DEF Next, MainStep, ConsumerStep

\* Every step keeps the type of the extraction process.
LEMMA ChildStepTyped == ASSUME Typed, Next PROVE ChildTyped'
<1>0. ASSUME child' = NoChild PROVE ChildTyped'
  BY <1>0 DEF ChildTyped, Children, NoChild
<1> USE DEF Typed, ChildTyped, Children
<1>1. CASE Start \/ Judge
  BY <1>0, <1>1 DEF Start, Judge
<1>2. CASE StartChild
  <2>1. consumer.unit \in Units
    BY <1>2 DEF StartChild, ConsumerTyped, Busy, ConsumerAt
  <2>2. CASE child' = [state |-> "running", unit |-> consumer.unit, late |-> FALSE]
    <3>1. child' \in Children
      BY <2>1, <2>2
    <3>2. child'.unit \in Units
      BY <2>1, <2>2
    <3> QED
      BY <3>1, <3>2
  <2>3. CASE child' = child
    BY <2>3
  <2> QED
    BY <1>2, <2>2, <2>3 DEF StartChild
<1>3. CASE Pause \/ Continue \/ TimePasses
  BY <1>3 DEF Pause, Continue, TimePasses, ChildLives
<1>4. CASE Terminate \/ Release \/ ChildEnds
  BY <1>4 DEF Terminate, Release, ChildEnds, ChildLives
<1>5. CASE \/ Killed \/ Open \/ Skip \/ Capture \/ MarkComplete \/ CapturesRaise \/ Close \/ CloseStop
           \/ Join \/ Loop \/ Get \/ Poll \/ Wait
  BY <1>5 DEF Killed, Open, Skip, Capture, MarkComplete, CapturesRaise, Close, CloseStop, Join, Loop,
              Get, Poll, Wait
<1> QED
  BY <1>1, <1>2, <1>3, <1>4, <1>5 DEF Next, MainStep, ConsumerStep

\* Every step keeps the type of the record.
LEMMA RecordStepTyped == ASSUME Typed, Next PROVE RecordTyped'
<1> USE DEF Typed, RecordTyped
<1>0. ASSUME record' = record \/ record' = Progress(FALSE) \/ record' = Progress(TRUE)
      PROVE  RecordTyped'
  BY <1>0, ProgressIs
<1>1. CASE Start
  BY <1>1 DEF Start, NoRecord, Records
<1>2. CASE Open \/ Join \/ StartChild \/ Wait
  BY <1>2, <1>0 DEF Open, Join, StartChild, Wait
<1>3. CASE Close
  BY <1>3, ProgressIs DEF Close, Records
<1>4. CASE Judge
  <2>1. IsFiniteSet(failures \cup {consumer.unit}) /\ finished + 1 \in Nat
    BY FS_AddElement DEF QueueTyped
  <2>2. Cardinality(failures') \in Nat /\ finished' \in Nat
    BY <1>4, <2>1, FS_CardinalityType DEF Judge, QueueTyped
  <2>3. ASSUME record' = [Progress(FALSE) EXCEPT !.finished = finished', !.failed = Cardinality(failures')]
        PROVE  RecordTyped'
    BY <2>2, <2>3, ProgressIs DEF Records
  <2> QED
    BY <1>4, <2>3 DEF Judge
<1>5. CASE \/ Killed \/ Skip \/ Capture \/ MarkComplete \/ CapturesRaise \/ CloseStop \/ Loop \/ Get
           \/ Poll \/ Pause \/ Continue \/ Terminate \/ Release \/ ChildEnds \/ TimePasses
  BY <1>5 DEF Killed, Skip, Capture, MarkComplete, CapturesRaise, CloseStop, Loop, Get, Poll, Pause,
              Continue, Terminate, Release, ChildEnds, TimePasses
<1> QED
  BY <1>1, <1>2, <1>3, <1>4, <1>5 DEF Next, MainStep, ConsumerStep

\* Every step keeps the type of the queue and its counters.
LEMMA QueueStepTyped == ASSUME Typed, Phased, Next PROVE QueueTyped'
<1> USE DEF Typed, QueueTyped
<1>0. ASSUME UNCHANGED queueVars PROVE QueueTyped'
  BY <1>0 DEF queueVars
<1>1. CASE Start
  <2>1. <<>> \in Seq(Units \cup {End}) /\ IsFiniteSet({})
    BY FS_EmptySet
  <2> QED
    BY <1>1, <2>1 DEF Start
<1>2. ASSUME Offer(Unit), main.pc \in Capturing, UNCHANGED <<failures, finished, stop, draining>>
      PROVE  QueueTyped'
  BY <1>2, AfterUnitIs, OfferIs
<1>3. CASE Skip
  BY <1>3, <1>2 DEF Skip, MainAt, Capturing
<1>4. CASE MarkComplete
  <2>1. CASE Offer(Unit)
    BY <1>4, <2>1, <1>2 DEF MarkComplete, MainAt, Capturing
  <2>2. CASE UNCHANGED <<queue, seen>>
    BY <1>4, <2>2, <1>0 DEF MarkComplete, queueVars
  <2> QED
    BY <1>4, <2>1, <2>2 DEF MarkComplete
<1>5. CASE Close
  BY <1>5 DEF Close
<1>6. CASE CloseStop
  <2>1. Append(queue, End) \in Seq(Units \cup {End}) /\ main.raised \in BOOLEAN
    BY DEF MainTyped, Mains
  <2> QED
    BY <1>6, <2>1 DEF CloseStop
<1>7. CASE Get
  <2>1. Tail(queue) \in Seq(Units \cup {End})
    BY <1>7 DEF Get
  <2> QED
    BY <1>7, <2>1 DEF Get
<1>8. CASE Judge
  <2>1. consumer.unit \in Units
    BY <1>8 DEF Judge, ConsumerAt, ConsumerTyped, Busy
  <2>2. failures' \in SUBSET Units /\ IsFiniteSet(failures')
    BY <1>8, <2>1, FS_AddElement DEF Judge
  <2> QED
    BY <1>8, <2>2 DEF Judge
<1>9. CASE \/ Killed \/ Open \/ Capture \/ CapturesRaise \/ Join \/ Loop \/ StartChild \/ Poll \/ Pause
           \/ Continue \/ Wait \/ Terminate \/ Release \/ ChildEnds \/ TimePasses
  BY <1>9, <1>0 DEF Killed, Open, Capture, CapturesRaise, Join, Loop, StartChild, Poll, Pause, Continue,
       Wait, Terminate, Release, ChildEnds, TimePasses
<1> QED
  BY <1>1, <1>3, <1>4, <1>5, <1>6, <1>7, <1>8, <1>9 DEF Next, MainStep, ConsumerStep

\* A checkpoint stays, and a receipt of a unit with a checkpoint.
FilesGoOn ==
    /\ marker \subseteq marker'
    /\ receipt \cap marker \subseteq receipt'
    /\ linux' = linux

\* Every step keeps the types of the files, and the files of what is committed.
LEMMA FilesStep == ASSUME Typed, Phased, Next PROVE FilesTyped' /\ FilesGoOn
<1> USE DEF Typed, FilesTyped, FilesGoOn
<1>1. CASE Capture
  BY <1>1 DEF Capture
<1>2. CASE MarkComplete
  <2>1. Unit \in Units
    BY <1>2, AfterUnitIs DEF MarkComplete, MainAt, Capturing
  <2> QED
    BY <1>2, <2>1 DEF MarkComplete
<1>3. CASE ChildEnds
  BY <1>3 DEF ChildEnds, ChildTyped
<1>4. CASE \/ Start \/ Killed \/ Open \/ Skip \/ CapturesRaise \/ Close \/ CloseStop \/ Join
           \/ Loop \/ Get \/ StartChild \/ Poll \/ Pause \/ Continue \/ Wait \/ Terminate \/ Release \/ Judge
           \/ TimePasses
  BY <1>4 DEF Start, Killed, Open, Skip, CapturesRaise, Close, CloseStop, Join, Loop, Get, StartChild,
       Poll, Pause, Continue, Wait, Terminate, Release, Judge, TimePasses, fileVars
<1> QED
  BY <1>1, <1>2, <1>3, <1>4 DEF Next, MainStep, ConsumerStep

\* Every step keeps the types.
LEMMA TypedStep == ASSUME Typed, Phased, Ordered, Next PROVE Typed'
BY MainStepTyped, ConsumerStepTyped, ChildStepTyped, RecordStepTyped, QueueStepTyped, FilesStep DEF Typed
-----------------------------------------------------------------------------
\* A consumer thread has a run that captures or closes.
LEMMA ConsumerIsOfRun ==
    ASSUME Typed, Phased, consumer.pc # "none"
    PROVE  Live /\ main.pc \in Capturing \cup Closing
BY DEF Typed, MainTyped, Mains, Phased, Live

\* What a step of the consumer thread leaves to the main thread.
LEMMA ConsumerLeaves ==
    ASSUME ConsumerStep
    PROVE  consumer.pc # "none" /\ UNCHANGED <<fileVars, linux, main, seen, stop, draining, runs>>
BY DEF ConsumerStep, Loop, Get, StartChild, Poll, Pause, Continue, Wait, Terminate, Release, Judge, ConsumerAt,
       queueVars

\* Every step keeps the phases of a run.
LEMMA PhasedStep == ASSUME Typed, Phased, Next PROVE Phased'
<1> USE DEF Typed
<1>0. /\ main \in Mains /\ consumer \in Consumers
      /\ \A d \in BOOLEAN : Progress(d).draining = draining /\ Progress(d).done = d
  BY ProgressIs DEF MainTyped, ConsumerTyped
<1>1. CASE Start
  BY <1>1 DEF Start, Phased, NoRecord, NoChild, ChildLives, Capturing, Closing
<1>2. ASSUME NEW x \in {0, 1, 2, 3}, Gone(x), UNCHANGED stop PROVE Phased'
  <2>1. main'.pc = "exited" /\ consumer'.pc = "none" /\ main'.raised = main.raised
    BY <1>2, GoneIs
  <2> QED
    BY <1>2, <2>1 DEF Phased, Capturing, Closing
<1>3. CASE Killed
  BY <1>2, <1>3 DEF Killed, queueVars
<1>4. CASE Open
  <2>1. CASE Gone(1)
    BY <1>2, <1>4, <2>1 DEF Open, queueVars
  <2>2. CASE record' = Progress(FALSE) /\ main' = [main EXCEPT !.pc = "unit"]
    <3>1. main'.pc = "unit" /\ main'.pos = main.pos /\ main'.exit = main.exit /\ main'.raised = main.raised
      BY <1>0, <2>2 DEF Mains
    <3>2. main.pc = "open" /\ main.pos > 0 /\ UNCHANGED <<draining, stop>>
      BY <1>4 DEF Open, MainAt, queueVars, Phased
    <3> QED
      BY <1>0, <2>2, <3>1, <3>2 DEF Phased, Capturing, Closing
  <2> QED
    BY <1>4, <2>1, <2>2 DEF Open
<1>5. CASE Skip \/ MarkComplete
  <2>1. main.pc \in Capturing
    BY <1>5 DEF Skip, MarkComplete, MainAt, Capturing
  <2>2. /\ main'.pc \in {"unit", "close"} /\ main'.pos > 0
        /\ main'.raised = main.raised /\ main'.exit = main.exit
    <3>1. /\ AfterUnit \in Mains /\ AfterUnit.pc \in {"unit", "close"} /\ AfterUnit.pos > 0
          /\ AfterUnit.raised = main.raised /\ AfterUnit.exit = main.exit
      BY <2>1, AfterUnitIs, PlanFacts DEF Mains
    <3>2. main' = AfterUnit \/ main' = [AfterUnit EXCEPT !.incomplete = @ + 1]
      BY <1>5 DEF Skip, MarkComplete
    <3> QED
      BY <3>1, <3>2 DEF Mains
  <2>3. UNCHANGED <<record, consumer, stop, draining>>
    BY <1>5 DEF Skip, MarkComplete
  <2> QED
    BY <2>1, <2>2, <2>3 DEF Phased, Capturing, Closing
<1>6. CASE Capture \/ CapturesRaise
  <2>1. main.pc \in {"unit", "captured", "close"} /\ UNCHANGED <<record, consumer, stop, draining>>
    BY <1>6 DEF Capture, CapturesRaise, MainAt, queueVars
  <2>2. main'.pc \in {"captured", "close"} /\ main'.pos = main.pos /\ main'.exit = main.exit
    BY <1>0, <1>6 DEF Capture, CapturesRaise, Mains
  <2> QED
    BY <2>1, <2>2 DEF Phased, Capturing, Closing
<1>7. CASE Close
  <2>1. main.pc = "close" /\ stop' = stop
    BY <1>7 DEF Close, MainAt
  <2>2. CASE Gone(1)
    <3>1. main'.pc = "exited" /\ consumer'.pc = "none"
      BY <2>2, GoneIs
    <3>2. ~stop
      BY <2>1 DEF Phased
    <3> QED
      BY <2>1, <3>1, <3>2 DEF Phased, Capturing, Closing
  <2>3. CASE main' = [main EXCEPT !.pc = "closing"]
    <3>1. main'.pc = "closing" /\ main'.pos = main.pos /\ main'.exit = main.exit
      BY <1>0, <2>3 DEF Mains
    <3>2. record' = [Progress(FALSE) EXCEPT !.draining = TRUE] \/ main'.pc = "exited"
      BY <1>7, GoneIs DEF Close
    <3>3. ~record'.done
      BY <3>1, <3>2, ProgressIs DEF Records
    <3>4. ~stop
      BY <2>1 DEF Phased
    <3> QED
      BY <2>1, <3>1, <3>3, <3>4 DEF Phased, Capturing, Closing
  <2> QED
    BY <1>7, <2>2, <2>3 DEF Close
<1>8. CASE CloseStop
  <2>1. main.pc = "closing" /\ stop' = main.raised /\ UNCHANGED <<record, consumer>>
    BY <1>8 DEF CloseStop, MainAt
  <2>2. main'.pc = "join" /\ main'.pos = main.pos /\ main'.raised = main.raised /\ main'.exit = main.exit
    BY <1>0, <1>8 DEF CloseStop, Mains
  <2> QED
    BY <2>1, <2>2 DEF Phased, Capturing, Closing
<1>9. CASE Join
  <2>1. \E x \in {0, 1, 2, 3} : Gone(x)
    BY <1>9 DEF Join, ExitCode
  <2>2. main.pc = "join" /\ stop' = stop
    BY <1>9 DEF Join, MainAt, queueVars
  <2>3. main'.pc = "exited" /\ consumer'.pc = "none" /\ main'.raised = main.raised
    BY <2>1, GoneIs
  <2> QED
    BY <2>2, <2>3 DEF Phased, Capturing, Closing
<1>10. CASE ConsumerStep
  <2>1. main.pc \in Capturing \cup Closing /\ consumer.pc # "none" /\ UNCHANGED <<main, stop, draining>>
    BY <1>10, ConsumerLeaves, ConsumerIsOfRun
  <2>2. main.pc \notin {"idle", "open", "exited"}
    BY <2>1 DEF Capturing, Closing
  <2>3. \/ record' = record \/ record' = Progress(FALSE)
        \/ record' = [Progress(FALSE) EXCEPT !.finished = finished', !.failed = Cardinality(failures')]
    BY <1>10 DEF ConsumerStep, Loop, Get, StartChild, Poll, Pause, Continue, Wait, Terminate, Release, Judge
  <2>4. /\ ~record'.done
        /\ ~draining /\ ~record.draining => ~record'.draining
    <3>1. ~record.done
      BY <2>2 DEF Phased
    <3> QED
      BY <2>3, <3>1, ProgressIs DEF Records
  <2> QED
    BY <2>1, <2>2, <2>4 DEF Phased
<1>11. CASE ChildEnds \/ TimePasses
  <2>1. UNCHANGED <<record, main, queueVars, consumer>> /\ (ChildLives' => ChildLives)
    BY <1>11 DEF ChildEnds, TimePasses, ChildLives, ChildTyped, Children
  <2> QED
    BY <2>1 DEF Phased, queueVars
<1> QED
  BY <1>1, <1>3, <1>4, <1>5, <1>6, <1>7, <1>8, <1>9, <1>10, <1>11 DEF Next, MainStep
-----------------------------------------------------------------------------
\* What the captures have passed after a unit: that one too.
LEMMA PassedNext ==
    ASSUME Typed, Phased, main.pc \in Capturing,
           main'.pc = AfterUnit.pc, main'.pos = AfterUnit.pos
    PROVE  \A i \in Passed' : i \in DOMAIN Plan /\ (i \in Passed \/ i = main.pos)
<1>1. main.pos \in 1..Len(Plan)
  BY AfterUnitIs, PlanFacts DEF Typed
<1>2. Passed = 1 .. main.pos - 1
  BY DEF Passed
<1>3. CASE main.pos < Len(Plan) /\ main'.pc = "unit" /\ main'.pos = main.pos + 1
  <2>1. Passed' = 1 .. main.pos
    BY <1>1, <1>3 DEF Passed, Capturing
  <2> QED
    BY <1>1, <1>2, <2>1, PlanFacts
<1>4. CASE main.pos = Len(Plan) /\ main'.pc = "close"
  <2>1. Passed' = 1 .. Len(Plan)
    BY <1>4, PlanFacts DEF Passed, Capturing
  <2>2. ASSUME NEW i \in 1 .. Len(Plan) PROVE i \in 1 .. main.pos - 1 \/ i = main.pos
    <3>1. i \in Nat /\ main.pos \in Nat /\ 1 <= i /\ i <= main.pos
      BY <1>1, <1>4, PlanFacts
    <3> QED
      BY <3>1
  <2> QED
    BY <1>2, <2>1, <2>2, PlanFacts
<1> QED
  BY <1>3, <1>4, AfterUnitIs DEF Typed

\* Every step keeps it that checkpoints are offered.
LEMMA OfferedStep == ASSUME Typed, Phased, Offered, Next PROVE Offered'
<1> USE DEF Typed
<1>0. main \in Mains
  BY DEF MainTyped
<1>1. ASSUME UNCHANGED <<main, marker, seen>> PROVE Offered'
  BY <1>1 DEF Offered, MainAt, Unit, Passed
<1>2. ASSUME seen' \subseteq marker', main'.pc \notin Capturing \cup Closing PROVE Offered'
  BY <1>2 DEF Offered, MainAt, Capturing
<1>3. CASE Start
  BY <1>2, <1>3 DEF Start, Capturing, Closing
<1>4. ASSUME NEW x \in {0, 1, 2, 3}, Gone(x), UNCHANGED <<marker, seen>> PROVE Offered'
  <2>1. main'.pc = "exited"
    BY <1>4, GoneIs
  <2> QED
    BY <1>2, <1>4, <2>1 DEF Offered, Capturing, Closing
<1>5. CASE Killed
  BY <1>4, <1>5 DEF Killed, fileVars, queueVars
<1>6. CASE Open
  <2>1. UNCHANGED <<marker, seen>> /\ main.pos = 1
    BY <1>6 DEF Open, fileVars, queueVars, Phased, MainAt
  <2>2. CASE main' = [main EXCEPT !.pc = "unit"]
    <3>1. main'.pc = "unit" /\ main'.pos = 1
      BY <1>0, <2>1, <2>2 DEF Mains
    <3>2. Passed' = {}
      BY <3>1 DEF Passed, Capturing
    <3> QED
      BY <2>1, <3>1, <3>2 DEF Offered, MainAt
  <2> QED
    BY <1>4, <1>6, <2>1, <2>2 DEF Open
<1>7. CASE Skip
  <2>1. main.pc \in Capturing /\ main.pc = "unit" /\ Unit \in marker /\ main' = AfterUnit /\ marker' = marker
    BY <1>7 DEF Skip, MainAt, Capturing, fileVars
  <2>2. seen' = seen \cup {Unit}
    BY <1>7 DEF Skip, Offer
  <2>3. Unit = Plan[main.pos] /\ main'.incomplete = main.incomplete /\ main'.raised = main.raised
        /\ main'.pc \in {"unit", "close"}
    BY <2>1, AfterUnitIs
  <2>4. \A i \in Passed' : i \in Passed \/ i = main.pos
    BY <2>1, PassedNext
  <2> QED
    BY <2>1, <2>2, <2>3, <2>4 DEF Offered, MainAt
<1>8. CASE Capture
  <2>1. main.pc = "unit" /\ Unit \notin marker /\ UNCHANGED <<marker, seen>>
    BY <1>8 DEF Capture, MainAt, queueVars
  <2>2. main'.pc = "captured" /\ main'.pos = main.pos /\ main'.incomplete = main.incomplete
        /\ main'.raised = main.raised
    BY <1>0, <1>8 DEF Capture, Mains
  <2>3. Unit' = Unit /\ Passed' = Passed
    BY <2>1, <2>2 DEF Unit, Passed, Capturing
  <2> QED
    BY <2>1, <2>2, <2>3 DEF Offered, MainAt, Capturing
<1>9. CASE MarkComplete
  <2>1. main.pc = "captured" /\ main.pc \in Capturing
    BY <1>9 DEF MarkComplete, MainAt, Capturing
  <2>2. AfterUnit \in Mains /\ AfterUnit.pc \in {"unit", "close"} /\ Unit = Plan[main.pos]
        /\ AfterUnit.incomplete = main.incomplete /\ AfterUnit.raised = main.raised
    BY <2>1, AfterUnitIs
  <2>3. CASE marker' = marker \cup {Unit} /\ Offer(Unit) /\ main' = AfterUnit
    <3>1. seen' = seen \cup {Unit}
      BY <2>3 DEF Offer
    <3>2. \A i \in Passed' : i \in Passed \/ i = main.pos
      BY <2>1, <2>3, PassedNext
    <3> QED
      BY <2>1, <2>2, <2>3, <3>1, <3>2 DEF Offered, MainAt
  <2>4. CASE main' = [AfterUnit EXCEPT !.incomplete = @ + 1] /\ UNCHANGED <<marker, seen>>
    <3>1. main'.pc = AfterUnit.pc /\ main'.pos = AfterUnit.pos /\ main'.raised = main.raised
          /\ main'.incomplete = main.incomplete + 1
      BY <2>2, <2>4 DEF Mains
    <3>2. main'.incomplete # 0
      BY <1>0, <3>1 DEF Mains
    <3>3. \A i \in Passed' : i \in Passed \/ i = main.pos
      BY <2>1, <3>1, PassedNext
    <3>4. Unit \notin marker
      BY <2>1 DEF Offered, MainAt
    <3> QED
      BY <2>1, <2>2, <2>4, <3>1, <3>2, <3>3, <3>4 DEF Offered, MainAt
  <2> QED
    BY <1>9, <2>3, <2>4 DEF MarkComplete
<1>10. CASE CapturesRaise
  <2>1. UNCHANGED <<marker, seen>> /\ main'.pc = "close" /\ main'.raised
    BY <1>0, <1>10 DEF CapturesRaise, Mains, fileVars, queueVars
  <2> QED
    BY <2>1 DEF Offered, MainAt
<1>11. CASE Close \/ CloseStop
  <2>1. UNCHANGED <<marker, seen>> /\ main.pc \in {"close", "closing"}
    BY <1>11 DEF Close, CloseStop, MainAt, fileVars
  <2>2. ASSUME NEW p \in {"closing", "join"}, main' = [main EXCEPT !.pc = p] PROVE Offered'
    <3>1. main'.pc = p /\ main'.incomplete = main.incomplete /\ main'.raised = main.raised
      BY <1>0, <2>2 DEF Mains
    <3>2. Passed' = DOMAIN Plan /\ Passed = DOMAIN Plan
      BY <2>1, <3>1 DEF Passed, Capturing
    <3> QED
      BY <2>1, <3>1, <3>2 DEF Offered, MainAt, Closing
  <2> QED
    BY <1>4, <1>11, <2>1, <2>2 DEF Close, CloseStop
<1>12. CASE Join
  <2>1. \E x \in {0, 1, 2, 3} : Gone(x)
    BY <1>12 DEF Join, ExitCode
  <2> QED
    BY <1>4, <1>12, <2>1 DEF Join, fileVars, queueVars
<1>13. CASE ConsumerStep
  BY <1>1, <1>13, ConsumerLeaves DEF fileVars
<1>14. CASE ChildEnds \/ TimePasses
  BY <1>1, <1>14 DEF ChildEnds, TimePasses, fileVars, queueVars
<1> QED
  BY <1>3, <1>5, <1>6, <1>7, <1>8, <1>9, <1>10, <1>11, <1>12, <1>13, <1>14 DEF Next, MainStep
-----------------------------------------------------------------------------
\* What a step of the main thread leaves of the queue, and of the consumer.
QueueLeft == UNCHANGED <<queue, seen, stop, consumer, failures, finished>>

\* Every step keeps the order of the queue.
LEMMA OrderedStep == ASSUME Typed, Phased, Ordered, Next PROVE Ordered'
<1> USE DEF Typed
<1>0. main \in Mains /\ consumer \in Consumers /\ queue \in Seq(Units \cup {End})
  BY DEF MainTyped, ConsumerTyped, QueueTyped
<1>1. ASSUME QueueLeft, Live' => Live, MainAt("join") <=> MainAt("join")' PROVE Ordered'
  BY <1>1 DEF QueueLeft, Ordered, Busy, ConsumerEnded, MainAt, Live
<1>2. ASSUME main'.pc \in {"idle", "exited"}, consumer'.pc = "none" PROVE Ordered'
  BY <1>2 DEF Ordered, Live, MainAt, ConsumerEnded
<1>3. CASE Start
  <2>1. queue' = <<>> /\ main'.pc = "open" /\ consumer'.pc = "none"
    BY <1>3 DEF Start
  <2> QED
    BY <2>1 DEF Ordered, MainAt, ConsumerEnded, Busy
<1>4. ASSUME NEW x \in {0, 1, 2, 3}, Gone(x) PROVE Ordered'
  BY <1>2, <1>4, GoneIs
<1>5. CASE Killed
  BY <1>4, <1>5 DEF Killed
<1>6. CASE Open
  <2>1. CASE main' = [main EXCEPT !.pc = "unit"] /\ consumer' = [consumer EXCEPT !.pc = "loop"]
    <3>1. main'.pc = "unit" /\ consumer'.pc = "loop" /\ queue' = <<>>
      BY <1>0, <1>6, <2>1 DEF Mains, Consumers, Open, Phased, queueVars, MainAt
    <3> QED
      BY <3>1 DEF Ordered, MainAt, ConsumerEnded, Busy
  <2> QED
    BY <1>4, <1>6, <2>1 DEF Open
<1>7. ASSUME main.pc \in Capturing, main'.pc \in {"unit", "close"}, Offer(Unit), UNCHANGED <<stop, consumer>>
      PROVE  Ordered'
  <2>1. /\ seen \subseteq seen' /\ Unit \in seen'
        /\ queue' = queue \/ queue' = Append(queue, Unit)
    BY <1>7, AfterUnitIs, OfferIs
  <2>2. \A i \in DOMAIN queue' : (i \in DOMAIN queue /\ queue'[i] = queue[i]) \/ queue'[i] = Unit
    BY <1>0, <2>1
  <2>3. \A i \in DOMAIN queue : queue[i] \in seen
    BY <1>7 DEF Ordered, Live, Capturing, MainAt
  <2>4. ~MainAt("join") /\ ~MainAt("join")' /\ Live
    BY <1>7 DEF MainAt, Capturing, Live
  <2> QED
    BY <1>7, <2>1, <2>2, <2>3, <2>4 DEF Ordered, Busy, ConsumerEnded
<1>8. CASE Skip
  <2>1. main.pc \in Capturing /\ main'.pc \in {"unit", "close"}
    BY <1>8, AfterUnitIs DEF Skip, MainAt, Capturing
  <2> QED
    BY <1>7, <1>8, <2>1 DEF Skip
<1>9. CASE MarkComplete
  <2>1. main.pc \in Capturing /\ AfterUnit \in Mains /\ AfterUnit.pc \in {"unit", "close"}
    BY <1>9, AfterUnitIs DEF MarkComplete, MainAt, Capturing
  <2>2. main'.pc \in {"unit", "close"}
    BY <1>9, <2>1 DEF MarkComplete, Mains
  <2>3. CASE Offer(Unit)
    BY <1>7, <1>9, <2>1, <2>2, <2>3 DEF MarkComplete
  <2>4. CASE UNCHANGED <<queue, seen>>
    BY <1>1, <1>9, <2>1, <2>2, <2>4 DEF MarkComplete, QueueLeft, MainAt, Live, Capturing
  <2> QED
    BY <1>9, <2>3, <2>4 DEF MarkComplete
<1>10. CASE Capture \/ CapturesRaise
  <2>1. main.pc \in {"unit", "captured", "close"} /\ main'.pc \in {"captured", "close"}
    BY <1>0, <1>10 DEF Capture, CapturesRaise, MainAt, Mains
  <2> QED
    BY <1>1, <1>10, <2>1 DEF Capture, CapturesRaise, queueVars, QueueLeft, MainAt, Live
<1>11. CASE Close
  <2>1. CASE main' = [main EXCEPT !.pc = "closing"] /\ UNCHANGED consumer
    <3>1. main.pc = "close" /\ main'.pc = "closing"
      BY <1>0, <1>11, <2>1 DEF Close, MainAt, Mains
    <3> QED
      BY <1>1, <1>11, <2>1, <3>1 DEF Close, QueueLeft, MainAt, Live
  <2> QED
    BY <1>4, <1>11, <2>1 DEF Close
<1>12. CASE CloseStop
  <2>1. main.pc = "closing" /\ main'.pc = "join" /\ stop' = main.raised /\ queue' = Append(queue, End)
        /\ UNCHANGED <<seen, consumer>>
    BY <1>0, <1>12 DEF CloseStop, MainAt, Mains
  <2>2. ~stop
    BY <2>1 DEF Phased
  <2>3. \A i \in DOMAIN queue : queue[i] \in seen
    BY <2>1 DEF Ordered, Live, MainAt
  <2>4. /\ Len(queue') = Len(queue) + 1 /\ queue' # <<>> /\ queue'[Len(queue')] = End
        /\ \A i \in DOMAIN queue' : i = Len(queue') \/ (i \in DOMAIN queue /\ queue'[i] = queue[i])
    BY <1>0, <2>1
  <2>5. ~(ConsumerEnded /\ ~consumer.error)
    BY <2>1, <2>2 DEF Ordered, MainAt
  <2> QED
    BY <2>1, <2>3, <2>4, <2>5 DEF Ordered, Busy, ConsumerEnded, MainAt, Live
<1>13. CASE Join
  <2>1. \E x \in {0, 1, 2, 3} : Gone(x)
    BY <1>13 DEF Join, ExitCode
  <2> QED
    BY <1>4, <2>1
<1>14. CASE Get
  <2>1. /\ queue # <<>> /\ queue' = Tail(queue) /\ consumer.pc = "get" /\ UNCHANGED <<main, seen, stop>>
        /\ Live
    BY <1>14, ConsumerIsOfRun DEF Get, ConsumerAt
  <2>2. /\ Len(queue') = Len(queue) - 1 /\ Len(queue) \in Nat \ {0} /\ 1 \in DOMAIN queue
        /\ DOMAIN queue' = 1 .. Len(queue) - 1
        /\ \A i \in DOMAIN queue' : i + 1 \in DOMAIN queue /\ queue'[i] = queue[i + 1]
        /\ Head(queue) = queue[1]
    BY <1>0, <2>1
  <2>3. \A i \in DOMAIN queue' :
           queue'[i] \in seen \/ (queue'[i] = End /\ i = Len(queue') /\ MainAt("join"))
    BY <2>1, <2>2 DEF Ordered
  <2>4. MainAt("join") /\ queue' # <<>> => queue'[Len(queue')] = End
    <3>1. SUFFICES ASSUME MainAt("join"), queue' # <<>> PROVE queue'[Len(queue')] = End
      OBVIOUS
    <3>2. queue[Len(queue)] = End
      BY <2>1, <3>1 DEF Ordered
    <3>3. Len(queue') \in DOMAIN queue'
      BY <1>0, <2>1, <2>2, <3>1
    <3> QED
      BY <2>2, <3>2, <3>3
  <2>5. CASE Head(queue) = End
    <3>1. Head(queue) \notin seen
      BY <2>5, CaptureRunAssumption DEF QueueTyped
    <3>2. MainAt("join") /\ Len(queue) = 1
      BY <2>1, <2>2, <3>1 DEF Ordered
    <3>3. queue' = <<>>
      BY <1>0, <2>1, <2>2, <3>2
    <3>4. consumer'.pc = "ended"
      BY <1>0, <1>14, <2>5 DEF Get, Consumers
    <3> QED
      BY <2>1, <3>2, <3>3, <3>4 DEF Ordered, Busy, ConsumerEnded, MainAt, Live
  <2>6. CASE Head(queue) # End
    <3>1. consumer'.pc = "start" /\ consumer'.unit = Head(queue)
      BY <1>0, <1>14, <2>6 DEF Get, Consumers
    <3>2. Head(queue) \in seen
      BY <2>1, <2>2, <2>6 DEF Ordered
    <3>3. MainAt("join") => queue' # <<>>
      <4>1. SUFFICES ASSUME MainAt("join"), queue' = <<>> PROVE FALSE
        OBVIOUS
      <4>2. Len(queue) = 1 /\ queue[Len(queue)] = End
        BY <2>1, <2>2, <4>1 DEF Ordered
      <4> QED
        BY <2>2, <2>6, <4>2
    <3> QED
      BY <2>1, <2>3, <2>4, <3>1, <3>2, <3>3 DEF Ordered, Busy, ConsumerEnded, MainAt, Live
  <2> QED
    BY <2>5, <2>6
<1>15. ASSUME ConsumerStep, ~Get PROVE Ordered'
  <2>1. UNCHANGED <<queue, main, seen, stop>> /\ Live /\ consumer.pc \notin {"none", "ended"}
    BY <1>15, ConsumerLeaves, ConsumerIsOfRun
       DEF ConsumerStep, Loop, StartChild, Poll, Pause, Continue, Wait, Terminate, Release, Judge, queueVars, ConsumerAt
  <2>2. Busy' => Busy /\ consumer'.unit = consumer.unit
    BY <1>0, <1>15 DEF ConsumerStep, Loop, StartChild, Poll, Pause, Continue, Wait, Terminate, Release, Judge,
       ConsumerAt, ConsumerGoes, ConsumerDies, ConsumerFails, Released, Busy, Consumers
  <2>3. consumer'.pc = "ended" /\ ~consumer'.error => stop
    BY <1>0, <1>15 DEF ConsumerStep, Loop, StartChild, Poll, Pause, Continue, Wait, Terminate, Release, Judge,
       ConsumerGoes, ConsumerDies, ConsumerFails, Released, Consumers
  <2>4. ~ConsumerEnded
    BY <2>1 DEF ConsumerEnded
  <2> QED
    BY <2>1, <2>2, <2>3, <2>4 DEF Ordered, ConsumerEnded, MainAt, Live
<1>16. CASE ChildEnds \/ TimePasses
  BY <1>1, <1>16 DEF ChildEnds, TimePasses, queueVars, QueueLeft, MainAt, Live
<1> QED
  BY <1>3, <1>5, <1>6, <1>8, <1>9, <1>10, <1>11, <1>12, <1>13, <1>14, <1>15, <1>16 DEF Next, MainStep
-----------------------------------------------------------------------------
\* What becomes of a unit that was offered; how many were.
Placed(u) == \/ \E i \in DOMAIN queue : queue[i] = u
             \/ Busy /\ consumer.unit = u
             \/ u \in failures \cup receipt
Working == IF Busy THEN 1 ELSE 0

LEMMA AccountedIs ==
    Accounted <=> (Live /\ ~consumer.error => /\ \A u \in seen : Placed(u)
                                              /\ Cardinality(seen) = finished + Waiting + Working)
BY DEF Accounted, Placed, Working

\* The numbers are numbers.
LEMMA Numbers ==
    ASSUME Typed
    PROVE  /\ Cardinality(seen) \in Nat /\ finished \in Nat /\ Len(queue) \in Nat
           /\ DOMAIN queue = 1 .. Len(queue) /\ Working \in {0, 1}
           /\ Waiting \in Int /\ (~MainAt("join") => Waiting = Len(queue))
BY FS_CardinalityType DEF Typed, QueueTyped, Working, Waiting

\* Every step keeps it that the units are accounted for.
LEMMA AccountedStep ==
    ASSUME Typed, Phased, Offered, Ordered, Accounted, Next
    PROVE  Accounted'
<1> USE DEF Typed
<1>0. /\ main \in Mains /\ consumer \in Consumers /\ queue \in Seq(Units \cup {End})
      /\ seen \cap receipt \subseteq receipt'
  BY FilesStep DEF MainTyped, ConsumerTyped, QueueTyped, FilesGoOn, Offered
<1>1. ASSUME QueueLeft, Live' => Live, MainAt("join") <=> MainAt("join")' PROVE Accounted'
  <2>1. Waiting' = Waiting /\ Working' = Working /\ (Busy' <=> Busy)
    BY <1>1 DEF QueueLeft, Waiting, Working, Busy, MainAt
  <2>2. \A u \in seen : Placed(u) => Placed(u)'
    BY <1>0, <1>1, <2>1 DEF QueueLeft, Placed
  <2> QED
    BY <1>1, <2>1, <2>2, AccountedIs DEF QueueLeft, Live, Accounted, Placed, Working
<1>2. ASSUME main'.pc \in {"idle", "exited"} PROVE Accounted'
  BY <1>2 DEF Accounted, Live
<1>3. ASSUME queue' = <<>>, seen' = {}, finished' = 0, consumer'.pc \in {"none", "loop"} PROVE Accounted'
  <2>1. Waiting' = 0 /\ ~Busy' /\ Cardinality(seen') = 0
    BY <1>3, FS_EmptySet DEF Waiting, Busy
  <2> QED
    BY <1>3, <2>1 DEF Accounted
<1>4. CASE Start
  BY <1>3, <1>4 DEF Start
<1>5. ASSUME NEW x \in {0, 1, 2, 3}, Gone(x) PROVE Accounted'
  BY <1>2, <1>5, GoneIs
<1>6. CASE Killed
  BY <1>5, <1>6 DEF Killed
<1>7. CASE Open
  <2>1. CASE consumer' = [consumer EXCEPT !.pc = "loop"]
    <3>1. consumer'.pc = "loop" /\ queue' = <<>> /\ seen' = {} /\ finished' = 0
      BY <1>0, <1>7, <2>1 DEF Consumers, Open, Phased, queueVars, MainAt
    <3> QED
      BY <1>3, <3>1
  <2> QED
    BY <1>5, <1>7, <2>1 DEF Open
<1>8. ASSUME main.pc \in Capturing, main'.pc \in {"unit", "close"}, Offer(Unit),
             UNCHANGED <<consumer, failures, finished>>
      PROVE  Accounted'
  <2>1. Live /\ ~MainAt("join") /\ ~MainAt("join")'
    BY <1>8 DEF Live, MainAt, Capturing
  <2>2. /\ seen' = seen \cup {Unit}
        /\ \/ Unit \in seen /\ queue' = queue
           \/ /\ Unit \notin seen /\ queue' = Append(queue, Unit)
              /\ Cardinality(seen') = Cardinality(seen) + 1
    BY <1>8, AfterUnitIs, OfferIs
  <2>3. Working' = Working /\ (Busy' <=> Busy) /\ Waiting = Len(queue) /\ Waiting' = Len(queue')
    BY <1>8, <2>1 DEF Working, Busy, Waiting
  <2>4. SUFFICES ASSUME ~consumer.error PROVE Accounted'
    BY <1>8 DEF Accounted
  <2>5. (\A u \in seen : Placed(u)) /\ Cardinality(seen) = finished + Waiting + Working
    BY <2>1, <2>4, AccountedIs
  <2>6. CASE Unit \in seen
    <3>1. seen' = seen /\ queue' = queue
      BY <2>2, <2>6
    <3>2. \A u \in seen : Placed(u) => Placed(u)'
      BY <1>0, <1>8, <2>3, <3>1 DEF Placed
    <3> QED
      BY <1>8, <2>3, <2>5, <3>1, <3>2 DEF Accounted, Placed, Working
  <2>7. CASE Unit \notin seen
    <3>1. /\ queue' = Append(queue, Unit) /\ Cardinality(seen') = Cardinality(seen) + 1
          /\ Len(queue') = Len(queue) + 1
      BY <1>0, <2>2, <2>7
    <3>2. /\ \A i \in DOMAIN queue : i \in DOMAIN queue' /\ queue'[i] = queue[i]
          /\ Len(queue') \in DOMAIN queue' /\ queue'[Len(queue')] = Unit
      BY <1>0, <3>1
    <3>3. \A u \in seen : Placed(u) => Placed(u)'
      BY <1>0, <1>8, <2>3, <3>2 DEF Placed
    <3>4. \A u \in seen' \ seen : Placed(u)'
      BY <2>2, <3>2 DEF Placed
    <3>5. Cardinality(seen') = finished' + Waiting' + Working'
      BY <1>8, <2>3, <2>5, <3>1, Numbers
    <3> QED
      BY <2>2, <2>5, <3>3, <3>4, <3>5 DEF Accounted, Placed, Working
  <2> QED
    BY <2>6, <2>7
<1>9. CASE Skip
  <2>1. main.pc \in Capturing /\ main'.pc \in {"unit", "close"}
    BY <1>9, AfterUnitIs DEF Skip, MainAt, Capturing
  <2> QED
    BY <1>8, <1>9, <2>1 DEF Skip
<1>10. CASE MarkComplete
  <2>1. main.pc \in Capturing /\ AfterUnit \in Mains /\ AfterUnit.pc \in {"unit", "close"}
    BY <1>10, AfterUnitIs DEF MarkComplete, MainAt, Capturing
  <2>2. main'.pc \in {"unit", "close"}
    BY <1>10, <2>1 DEF MarkComplete, Mains
  <2>3. CASE Offer(Unit)
    BY <1>8, <1>10, <2>1, <2>2, <2>3 DEF MarkComplete
  <2>4. CASE UNCHANGED <<queue, seen>>
    BY <1>1, <1>10, <2>1, <2>2, <2>4 DEF MarkComplete, QueueLeft, MainAt, Live, Capturing
  <2> QED
    BY <1>10, <2>3, <2>4 DEF MarkComplete
<1>11. CASE Capture \/ CapturesRaise
  <2>1. main.pc \in {"unit", "captured", "close"} /\ main'.pc \in {"captured", "close"}
    BY <1>0, <1>11 DEF Capture, CapturesRaise, MainAt, Mains
  <2> QED
    BY <1>1, <1>11, <2>1 DEF Capture, CapturesRaise, queueVars, QueueLeft, MainAt, Live
<1>12. CASE Close
  <2>1. CASE main' = [main EXCEPT !.pc = "closing"] /\ UNCHANGED consumer
    <3>1. main.pc = "close" /\ main'.pc = "closing"
      BY <1>0, <1>12, <2>1 DEF Close, MainAt, Mains
    <3> QED
      BY <1>1, <1>12, <2>1, <3>1 DEF Close, QueueLeft, MainAt, Live
  <2> QED
    BY <1>5, <1>12, <2>1 DEF Close
<1>13. CASE CloseStop
  <2>1. main.pc = "closing" /\ main'.pc = "join" /\ queue' = Append(queue, End)
        /\ UNCHANGED <<seen, consumer, failures, finished>>
    BY <1>0, <1>13 DEF CloseStop, MainAt, Mains
  <2>2. /\ Len(queue') = Len(queue) + 1 /\ queue' # <<>>
        /\ \A i \in DOMAIN queue : i \in DOMAIN queue' /\ queue'[i] = queue[i]
    BY <1>0, <2>1
  <2>3. Waiting' = Waiting /\ Working' = Working /\ (Busy' <=> Busy) /\ Live
    BY <1>0, <2>1, <2>2 DEF Waiting, Working, Busy, MainAt, Live
  <2>4. \A u \in seen : Placed(u) => Placed(u)'
    BY <1>0, <2>1, <2>2, <2>3 DEF Placed
  <2> QED
    BY <2>1, <2>3, <2>4 DEF Accounted, Placed, Working
<1>14. CASE Join
  <2>1. \E x \in {0, 1, 2, 3} : Gone(x)
    BY <1>14 DEF Join, ExitCode
  <2> QED
    BY <1>5, <2>1
<1>15. CASE Get
  <2>1. /\ queue # <<>> /\ queue' = Tail(queue) /\ consumer.pc = "get" /\ Live
        /\ UNCHANGED <<main, seen, failures, finished>>
    BY <1>15, ConsumerIsOfRun DEF Get, ConsumerAt
  <2>2. /\ Len(queue') = Len(queue) - 1 /\ Len(queue) \in Nat \ {0} /\ 1 \in DOMAIN queue
        /\ DOMAIN queue' = 1 .. Len(queue) - 1 /\ DOMAIN queue = 1 .. Len(queue)
        /\ \A i \in DOMAIN queue' : queue'[i] = queue[i + 1]
        /\ Head(queue) = queue[1]
    BY <1>0, <2>1
  <2>3. SUFFICES ASSUME ~consumer.error PROVE Accounted'
    BY <1>0, <1>15 DEF Get, Accounted, Consumers
  <2>4. (\A u \in seen : Placed(u)) /\ Cardinality(seen) = finished + Waiting + Working
    BY <2>1, <2>3, AccountedIs
  <2>5. ~Busy /\ Working = 0
    BY <2>1 DEF Busy, Working
  <2>6. \A i \in DOMAIN queue : queue[i] = Head(queue) \/ \E k \in DOMAIN queue' : queue'[k] = queue[i]
    <3> SUFFICES ASSUME NEW i \in DOMAIN queue, i # 1 PROVE \E k \in DOMAIN queue' : queue'[k] = queue[i]
      BY <2>2
    <3>1. i - 1 \in DOMAIN queue' /\ queue'[i - 1] = queue[i]
      BY <2>2
    <3> QED
      BY <3>1
  <2>7. CASE Head(queue) = End
    <3>1. Head(queue) \notin seen
      BY <2>7, CaptureRunAssumption DEF QueueTyped
    <3>2. MainAt("join") /\ Len(queue) = 1
      BY <2>1, <2>2, <3>1 DEF Ordered
    <3>3. queue' = <<>> /\ Waiting = 0 /\ Waiting' = 0
      BY <1>0, <2>1, <2>2, <3>2 DEF Waiting
    <3>4. consumer'.pc = "ended"
      BY <1>0, <1>15, <2>7 DEF Get, Consumers
    <3>5. ~Busy' /\ Working' = 0
      BY <3>4 DEF Busy, Working
    <3>6. \A u \in seen : Placed(u)'
      BY <1>0, <2>1, <2>4, <2>5, <2>6, <3>1 DEF Placed
    <3> QED
      BY <2>1, <2>4, <2>5, <3>3, <3>5, <3>6 DEF Accounted, Placed, Working
  <2>8. CASE Head(queue) # End
    <3>1. consumer'.pc = "start" /\ consumer'.unit = Head(queue)
      BY <1>0, <1>15, <2>8 DEF Get, Consumers
    <3>2. Busy' /\ Working' = 1
      BY <3>1 DEF Busy, Working
    <3>3. MainAt("join") => queue' # <<>>
      <4>1. SUFFICES ASSUME MainAt("join"), queue' = <<>> PROVE FALSE
        OBVIOUS
      <4>2. Len(queue) = 1 /\ queue[Len(queue)] = End
        BY <2>1, <2>2, <4>1 DEF Ordered
      <4> QED
        BY <2>2, <2>8, <4>2
    <3>4. Waiting' = Waiting - 1
      BY <2>1, <2>2, <3>3 DEF Waiting, MainAt
    <3>5. \A u \in seen : Placed(u)'
      BY <1>0, <2>1, <2>4, <2>5, <2>6, <3>1, <3>2 DEF Placed
    <3>6. Waiting \in Int /\ finished \in Int
      BY Numbers
    <3>7. Cardinality(seen) = finished + Waiting' + Working'
      BY <2>4, <2>5, <3>2, <3>4, <3>6
    <3> QED
      BY <2>1, <3>5, <3>7 DEF Accounted, Placed, Working
  <2> QED
    BY <2>7, <2>8
<1>16. CASE Judge
  <2>1. /\ Live /\ consumer.pc = "judge" /\ UNCHANGED <<main, queue, seen>> /\ finished' = finished + 1
        /\ consumer.unit \in failures' \cup receipt /\ failures \subseteq failures'
    BY <1>16, ConsumerIsOfRun DEF Judge, ConsumerAt
  <2>2. CASE ConsumerDies
    BY <1>0, <2>2 DEF ConsumerDies, Consumers, Accounted
  <2>3. CASE consumer' = [consumer EXCEPT !.pc = "loop", !.unit = NoUnit]
    <3>1. consumer'.pc = "loop" /\ consumer'.error = consumer.error
      BY <1>0, <2>3 DEF Consumers
    <3>2. Busy /\ ~Busy' /\ Working = 1 /\ Working' = 0 /\ Waiting' = Waiting
      BY <2>1, <3>1 DEF Busy, Working, Waiting, MainAt
    <3>3. \A u \in seen : Placed(u) => Placed(u)'
      BY <1>0, <2>1, <3>2 DEF Placed
    <3>4. Waiting \in Int /\ finished \in Int
      BY Numbers
    <3>5. finished + Waiting + Working = finished' + Waiting' + Working'
      BY <2>1, <3>2, <3>4
    <3> QED
      BY <2>1, <3>1, <3>3, <3>5 DEF Accounted, Placed, Working
  <2> QED
    BY <1>16, <2>2, <2>3 DEF Judge
<1>17. ASSUME ConsumerStep, ~Get, ~Judge PROVE Accounted'
  <2>1. UNCHANGED <<queue, main, seen, failures, finished>> /\ Live
    BY <1>17, ConsumerLeaves, ConsumerIsOfRun
       DEF ConsumerStep, Loop, StartChild, Poll, Pause, Continue, Wait, Terminate, Release, queueVars
  <2>2. consumer'.error \/ ((Busy' <=> Busy) /\ consumer'.unit = consumer.unit /\ consumer'.error = consumer.error)
    BY <1>0, <1>17 DEF ConsumerStep, Loop, StartChild, Poll, Pause, Continue, Wait, Terminate, Release,
       ConsumerAt, ConsumerGoes, ConsumerDies, ConsumerFails, Released, Busy, Consumers
  <2>3. CASE consumer'.error
    BY <2>3 DEF Accounted
  <2>4. CASE (Busy' <=> Busy) /\ consumer'.unit = consumer.unit /\ consumer'.error = consumer.error
    <3>1. Working' = Working /\ Waiting' = Waiting
      BY <2>1, <2>4 DEF Working, Waiting, MainAt
    <3>2. \A u \in seen : Placed(u) => Placed(u)'
      BY <1>0, <2>1, <2>4 DEF Placed
    <3> QED
      BY <2>1, <2>4, <3>1, <3>2 DEF Accounted, Placed, Working
  <2> QED
    BY <2>2, <2>3, <2>4
<1>18. CASE ChildEnds \/ TimePasses
  BY <1>1, <1>18 DEF ChildEnds, TimePasses, queueVars, QueueLeft, MainAt, Live
<1> QED
  BY <1>4, <1>6, <1>7, <1>9, <1>10, <1>11, <1>12, <1>13, <1>14, <1>15, <1>16, <1>17, <1>18 DEF Next, MainStep

-----------------------------------------------------------------------------
\* Every step keeps the extraction process watched.
LEMMA WatchedStep ==
    ASSUME Typed, Phased, Offered, Ordered, Watched, Next
    PROVE  Watched'
<1> USE DEF Typed
<1>0. /\ main \in Mains /\ consumer \in Consumers /\ child \in Children
      /\ marker \subseteq marker'
  BY FilesStep DEF MainTyped, ConsumerTyped, ChildTyped, FilesGoOn
<1>1. ASSUME child'.unit = child.unit, child'.state = "none" <=> child.state = "none",
             ChildLives' => ChildLives, Live' => Live,
             ChildLives' => \/ consumer'.pc \notin {"loop", "get", "start", "judge", "release", "ended"}
                            \/ consumer'.pc = consumer.pc /\ consumer'.error = consumer.error
                            \/ consumer'.pc \in {"release", "ended"} /\ consumer'.error,
             \/ consumer'.error \/ ~Live'
             \/ /\ consumer'.left = consumer.left /\ consumer'.error = consumer.error
                /\ failures \subseteq failures'
                /\ ConsumerAt("judge") => UNCHANGED <<consumer, child>>
      PROVE  Watched'
  BY <1>0, <1>1 DEF Watched, ConsumerAt
<1>2. ASSUME UNCHANGED <<child, consumer, failures>>, Live' => Live PROVE Watched'
  BY <1>1, <1>2 DEF ChildLives
<1>3. CASE Start
  BY <1>3 DEF Start, Watched, NoChild, ChildLives
<1>4. ASSUME NEW x \in {0, 1, 2, 3}, Gone(x), UNCHANGED child PROVE Watched'
  <2>1. consumer'.pc = "none" /\ ~Live'
    BY <1>4, GoneIs DEF Live
  <2> QED
    BY <1>1, <1>4, <2>1 DEF ChildLives
<1>5. CASE Killed
  BY <1>4, <1>5 DEF Killed
<1>6. CASE Open
  <2>1. ~ChildLives /\ UNCHANGED <<child, failures>> /\ Live /\ ~ConsumerAt("judge")
    BY <1>6 DEF Open, MainAt, Phased, Live, queueVars, ConsumerAt
  <2>2. CASE consumer' = [consumer EXCEPT !.pc = "loop"]
    <3>1. consumer'.left = consumer.left /\ consumer'.error = consumer.error
      BY <1>0, <2>2 DEF Consumers
    <3> QED
      BY <1>1, <2>1, <3>1 DEF ChildLives
  <2> QED
    BY <1>4, <1>6, <2>1, <2>2 DEF Open
<1>7. CASE Close
  <2>1. UNCHANGED <<child, failures>> /\ Live
    BY <1>7 DEF Close, MainAt, Live
  <2> QED
    BY <1>2, <1>4, <1>7, <2>1 DEF Close
<1>8. CASE Join
  <2>1. \E x \in {0, 1, 2, 3} : Gone(x)
    BY <1>8 DEF Join, ExitCode
  <2> QED
    BY <1>4, <1>8, <2>1 DEF Join
<1>9. CASE Skip \/ Capture \/ MarkComplete \/ CapturesRaise \/ CloseStop
  <2>1. UNCHANGED <<child, consumer, failures>> /\ Live
    BY <1>9 DEF Skip, Capture, MarkComplete, CapturesRaise, CloseStop, queueVars, MainAt, Live
  <2> QED
    BY <1>2, <2>1
<1>10. ASSUME ConsumerStep PROVE Live /\ Live'
  BY <1>10, ConsumerLeaves, ConsumerIsOfRun DEF Live
<1>11. CASE Loop \/ Get
  <2>1. /\ UNCHANGED <<child, failures>> /\ consumer.pc \in {"loop", "get"}
        /\ consumer'.left = consumer.left /\ consumer'.error = consumer.error
    BY <1>0, <1>11 DEF Loop, Get, ConsumerAt, ConsumerGoes, Consumers, queueVars
  <2>2. ~ChildLives
    BY <2>1 DEF Watched
  <2> QED
    BY <1>1, <1>10, <1>11, <2>1, <2>2 DEF ChildLives, ConsumerAt, ConsumerStep
<1>12. CASE StartChild
  <2>1. /\ consumer.pc = "start" /\ ~ChildLives /\ consumer.unit \in seen /\ Live /\ Live'
        /\ failures' = failures /\ ~ConsumerAt("judge")
    BY <1>10, <1>12 DEF StartChild, ConsumerAt, Watched, Ordered, Busy, ConsumerStep, queueVars
  <2>2. CASE child' = child /\ ConsumerDies
    <3>1. consumer'.error
      BY <1>0, <2>2 DEF ConsumerDies, Consumers
    <3> QED
      BY <1>1, <2>1, <2>2, <3>1 DEF ChildLives
  <2>3. CASE child' = [state |-> "running", unit |-> consumer.unit, late |-> FALSE] /\ ConsumerGoes("poll")
    <3>1. consumer'.pc = "poll" /\ consumer'.left = consumer.left /\ consumer'.error = consumer.error
      BY <1>0, <2>3 DEF ConsumerGoes, Consumers
    <3>2. child'.unit \in marker'
      BY <1>0, <2>1, <2>3 DEF Offered
    <3> QED
      BY <2>1, <3>1, <3>2 DEF Watched, ConsumerAt
  <2> QED
    BY <1>12, <2>2, <2>3 DEF StartChild
<1>13. CASE Poll
  <2>1. /\ UNCHANGED <<child, failures>> /\ ~ConsumerAt("judge")
        /\ consumer'.pc = "release" => ~ChildLives
        /\ consumer'.pc \in {"release", "terminate", "pause", "wait"}
        /\ consumer'.left = consumer.left /\ consumer'.error = consumer.error
    BY <1>0, <1>13 DEF Poll, ConsumerGoes, Consumers, ConsumerAt, queueVars
  <2> QED
    BY <1>1, <1>10, <1>13, <2>1 DEF ChildLives, ConsumerStep
<1>14. CASE Pause \/ Continue
  <2>1. /\ consumer'.pc \in {"paused", "wait"} /\ ~ConsumerAt("judge") /\ failures' = failures
        /\ consumer'.left = consumer.left /\ consumer'.error = consumer.error
    BY <1>0, <1>14 DEF Pause, Continue, ConsumerGoes, Consumers, ConsumerAt, queueVars
  <2>2. child'.unit = child.unit /\ (child'.state = "none" <=> child.state = "none") /\ (ChildLives' => ChildLives)
    BY <1>0, <1>14 DEF Pause, Continue, ChildLives, Children
  <2> QED
    BY <1>1, <1>10, <1>14, <2>1, <2>2 DEF ConsumerStep
<1>15. CASE Wait
  <2>1. /\ UNCHANGED <<child, failures>> /\ ~ConsumerAt("judge")
        /\ \/ /\ consumer'.pc = "poll"
              /\ consumer'.left = consumer.left /\ consumer'.error = consumer.error
           \/ consumer'.pc = "release" /\ consumer'.error
    BY <1>0, <1>15 DEF Wait, ConsumerGoes, ConsumerFails, Consumers, ConsumerAt, queueVars
  <2> QED
    BY <1>1, <1>10, <1>15, <2>1 DEF ChildLives, ConsumerStep
<1>16. CASE Terminate
  <2>1. failures' = failures /\ ~ConsumerAt("judge") /\ Live /\ Live'
    BY <1>10, <1>16 DEF Terminate, ConsumerAt, queueVars, ConsumerStep
  <2>2. CASE child' = (IF ChildLives THEN [child EXCEPT !.state = "failed"] ELSE child) /\ ConsumerGoes("release")
    <3>1. child'.unit = child.unit /\ (child'.state = "none" <=> child.state = "none") /\ ~ChildLives'
      BY <1>0, <2>2 DEF ChildLives, Children
    <3>2. consumer'.left = consumer.left /\ consumer'.error = consumer.error
      BY <1>0, <2>2 DEF ConsumerGoes, Consumers
    <3> QED
      BY <1>1, <2>1, <3>1, <3>2
  <2>3. CASE ConsumerFails /\ UNCHANGED child
    <3>1. consumer'.pc = "release" /\ consumer'.error
      BY <1>0, <2>3 DEF ConsumerFails, Consumers
    <3> QED
      BY <1>1, <2>1, <2>3, <3>1 DEF ChildLives
  <2> QED
    BY <1>16, <2>2, <2>3 DEF Terminate
<1>17. CASE Release
  <2>1. /\ failures' = failures /\ consumer.pc = "release" /\ ~ConsumerAt("judge") /\ Live /\ Live'
        /\ ~consumer.error => ~ChildLives
    BY <1>10, <1>17 DEF Release, ConsumerAt, queueVars, ConsumerStep, Watched
  <2>2. /\ child'.unit = child.unit /\ (child'.state = "none" <=> child.state = "none")
        /\ ChildLives' => ChildLives
    BY <1>0, <1>17 DEF Release, ChildLives, Children
  <2>3. CASE Released
    <3>1. /\ consumer'.left = consumer.left /\ consumer'.error = consumer.error
          /\ consumer'.pc = IF consumer.error THEN "ended" ELSE "judge"
      BY <1>0, <2>3 DEF Released, ConsumerGoes, Consumers
    <3> QED
      BY <1>1, <2>1, <2>2, <3>1
  <2>4. CASE ConsumerDies
    <3>1. consumer'.pc = "ended" /\ consumer'.error
      BY <1>0, <2>4 DEF ConsumerDies, Consumers
    <3> QED
      BY <1>1, <2>1, <2>2, <3>1
  <2>5. CASE /\ child.state # "done" /\ child' = child
             /\ consumer' = [consumer EXCEPT !.pc = IF consumer.error THEN "ended" ELSE "judge",
                                             !.left = TRUE]
    <3>1. /\ consumer'.error = consumer.error
          /\ consumer'.pc = IF consumer.error THEN "ended" ELSE "judge"
      BY <1>0, <2>5 DEF Consumers
    <3>2. CASE consumer.error
      BY <1>1, <2>1, <2>2, <3>1, <3>2
    <3>3. CASE ~consumer.error
      BY <1>0, <2>1, <2>5, <3>1, <3>3 DEF Watched, ConsumerAt, ChildLives
    <3> QED
      BY <3>2, <3>3
  <2> QED
    BY <1>17, <2>3, <2>4, <2>5 DEF Release
<1>18. CASE Judge
  <2>1. /\ child' = NoChild /\ consumer.pc = "judge" /\ Live
        /\ failures' = IF child.state = "done" /\ consumer.unit \in receipt
                       THEN failures ELSE failures \cup {consumer.unit}
        /\ consumer'.error \/ (consumer'.error = consumer.error /\ consumer'.left = consumer.left)
    BY <1>0, <1>10, <1>18 DEF Judge, ConsumerAt, ConsumerDies, Consumers, ConsumerStep
  <2>2. child.state # "done" => failures' # {}
    BY <2>1
  <2>3. failures \subseteq failures'
    BY <2>1
  <2> QED
    BY <2>1, <2>2, <2>3 DEF Watched, NoChild, ChildLives
<1>19. CASE ChildEnds \/ TimePasses
  <2>1. /\ child'.unit = child.unit /\ (child'.state = "none" <=> child.state = "none")
        /\ (ChildLives' => ChildLives) /\ UNCHANGED <<main, consumer, failures>> /\ ChildLives
    BY <1>0, <1>19 DEF ChildEnds, TimePasses, ChildLives, Children, queueVars
  <2>2. ~ConsumerAt("judge")
    BY <2>1 DEF Watched, ConsumerAt
  <2> QED
    BY <1>1, <2>1, <2>2 DEF Live
<1> QED
  BY <1>3, <1>5, <1>6, <1>7, <1>8, <1>9, <1>11, <1>12, <1>13, <1>14, <1>15, <1>16, <1>17, <1>18, <1>19
     DEF Next, MainStep, ConsumerStep
-----------------------------------------------------------------------------
\* A run ends in order.
EndsInOrder ==
    /\ MainAt("join") /\ ConsumerEnded
    /\ record' = Progress(TRUE) /\ Gone(ExitCode)
    /\ UNCHANGED <<fileVars, linux, queueVars, child>>

\* It ends in order, or otherwise, or has ended before.
LEMMA Endings ==
    ASSUME Typed, Phased, Next, main'.pc = "exited"
    PROVE  \/ EndsInOrder
           \/ Live /\ Gone(1) /\ UNCHANGED <<record, child>>
           \/ /\ main.pc = "exited" /\ UNCHANGED <<main, record, queueVars, consumer>>
              /\ ChildLives' => ChildLives
<1> USE DEF Typed
<1>0. main \in Mains /\ child \in Children
  BY DEF MainTyped, ChildTyped
<1>1. CASE Start
  BY <1>1 DEF Start
<1>2. CASE Killed
  BY <1>2 DEF Killed, Live
<1>3. CASE Open
  <2>1. main' # [main EXCEPT !.pc = "unit"]
    BY <1>0 DEF Mains
  <2> QED
    BY <1>3, <2>1 DEF Open, Live, MainAt
<1>4. CASE Skip \/ MarkComplete
  <2>1. AfterUnit \in Mains /\ AfterUnit.pc \in {"unit", "close"}
    BY <1>4, AfterUnitIs DEF Skip, MarkComplete, MainAt, Capturing
  <2>2. main'.pc \in {"unit", "close"}
    BY <1>4, <2>1 DEF Skip, MarkComplete, Mains
  <2> QED
    BY <2>2
<1>5. CASE Capture \/ CapturesRaise \/ CloseStop
  BY <1>0, <1>5 DEF Capture, CapturesRaise, CloseStop, Mains
<1>6. CASE Close
  <2>1. main' # [main EXCEPT !.pc = "closing"]
    BY <1>0 DEF Mains
  <2> QED
    BY <1>6, <2>1 DEF Close, Live, MainAt
<1>7. CASE Join
  BY <1>7 DEF Join, EndsInOrder, Live, MainAt
<1>8. CASE ConsumerStep
  <2>1. Live /\ main' = main
    BY <1>8, ConsumerLeaves, ConsumerIsOfRun
  <2> QED
    BY <2>1 DEF Live
<1>9. CASE ChildEnds \/ TimePasses
  BY <1>0, <1>9 DEF ChildEnds, TimePasses, queueVars, ChildLives, Children
<1> QED
  BY <1>1, <1>2, <1>3, <1>4, <1>5, <1>6, <1>7, <1>8, <1>9 DEF Next, MainStep

\* What holds when the main thread has joined the consumer.
LEMMA AtTheEnd ==
    ASSUME Typed, Phased, Offered, Ordered, Accounted, Watched, MainAt("join"), ConsumerEnded
    PROVE  /\ ~main.raised /\ main.incomplete = 0 => Planned \subseteq marker
           /\ ~main.raised /\ main.incomplete = 0 /\ Succeeded => Planned \subseteq receipt
           /\ ~main.raised /\ ~consumer.error => Len(queue) = 0 /\ finished = Cardinality(seen)
           /\ ~consumer.error => ~ChildLives
           /\ Succeeded => ~consumer.left
<1> USE DEF Typed
<1>1. Live /\ ~Busy /\ Working = 0 /\ Passed = DOMAIN Plan
  BY DEF Live, MainAt, Busy, ConsumerEnded, Passed, Capturing, Working
<1>2. ASSUME ~main.raised, main.incomplete = 0 PROVE Planned \subseteq marker /\ Planned \subseteq seen
  BY <1>1, <1>2 DEF Offered, Planned, MainAt, Closing
<1>3. ASSUME ~main.raised, ~consumer.error
      PROVE  /\ queue = <<>> /\ finished = Cardinality(seen)
             /\ \A u \in seen : u \in failures \cup receipt
  <2>1. queue = <<>>
    BY <1>3 DEF Ordered, Phased
  <2>2. Waiting = 0
    BY <2>1 DEF Waiting
  <2>3. (\A u \in seen : Placed(u)) /\ Cardinality(seen) = finished + Waiting + Working
    BY <1>1, <1>3, AccountedIs
  <2>4. finished = Cardinality(seen)
    BY <1>1, <2>2, <2>3, Numbers
  <2> QED
    BY <1>1, <2>1, <2>3, <2>4 DEF Placed
<1>4. ASSUME ~main.raised, main.incomplete = 0, Succeeded PROVE Planned \subseteq receipt
  BY <1>2, <1>3, <1>4 DEF Succeeded
<1>5. ~consumer.error => ~ChildLives
  BY DEF Watched, ConsumerEnded
<1>6. Succeeded => ~consumer.left
  BY <1>1 DEF Succeeded, Watched, ConsumerEnded, ConsumerAt
<1> QED
  BY <1>2, <1>3, <1>4, <1>5, <1>6

\* Every step keeps it that the exit code, the record and the extraction process
\* of a run that has ended are as they should.
LEMMA FinalStep ==
    ASSUME Typed, Phased, Offered, Ordered, Accounted, Watched, Next, Phased',
           ExitIsHonest, NoExtractionLeft, RecordIsFinal
    PROVE  ExitIsHonest' /\ NoExtractionLeft' /\ RecordIsFinal'
<1>0. /\ marker \subseteq marker' /\ receipt \cap marker \subseteq receipt' /\ linux' = linux
  BY FilesStep DEF FilesGoOn
<1>1. CASE main'.pc # "exited"
  BY <1>1 DEF Phased, ExitIsHonest, NoExtractionLeft, MainAt, RecordIsFinal
<1>2. CASE Live /\ Gone(1) /\ UNCHANGED <<record, child>>
  <2>1. main'.exit = 1
    BY <1>2, GoneIs
  <2>2. ~record'.done
    BY <1>2 DEF Phased, Live
  <2> QED
    BY <2>1, <2>2 DEF ExitIsHonest, NoExtractionLeft, RecordIsFinal, MainAt
<1>3. CASE main.pc = "exited" /\ UNCHANGED <<main, record, queueVars, consumer>> /\ (ChildLives' => ChildLives)
  BY <1>0, <1>3 DEF ExitIsHonest, NoExtractionLeft, RecordIsFinal, Planned, queueVars, MainAt
<1>4. CASE EndsInOrder
  <2>1. /\ main'.exit = ExitCode /\ main'.raised = main.raised /\ consumer'.error = consumer.error
        /\ consumer'.left = consumer.left
    BY <1>4, GoneIs DEF EndsInOrder, ExitCode
  <2>2. UNCHANGED <<marker, receipt, seen, failures, child>> /\ record' = Progress(TRUE)
    BY <1>4 DEF EndsInOrder, fileVars, queueVars
  <2>3. main.raised \in BOOLEAN /\ main.incomplete \in Nat
    BY DEF Typed, MainTyped, Mains
  <2>4. /\ ExitCode \in {0, 3} => ~main.raised /\ main.incomplete = 0
        /\ ExitCode = 0 => Succeeded
    BY <2>3 DEF ExitCode
  <2>5. ExitIsHonest'
    BY <1>4, <2>1, <2>2, <2>4, AtTheEnd DEF EndsInOrder, ExitIsHonest, Planned
  <2>6. NoExtractionLeft'
    <3>1. ExitCode = 0 => ~consumer.error
      BY <2>4 DEF Succeeded
    <3> QED
      BY <1>4, <2>1, <2>2, <2>4, <3>1, AtTheEnd DEF EndsInOrder, NoExtractionLeft, ChildLives
  <2>7. RecordIsFinal'
    <3>1. record'.queued = Len(queue) /\ record'.finished = finished /\ record'.failed = Cardinality(failures)
      BY <2>2, ProgressIs DEF Typed
    <3> QED
      BY <1>4, <2>1, <2>2, <3>1, AtTheEnd DEF EndsInOrder, RecordIsFinal
  <2> QED
    BY <2>5, <2>6, <2>7
<1> QED
  BY <1>1, <1>2, <1>3, <1>4, Endings

-----------------------------------------------------------------------------
\* Initially the invariant holds.
LEMMA InvInit == Init => IInv
<1> SUFFICES ASSUME Init PROVE IInv
  OBVIOUS
<1>1. main.pc = "idle" /\ main.exit = -1 /\ consumer.pc = "none" /\ child = NoChild /\ record = NoRecord
  BY DEF Init
<1>2. <<>> \in Seq(Units \cup {End}) /\ IsFiniteSet({})
  BY FS_EmptySet
<1>3. MainTyped /\ ConsumerTyped
  BY PlanFacts DEF Init, MainTyped, Mains, ConsumerTyped, Consumers, Busy
<1>4. ChildTyped /\ RecordTyped
  BY DEF Init, ChildTyped, Children, NoChild, RecordTyped, Records, NoRecord
<1>5. QueueTyped /\ FilesTyped
  BY <1>2 DEF Init, QueueTyped, FilesTyped
<1>6. Phased /\ Offered /\ Ordered /\ Accounted
  BY <1>1 DEF Init, Phased, Offered, Ordered, Accounted, Live, MainAt, ConsumerEnded, Capturing, Closing,
              NoRecord
<1>7. Watched /\ ExitIsHonest /\ NoExtractionLeft /\ RecordIsFinal
  BY <1>1 DEF Watched, ExitIsHonest, NoExtractionLeft, RecordIsFinal, NoChild, ChildLives, Live, MainAt
<1> QED
  BY <1>3, <1>4, <1>5, <1>6, <1>7 DEF IInv, Typed

\* Every step keeps the invariant.
LEMMA InvNext == IInv /\ [Next]_vars => IInv'
<1>1. ASSUME IInv, Next PROVE IInv'
  BY <1>1, TypedStep, PhasedStep, OfferedStep, OrderedStep, AccountedStep, WatchedStep, FinalStep DEF IInv
<1>2. ASSUME IInv, UNCHANGED vars PROVE IInv'
  <2>1. Typed'
    BY <1>2 DEF IInv, vars, fileVars, queueVars, Typed, MainTyped, ConsumerTyped, ChildTyped, RecordTyped,
       QueueTyped, FilesTyped, Busy
  <2>2. Phased' /\ Offered' /\ Ordered'
    BY <1>2 DEF IInv, vars, fileVars, queueVars, Phased, Offered, Ordered, ChildLives, MainAt, Passed, Unit,
       Live, Busy, ConsumerEnded
  <2>3. Accounted' /\ Watched'
    BY <1>2 DEF IInv, vars, fileVars, queueVars, Accounted, Waiting, Watched, ChildLives, MainAt,
       Live, Busy, ConsumerEnded, ConsumerAt
  <2>4. ExitIsHonest' /\ NoExtractionLeft' /\ RecordIsFinal'
    BY <1>2 DEF IInv, vars, fileVars, queueVars, ExitIsHonest, NoExtractionLeft, RecordIsFinal, ChildLives,
       Planned, MainAt
  <2> QED
    BY <2>1, <2>2, <2>3, <2>4 DEF IInv
<1> QED
  BY <1>1, <1>2

\* The inductive invariant: a unit that was offered waits, is worked on or is
\* judged, unless the consumer has failed; what the captures have passed is
\* offered if it has a checkpoint; the end that close puts in the queue is taken
\* last; and an extraction process is watched.
THEOREM RunInvariantHolds == Spec => []IInv
BY InvInit, InvNext, PTL DEF Spec

\* The exit code and the record of a run tell the truth about the files (main
\* and run of wiki_fetcher.py, close and _progress of capture_extraction.py),
\* and the drain flag is not seen before the captures are over.
THEOREM RecordsTellTheTruth == Spec => []RecordsAreTrue
<1>1. IInv => TypeOK
  BY DEF IInv, Typed, MainTyped, Mains, ConsumerTyped, Consumers, ChildTyped, Children, RecordTyped, Records,
     QueueTyped, FilesTyped, Capturing, Closing, TypeOK
<1>2. IInv => WatchedWhileCapturing
  BY DEF IInv, Phased, WatchedWhileCapturing, Capturing
<1>3. IInv => ExitIsHonest /\ RecordIsFinal
  BY DEF IInv
<1> QED
  BY <1>1, <1>2, <1>3, RunInvariantHolds, PTL DEF RecordsAreTrue

\* Every checkpoint is offered to the extraction, whichever run made it; a run
\* that reports success has left no process of an extraction, although its owner
\* may fail to end one; and the unit that is captured is never read.
THEOREM QueueAccounts == Spec => []QueueIsAccounted
<1>1. IInv => CheckpointsAreOffered
  BY DEF IInv, Offered, CheckpointsAreOffered, Planned, Passed, Capturing, Closing
<1>2. IInv => NoExtractionLeft
  BY DEF IInv
<1>3. IInv => ExtractionApart
  BY DEF IInv, Offered, Watched, ExtractionApart, ChildLives, MainAt
<1> QED
  BY <1>1, <1>2, <1>3, RunInvariantHolds, PTL DEF QueueIsAccounted

-----------------------------------------------------------------------------
(* CaptureSession                                                          *)

\* Before the tool of an attempt is started; before its browser is; while both
\* may run; and after the tool.
Clearing == {"clear keys", "clear pcap", "clear checkpoint"}
Preparing == {"make", "register", "start tool"}
Unlaunched == Clearing \cup Preparing \cup {"await tool", "launch"}
Visiting == {"visit", "recheck"}
Ending == {"close policy", "quit", "copy keys", "remove", "retain", "commit"}

\* The types, by groups of variables.
UnitFilesTyped ==
    /\ pcap \in [of : 0..MaxAttempts, whole : BOOLEAN]
    /\ keys \in 0..MaxAttempts /\ checkpoint \in 0..MaxAttempts
DirsTyped ==
    /\ profile \in [Paths -> 0..MaxAttempts]
    /\ registry \in [Paths -> 0..MaxAttempts]
    /\ path \in Paths \cup {NoPath}
    /\ cleaner \in [pc : {"idle", "entries"}, active : BOOLEAN, left : SUBSET Paths]
ToolTyped ==
    tool \in [state : {"off", "starting", "listening", "dead"}, header : BOOLEAN,
              notice : BOOLEAN]
AttemptTyped ==
    /\ pc \in Steps /\ n \in 0..MaxAttempts
    /\ error \in BOOLEAN /\ ready \in BOOLEAN /\ driver \in BOOLEAN /\ keylog \in BOOLEAN
    /\ cleanup \in {"ok", "retained"}
HistoryTyped ==
    /\ browsers \subseteq Attempts /\ linked \subseteq Attempts
    /\ missed \subseteq Attempts /\ forgotten \subseteq Attempts
BoundsTyped == attemptFaults \in 0..MaxAttemptFaults /\ kills \in 0..MaxKills
SessionTyped ==
    /\ UnitFilesTyped /\ DirsTyped /\ ToolTyped /\ AttemptTyped /\ HistoryTyped /\ BoundsTyped

\* Attempts are numbered from 1.
Numbered ==
    /\ browsers \subseteq 1..n /\ missed \subseteq 1..n
    /\ pc # "idle" => n > 0

\* The files of an attempt are cleared in an order that leaves no valid
\* checkpoint in between, and are its own afterwards.
FilesOfAttempt ==
    /\ pc = "clear keys" => ~CheckpointValid
    /\ pc \in {"clear pcap", "clear checkpoint"} => keys = 0
    /\ pc = "clear checkpoint" => pcap.of = 0
    /\ pc \notin Clearing \cup {"idle"} =>
          checkpoint = 0 /\ keys \in {0, n} /\ pcap.of \in {0, n}

\* Up to the launch nothing of the attempt runs or is missed but its tool,
\* which has notified only if it listened.
NotLaunched ==
    /\ pc \in Unlaunched => n \notin browsers /\ n \notin missed /\ ~driver
    /\ tool.notice => tool.state \in {"listening", "dead"}

\* The tool runs within the attempt, and in an attempt without an error it is
\* ready; what it missed shows in its death or in the error.
ToolOfAttempt ==
    /\ ToolEndsWithAttempt
    /\ pc \in {"launch"} \cup Visiting => ready /\ tool.state \in {"listening", "dead"}
    /\ pc = "stop tool" /\ ~error => tool.state \in {"listening", "dead"}
    /\ pc \in Visiting \cup {"stop tool"} /\ n \in missed => tool.state = "dead" \/ error
    /\ pc \in Ending /\ ~error => pcap.of = n /\ pcap.whole /\ n \notin missed

\* The profile of an attempt is its own until it is removed, and its browser
\* has gone if the cleanup is complete.
ProfileOfAttempt ==
    /\ pc \in {"register", "start tool", "await tool", "launch", "stop tool", "close policy",
               "quit", "copy keys", "remove"} \cup Visiting =>
          path \in Paths /\ profile[path] = n
    /\ pc \in {"retain", "commit"} => path \in Paths
    /\ pc \in {"copy keys", "remove"} /\ driver /\ cleanup = "ok" => n \notin browsers

\* The cleaner is apart from the attempts, and has seen that nothing runs when
\* it removes.
CleanerApart ==
    /\ pc # "idle" => cleaner.pc = "idle"
    /\ cleaner.pc = "entries" /\ ~cleaner.active => browsers = {}

SessionInv ==
    /\ SessionTyped /\ Numbered /\ FilesOfAttempt /\ NotLaunched /\ ToolOfAttempt
    /\ ProfileOfAttempt /\ CleanerApart /\ ValidIsWhole

\* The tuples of variables, the conditions on program counters and the values
\* that steps write are expanded everywhere.
USE DEF captureVars, dirVars, processVars, localVars, historyVars, boundVars, clearRest, attemptRest,
        toolRest, quitRest, removeRest, cleanerRest, Goto, NoTool, NoFile, ToolRuns,
        Attempts, Clearing, Preparing, Unlaunched, Visiting, Ending
-----------------------------------------------------------------------------
\* The numbers of attempts.
LEMMA NumberIs ==
    ASSUME SessionTyped, Numbered
    PROVE  /\ 0 \in 0..MaxAttempts /\ n \in Nat
           /\ pc # "idle" => n \in 1..MaxAttempts /\ n \in 1..n
           /\ Begin => n' \in 0..MaxAttempts /\ n' \notin 1..n /\ 1..n \subseteq 1..n'
<1>1. n \in 0..MaxAttempts /\ MaxAttempts \in Nat
  BY SessionAssumption DEF SessionTyped, AttemptTyped
<1>2. pc # "idle" => n > 0
  BY DEF Numbered
<1>3. Begin => n' = n + 1 /\ n < MaxAttempts
  BY DEF Begin
<1> QED
  BY <1>1, <1>2, <1>3

\* Every step keeps the types of the files.
LEMMA FilesTypedKept ==
    ASSUME SessionInv, SessionNext
    PROVE  UnitFilesTyped'
<1> USE SessionAssumption DEF SessionInv, SessionTyped, UnitFilesTyped, AttemptTyped
<1>0. 0 \in 0..MaxAttempts
  BY NumberIs
<1>1. CASE ClearKeys
  BY <1>0, <1>1 DEF ClearKeys
<1>2. CASE ClearPcap
  BY <1>0, <1>2 DEF ClearPcap
<1>3. CASE ClearMarker
  BY <1>0, <1>3 DEF ClearMarker
<1>4. CASE ToolWrites
  BY <1>4 DEF ToolWrites
<1>5. CASE StopTool
  BY <1>5 DEF StopTool
<1>6. CASE CopyKeys
  BY <1>6 DEF CopyKeys
<1>7. CASE CommitAttempt
  BY <1>7 DEF CommitAttempt, attemptEnds
<1>8. CASE Damage
  <2>1. CASE keys' = 0 /\ UNCHANGED <<pcap, checkpoint>>
    BY <1>0, <2>1
  <2>2. CASE pcap' = NoFile /\ UNCHANGED <<keys, checkpoint>>
    BY <1>0, <2>2
  <2> QED
    BY <1>8, <2>1, <2>2 DEF Damage
<1>9. CASE \/ Begin \/ ClearFails \/ MakeProfile \/ RegisterProfile \/ StartTool \/ ToolReady
           \/ NotReady \/ Launch \/ LaunchFails \/ Visit \/ ClosePolicy \/ Quit
           \/ RemoveProfile \/ RetainProfile \/ NothingToRetain \/ ToolListens \/ ToolNotifies
           \/ ToolDies \/ FetcherKilled \/ BrowserEnds \/ Survey \/ Clean \/ CleanEnds
  BY <1>9 DEF Begin, ClearFails, MakeProfile, RegisterProfile, Register, StartTool, ToolReady,
              IsReady, NotReady, Launch, Unheard, LaunchFails, Visit, ClosePolicy, Quit,
              RemoveProfile, RetainProfile, NothingToRetain, ToolListens, ToolNotifies, ToolDies,
              FetcherKilled, BrowserEnds, Survey, Clean, CleanMissing, CleanProfile, CleanSkips, Pass,
              MayRemove, CleanEnds
<1> QED
  BY <1>1, <1>2, <1>3, <1>4, <1>5, <1>6, <1>7, <1>8, <1>9 DEF SessionNext, Fetch, Tool, Cleaner

\* Every step keeps the types of the directories and of the cleaner.
LEMMA DirsTypedKept ==
    ASSUME SessionInv, SessionNext
    PROVE  DirsTyped'
<1> USE SessionAssumption DEF SessionInv, SessionTyped, DirsTyped, AttemptTyped
<1>1. CASE MakeProfile
  BY <1>1 DEF MakeProfile
<1>2. CASE RegisterProfile
  BY <1>2 DEF RegisterProfile, Register
<1>3. CASE RetainProfile
  BY <1>3 DEF RetainProfile, Register
<1>4. CASE RemoveProfile
  BY <1>4 DEF RemoveProfile
<1>5. CASE Survey
  BY <1>5 DEF Survey
<1>6. CASE Clean
  <2>0. 0 \in 0..MaxAttempts
    BY NumberIs
  <2>1. PICK p \in cleaner.left : CleanMissing(p) \/ CleanProfile(p) \/ CleanSkips(p)
    BY <1>6 DEF Clean
  <2>2. cleaner' = cleaner \/ cleaner' = [cleaner EXCEPT !.left = @ \ {p}]
    BY <2>1 DEF CleanMissing, CleanProfile, CleanSkips, Pass
  <2>3. cleaner' \in [pc : {"idle", "entries"}, active : BOOLEAN, left : SUBSET Paths]
    BY <2>2
  <2>4. profile' \in {profile, [profile EXCEPT ![p] = 0]}
        /\ registry' \in {registry, [registry EXCEPT ![p] = 0]}
    BY <2>1 DEF CleanMissing, CleanProfile, CleanSkips
  <2> QED
    BY <1>6, <2>0, <2>3, <2>4 DEF Clean
<1>7. CASE CleanEnds
  BY <1>7 DEF CleanEnds
<1>8. CASE Begin \/ CommitAttempt \/ FetcherKilled
  BY <1>8 DEF Begin, CommitAttempt, attemptEnds, FetcherKilled
<1>9. CASE \/ ClearKeys \/ ClearPcap \/ ClearMarker \/ ClearFails \/ StartTool \/ ToolReady
           \/ NotReady \/ Launch \/ LaunchFails \/ Visit \/ StopTool \/ ClosePolicy \/ Quit
           \/ CopyKeys \/ NothingToRetain \/ ToolWrites \/ ToolListens \/ ToolNotifies
           \/ ToolDies \/ BrowserEnds \/ Damage
  BY <1>9 DEF ClearKeys, ClearPcap, ClearMarker, ClearFails, StartTool, ToolReady, IsReady,
              NotReady, Launch, Unheard, LaunchFails, Visit, StopTool, ClosePolicy, Quit, CopyKeys,
              NothingToRetain, ToolWrites, ToolListens, ToolNotifies, ToolDies, BrowserEnds, Damage
<1> QED
  BY <1>1, <1>2, <1>3, <1>4, <1>5, <1>6, <1>7, <1>8, <1>9 DEF SessionNext, Fetch, Tool, Cleaner

\* Every step keeps the type of the capture tool.
LEMMA ToolTypedKept ==
    ASSUME SessionInv, SessionNext
    PROVE  ToolTyped'
<1> USE SessionAssumption DEF SessionInv, SessionTyped, ToolTyped
<1>1. CASE StartTool
  BY <1>1 DEF StartTool
<1>2. CASE NotReady
  BY <1>2 DEF NotReady
<1>3. CASE StopTool
  BY <1>3 DEF StopTool
<1>4. CASE FetcherKilled
  BY <1>4 DEF FetcherKilled
<1>5. CASE ToolWrites
  BY <1>5 DEF ToolWrites
<1>6. CASE ToolListens
  BY <1>6 DEF ToolListens
<1>7. CASE ToolNotifies
  BY <1>7 DEF ToolNotifies
<1>8. CASE ToolDies
  BY <1>8 DEF ToolDies
<1>9. CASE \/ Begin \/ ClearKeys \/ ClearPcap \/ ClearMarker \/ ClearFails \/ MakeProfile
           \/ RegisterProfile \/ ToolReady \/ Launch \/ LaunchFails \/ Visit \/ ClosePolicy
           \/ Quit \/ CopyKeys \/ RemoveProfile \/ RetainProfile \/ NothingToRetain
           \/ CommitAttempt \/ BrowserEnds \/ Damage \/ Survey \/ Clean \/ CleanEnds
  BY <1>9 DEF Begin, ClearKeys, ClearPcap, ClearMarker, ClearFails, MakeProfile, RegisterProfile,
              Register, ToolReady, IsReady, Launch, Unheard, LaunchFails, Visit, ClosePolicy, Quit,
              CopyKeys, RemoveProfile, RetainProfile, NothingToRetain, CommitAttempt, attemptEnds,
              BrowserEnds, Damage, Survey, Clean, CleanMissing, CleanProfile, CleanSkips, Pass,
              MayRemove, CleanEnds
<1> QED
  BY <1>1, <1>2, <1>3, <1>4, <1>5, <1>6, <1>7, <1>8, <1>9 DEF SessionNext, Fetch, Tool, Cleaner

\* Every step keeps the types of the variables of an attempt.
LEMMA AttemptTypedKept ==
    ASSUME SessionInv, SessionNext
    PROVE  AttemptTyped'
<1> USE SessionAssumption DEF SessionInv, SessionTyped, AttemptTyped, Steps
<1>1. CASE Begin
  <2>1. n' \in 0..MaxAttempts
    BY <1>1, NumberIs
  <2> QED
    BY <1>1, <2>1 DEF Begin
<1>2. CASE FetcherKilled \/ CommitAttempt \/ ClearFails
  BY <1>2 DEF FetcherKilled, CommitAttempt, attemptEnds, ClearFails
<1>3. CASE StartTool \/ ToolReady \/ NotReady \/ Launch \/ LaunchFails
  BY <1>3 DEF StartTool, ToolReady, IsReady, NotReady, Launch, Unheard, LaunchFails
<1>4. CASE Visit
  BY <1>4 DEF Visit
<1>5. CASE StopTool \/ ClosePolicy \/ Quit \/ CopyKeys \/ RemoveProfile
  BY <1>5 DEF StopTool, ClosePolicy, Quit, CopyKeys, RemoveProfile
<1>6. CASE \/ ClearKeys \/ ClearPcap \/ ClearMarker \/ MakeProfile \/ RegisterProfile
           \/ RetainProfile \/ NothingToRetain \/ ToolWrites \/ ToolListens \/ ToolNotifies
           \/ ToolDies \/ BrowserEnds \/ Damage \/ Survey \/ Clean \/ CleanEnds
  BY <1>6 DEF ClearKeys, ClearPcap, ClearMarker, MakeProfile, RegisterProfile, Register,
              RetainProfile, NothingToRetain, ToolWrites, ToolListens, ToolNotifies, ToolDies,
              BrowserEnds, Damage, Survey, Clean, CleanMissing, CleanProfile, CleanSkips, Pass,
              MayRemove, CleanEnds
<1> QED
  BY <1>1, <1>2, <1>3, <1>4, <1>5, <1>6 DEF SessionNext, Fetch, Tool, Cleaner

\* Every step keeps the types of the processes and of what is recorded of attempts.
LEMMA HistoryTypedKept ==
    ASSUME SessionInv, SessionNext
    PROVE  HistoryTyped'
<1> USE SessionAssumption DEF SessionInv, SessionTyped, HistoryTyped, AttemptTyped, Numbered
<1>1. CASE RegisterProfile
  <2>1. n \in 1..MaxAttempts
    BY <1>1, NumberIs DEF RegisterProfile, Register
  <2> QED
    BY <1>1, <2>1 DEF RegisterProfile, Register
<1>2. CASE RetainProfile
  <2>1. n \in 1..MaxAttempts
    BY <1>2, NumberIs DEF RetainProfile, Register
  <2> QED
    BY <1>2, <2>1 DEF RetainProfile, Register
<1>3. CASE Launch
  BY <1>3 DEF Launch, Unheard
<1>4. CASE LaunchFails
  <2>1. n \in 1..MaxAttempts
    BY <1>4, NumberIs DEF LaunchFails
  <2> QED
    BY <1>4, <2>1 DEF LaunchFails, Unheard, Links
<1>5. CASE Quit
  <2>1. n \in 1..MaxAttempts
    BY <1>5, NumberIs DEF Quit
  <2>2. browsers' \subseteq browsers /\ linked' \in {linked, linked \cup {n}}
    BY <1>5 DEF Quit, Links
  <2> QED
    BY <1>5, <2>1, <2>2 DEF Quit
<1>6. CASE ToolDies
  BY <1>6 DEF ToolDies
<1>7. CASE FetcherKilled
  <2>1. n \in 1..MaxAttempts
    BY <1>7, NumberIs DEF FetcherKilled
  <2>2. browsers' \subseteq Attempts /\ linked' \in {linked, linked \cup {n}}
    BY <1>7 DEF FetcherKilled, Links
  <2> QED
    BY <1>7, <2>1, <2>2 DEF FetcherKilled
<1>8. CASE BrowserEnds
  BY <1>8 DEF BrowserEnds
<1>9. CASE \/ Begin \/ ClearKeys \/ ClearPcap \/ ClearMarker \/ ClearFails \/ MakeProfile
           \/ StartTool \/ ToolReady \/ NotReady \/ Visit \/ StopTool \/ ClosePolicy
           \/ CopyKeys \/ RemoveProfile \/ NothingToRetain \/ CommitAttempt \/ ToolWrites
           \/ ToolListens \/ ToolNotifies \/ Damage \/ Survey \/ Clean \/ CleanEnds
  BY <1>9 DEF Begin, ClearKeys, ClearPcap, ClearMarker, ClearFails, MakeProfile, StartTool,
              ToolReady, IsReady, NotReady, Visit, StopTool, ClosePolicy, CopyKeys, RemoveProfile,
              NothingToRetain, CommitAttempt, attemptEnds, ToolWrites, ToolListens, ToolNotifies,
              Damage, Survey, Clean, CleanMissing, CleanProfile, CleanSkips, Pass, MayRemove,
              CleanEnds
<1> QED
  BY <1>1, <1>2, <1>3, <1>4, <1>5, <1>6, <1>7, <1>8, <1>9 DEF SessionNext, Fetch, Tool, Cleaner

\* Every step keeps the bounds of the environment.
LEMMA BoundsTypedKept ==
    ASSUME SessionInv, SessionNext
    PROVE  BoundsTyped'
<1>0. attemptFaults \in 0..MaxAttemptFaults /\ kills \in 0..MaxKills /\ MaxAttemptFaults \in Nat /\ MaxKills \in Nat
  BY SessionAssumption DEF SessionInv, SessionTyped, BoundsTyped
<1>1. ASSUME AttemptFault \/ UNCHANGED attemptFaults, UNCHANGED kills PROVE BoundsTyped'
  BY <1>0, <1>1 DEF AttemptFault, BoundsTyped
<1>2. CASE Begin \/ ClearKeys \/ ClearPcap \/ ClearMarker \/ ClearFails
  BY <1>1, <1>2 DEF Begin, ClearKeys, ClearPcap, ClearMarker, ClearFails
<1>3. CASE MakeProfile \/ RegisterProfile \/ StartTool \/ ToolReady
  BY <1>1, <1>3 DEF MakeProfile, RegisterProfile, Register, StartTool, ToolReady
<1>4. CASE NotReady
  <2>1. attemptFaults' = attemptFaults \/ (attemptFaults < MaxAttemptFaults /\ attemptFaults' = attemptFaults + 1)
    BY <1>4 DEF NotReady
  <2>2. UNCHANGED kills
    BY <1>4 DEF NotReady
  <2> QED
    BY <1>0, <2>1, <2>2 DEF BoundsTyped
<1>5. CASE Launch \/ LaunchFails \/ Visit \/ StopTool
  BY <1>1, <1>5 DEF Launch, LaunchFails, Visit, StopTool
<1>6. CASE ClosePolicy \/ Quit \/ CopyKeys \/ RemoveProfile
  BY <1>1, <1>6 DEF ClosePolicy, Quit, CopyKeys, RemoveProfile
<1>7. CASE RetainProfile \/ NothingToRetain \/ CommitAttempt
  BY <1>1, <1>7 DEF RetainProfile, Register, NothingToRetain, CommitAttempt, attemptEnds
<1>8. CASE ToolWrites \/ ToolListens \/ ToolNotifies \/ ToolDies
  BY <1>1, <1>8 DEF ToolWrites, ToolListens, ToolNotifies, ToolDies
<1>9. CASE FetcherKilled
  BY <1>0, <1>9 DEF FetcherKilled, BoundsTyped
<1>10. CASE BrowserEnds \/ Damage \/ Survey \/ CleanEnds
  BY <1>1, <1>10 DEF BrowserEnds, Damage, Survey, CleanEnds
<1>11. CASE Clean
  BY <1>1, <1>11 DEF Clean, CleanMissing, CleanProfile, CleanSkips
<1> QED
  BY <1>2, <1>3, <1>4, <1>5, <1>6, <1>7, <1>8, <1>9, <1>10, <1>11 DEF SessionNext, Fetch, Tool, Cleaner
-----------------------------------------------------------------------------
\* Attempts stay numbered.
LEMMA NumberedKept ==
    ASSUME SessionInv, SessionNext
    PROVE  Numbered'
<1> USE SessionAssumption DEF SessionInv, SessionTyped, AttemptTyped, Numbered
<1>1. CASE Begin
  <2>1. n' = n + 1 /\ browsers' = browsers /\ missed' = missed
    BY <1>1 DEF Begin
  <2>2. 1..n \subseteq 1..n'
    BY <1>1, NumberIs
  <2> QED
    BY <2>1, <2>2
<1>2. CASE LaunchFails
  <2>1. n' = n /\ n \in 1..n /\ pc # "idle"
    BY <1>2, NumberIs DEF LaunchFails
  <2>2. browsers' \subseteq browsers \cup {n} /\ missed' \subseteq missed \cup {n}
    BY <1>2 DEF LaunchFails, Unheard
  <2> QED
    BY <2>1, <2>2
<1>3. CASE \/ ClearKeys \/ ClearPcap \/ ClearMarker \/ ClearFails \/ MakeProfile
           \/ RegisterProfile \/ StartTool \/ ToolReady \/ NotReady
  BY <1>3 DEF ClearKeys, ClearPcap, ClearMarker, ClearFails, MakeProfile, RegisterProfile, Register,
              StartTool, ToolReady, IsReady, NotReady
<1>4. CASE Launch
  BY <1>4 DEF Launch, Unheard
<1>5. CASE Visit
  BY <1>5 DEF Visit
<1>6. CASE StopTool
  BY <1>6 DEF StopTool
<1>7. CASE ClosePolicy \/ Quit \/ CopyKeys
  BY <1>7 DEF ClosePolicy, Quit, CopyKeys
<1>8. CASE RemoveProfile \/ RetainProfile \/ NothingToRetain \/ CommitAttempt
  BY <1>8 DEF RemoveProfile, RetainProfile, Register, NothingToRetain, CommitAttempt, attemptEnds
<1>9. CASE ToolWrites \/ ToolListens \/ ToolNotifies \/ ToolDies
  BY <1>9 DEF ToolWrites, ToolListens, ToolNotifies, ToolDies
<1>10. CASE FetcherKilled \/ BrowserEnds \/ Damage
  BY <1>10 DEF FetcherKilled, BrowserEnds, Damage
<1>11. CASE Survey \/ Clean \/ CleanEnds
  BY <1>11 DEF Survey, Clean, CleanMissing, CleanProfile, CleanSkips, Pass, MayRemove, CleanEnds
<1> QED
  BY <1>1, <1>2, <1>3, <1>4, <1>5, <1>6, <1>7, <1>8, <1>9, <1>10, <1>11 DEF SessionNext, Fetch, Tool,
     Cleaner

\* The files of an attempt stay its own.
LEMMA FilesOfAttemptKept ==
    ASSUME SessionInv, SessionNext
    PROVE  FilesOfAttempt'
<1> USE SessionAssumption DEF SessionInv, SessionTyped, UnitFilesTyped, AttemptTyped, FilesOfAttempt,
            CheckpointValid
<1>1. CASE Begin
  BY <1>1 DEF Begin
<1>2. CASE ClearKeys
  BY <1>2 DEF ClearKeys
<1>3. CASE ClearPcap
  BY <1>3 DEF ClearPcap
<1>4. CASE ClearMarker
  BY <1>4 DEF ClearMarker
<1>5. CASE ClearFails \/ FetcherKilled
  BY <1>5 DEF ClearFails, FetcherKilled
<1>6. CASE ToolWrites
  <2>1. pc \notin Clearing \cup {"idle"}
    BY <1>6 DEF ToolWrites, ToolOfAttempt, ToolEndsWithAttempt
  <2> QED
    BY <1>6, <2>1 DEF ToolWrites
<1>7. CASE StopTool
  BY <1>7 DEF StopTool
<1>8. CASE CopyKeys
  BY <1>8 DEF CopyKeys
<1>9. CASE ToolListens
  BY <1>9 DEF ToolListens
<1>10. CASE ToolNotifies \/ ToolDies
  BY <1>10 DEF ToolNotifies, ToolDies
<1>11. CASE MakeProfile \/ RegisterProfile \/ StartTool
  BY <1>11 DEF MakeProfile, RegisterProfile, Register, StartTool
<1>12. CASE ToolReady \/ NotReady
  BY <1>12 DEF ToolReady, IsReady, NotReady
<1>13. CASE Launch \/ LaunchFails \/ Visit
  BY <1>13 DEF Launch, Unheard, LaunchFails, Visit
<1>14. CASE ClosePolicy \/ Quit
  BY <1>14 DEF ClosePolicy, Quit
<1>15. CASE RemoveProfile \/ RetainProfile \/ NothingToRetain \/ CommitAttempt
  BY <1>15 DEF RemoveProfile, RetainProfile, Register, NothingToRetain, CommitAttempt, attemptEnds
<1>16. CASE BrowserEnds \/ Damage
  BY <1>16 DEF BrowserEnds, Damage
<1>17. CASE Survey \/ Clean \/ CleanEnds
  BY <1>17 DEF Survey, Clean, CleanMissing, CleanProfile, CleanSkips, Pass, MayRemove, CleanEnds
<1> QED
  BY <1>1, <1>2, <1>3, <1>4, <1>5, <1>6, <1>7, <1>8, <1>9, <1>10, <1>11, <1>12, <1>13, <1>14, <1>15,
     <1>16, <1>17 DEF SessionNext, Fetch, Tool, Cleaner

\* No browser of an attempt runs before its launch.
LEMMA NotLaunchedKept ==
    ASSUME SessionInv, SessionNext
    PROVE  NotLaunched'
<1> USE SessionAssumption DEF SessionInv, SessionTyped, AttemptTyped, ToolTyped, NotLaunched, Numbered
<1>1. CASE Begin
  <2>1. n' \notin 1..n /\ browsers' = browsers /\ missed' = missed /\ tool' = tool /\ ~driver'
    BY <1>1, NumberIs DEF Begin
  <2> QED
    BY <2>1
<1>2. CASE ClearKeys
  BY <1>2 DEF ClearKeys
<1>3. CASE ClearPcap
  BY <1>3 DEF ClearPcap
<1>4. CASE ClearMarker
  BY <1>4 DEF ClearMarker
<1>5. CASE ClearFails
  BY <1>5 DEF ClearFails
<1>6. CASE MakeProfile
  BY <1>6 DEF MakeProfile
<1>7. CASE RegisterProfile
  BY <1>7 DEF RegisterProfile, Register
<1>8. CASE StartTool
  BY <1>8 DEF StartTool
<1>9. CASE ToolReady
  BY <1>9 DEF ToolReady, IsReady
<1>10. CASE NotReady
  BY <1>10 DEF NotReady
<1>11. CASE Launch \/ LaunchFails
  BY <1>11 DEF Launch, Unheard, LaunchFails
<1>12. CASE Visit
  BY <1>12 DEF Visit
<1>13. CASE StopTool
  BY <1>13 DEF StopTool
<1>14. CASE ClosePolicy \/ Quit \/ CopyKeys
  BY <1>14 DEF ClosePolicy, Quit, CopyKeys
<1>15. CASE RemoveProfile \/ RetainProfile \/ NothingToRetain \/ CommitAttempt
  BY <1>15 DEF RemoveProfile, RetainProfile, Register, NothingToRetain, CommitAttempt, attemptEnds
<1>16. CASE ToolWrites
  BY <1>16 DEF ToolWrites
<1>17. CASE ToolListens
  BY <1>17 DEF ToolListens
<1>18. CASE ToolNotifies
  BY <1>18 DEF ToolNotifies
<1>19. CASE ToolDies
  BY <1>19 DEF ToolDies
<1>20. CASE FetcherKilled
  BY <1>20 DEF FetcherKilled
<1>21. CASE BrowserEnds
  BY <1>21 DEF BrowserEnds
<1>22. CASE Damage
  BY <1>22 DEF Damage
<1>23. CASE Survey
  BY <1>23 DEF Survey
<1>24. CASE Clean
  BY <1>24 DEF Clean, CleanMissing, CleanProfile, CleanSkips, Pass, MayRemove
<1>25. CASE CleanEnds
  BY <1>25 DEF CleanEnds
<1> QED
  BY <1>1, <1>2, <1>3, <1>4, <1>5, <1>6, <1>7, <1>8, <1>9, <1>10, <1>11, <1>12, <1>13, <1>14, <1>15,
     <1>16, <1>17, <1>18, <1>19, <1>20, <1>21, <1>22, <1>23, <1>24, <1>25 DEF SessionNext, Fetch, Tool,
     Cleaner

\* The tool stays within its attempt.
LEMMA ToolOfAttemptKept ==
    ASSUME SessionInv, SessionNext
    PROVE  ToolOfAttempt'
<1> USE SessionAssumption DEF SessionInv, SessionTyped, UnitFilesTyped, ToolTyped, AttemptTyped, ToolOfAttempt,
            ToolEndsWithAttempt, FilesOfAttempt, NotLaunched
<1>1. CASE Begin
  BY <1>1 DEF Begin
<1>2. CASE ClearKeys \/ ClearPcap \/ ClearMarker \/ ClearFails
  BY <1>2 DEF ClearKeys, ClearPcap, ClearMarker, ClearFails
<1>3. CASE MakeProfile \/ RegisterProfile \/ StartTool
  BY <1>3 DEF MakeProfile, RegisterProfile, Register, StartTool
<1>4. CASE ToolReady \/ NotReady
  BY <1>4 DEF ToolReady, IsReady, NotReady
<1>5. CASE Launch \/ LaunchFails
  BY <1>5 DEF Launch, Unheard, LaunchFails
<1>6. CASE Visit
  <2>1. pc \in Visiting /\ pc' \in {"recheck", "stop tool"}
    BY <1>6 DEF Visit
  <2>2. error' = error \/ error'
    BY <1>6 DEF Visit
  <2>3. UNCHANGED <<tool, n, missed, ready, pcap>>
    BY <1>6 DEF Visit
  <2>4. /\ ready /\ tool.state \in {"listening", "dead"}
        /\ n \in missed => tool.state = "dead" \/ error
    BY <2>1
  <2> QED
    BY <2>1, <2>2, <2>3, <2>4
<1>7. CASE StopTool
  BY <1>7 DEF StopTool
<1>8. CASE ClosePolicy \/ Quit \/ CopyKeys
  BY <1>8 DEF ClosePolicy, Quit, CopyKeys
<1>9. CASE RemoveProfile \/ RetainProfile \/ NothingToRetain \/ CommitAttempt
  BY <1>9 DEF RemoveProfile, RetainProfile, Register, NothingToRetain, CommitAttempt, attemptEnds
<1>10. CASE ToolWrites \/ ToolListens \/ ToolNotifies \/ ToolDies
  BY <1>10 DEF ToolWrites, ToolListens, ToolNotifies, ToolDies
<1>11. CASE FetcherKilled
  BY <1>11 DEF FetcherKilled
<1>12. CASE BrowserEnds \/ Damage
  BY <1>12 DEF BrowserEnds, Damage
<1>13. CASE Survey \/ Clean \/ CleanEnds
  BY <1>13 DEF Survey, Clean, CleanMissing, CleanProfile, CleanSkips, Pass, MayRemove, CleanEnds
<1> QED
  BY <1>1, <1>2, <1>3, <1>4, <1>5, <1>6, <1>7, <1>8, <1>9, <1>10, <1>11, <1>12, <1>13 DEF SessionNext,
     Fetch, Tool, Cleaner

\* The profile of an attempt stays its own.
LEMMA ProfileOfAttemptKept ==
    ASSUME SessionInv, SessionNext
    PROVE  ProfileOfAttempt'
<1> USE SessionAssumption DEF SessionInv, SessionTyped, DirsTyped, AttemptTyped, ProfileOfAttempt
<1>1. CASE Begin
  BY <1>1 DEF Begin
<1>2. CASE ClearKeys \/ ClearPcap \/ ClearMarker \/ ClearFails
  BY <1>2 DEF ClearKeys, ClearPcap, ClearMarker, ClearFails
<1>3. CASE MakeProfile \/ RegisterProfile \/ StartTool
  BY <1>3 DEF MakeProfile, RegisterProfile, Register, StartTool
<1>4. CASE ToolReady \/ NotReady
  BY <1>4 DEF ToolReady, IsReady, NotReady
<1>5. CASE Launch \/ LaunchFails
  BY <1>5 DEF Launch, Unheard, LaunchFails
<1>6. CASE Visit \/ StopTool
  BY <1>6 DEF Visit, StopTool
<1>7. CASE ClosePolicy
  BY <1>7 DEF ClosePolicy
<1>8. CASE Quit
  BY <1>8 DEF Quit
<1>9. CASE CopyKeys
  BY <1>9 DEF CopyKeys
<1>10. CASE RemoveProfile \/ RetainProfile \/ NothingToRetain \/ CommitAttempt
  BY <1>10 DEF RemoveProfile, RetainProfile, Register, NothingToRetain, CommitAttempt, attemptEnds
<1>11. CASE ToolWrites
  BY <1>11 DEF ToolWrites
<1>12. CASE ToolListens
  BY <1>12 DEF ToolListens
<1>13. CASE ToolNotifies
  BY <1>13 DEF ToolNotifies
<1>14. CASE ToolDies
  BY <1>14 DEF ToolDies
<1>15. CASE FetcherKilled
  BY <1>15 DEF FetcherKilled
<1>16. CASE BrowserEnds
  BY <1>16 DEF BrowserEnds
<1>17. CASE Damage
  BY <1>17 DEF Damage
<1>18. CASE Survey
  BY <1>18 DEF Survey
<1>19. CASE CleanEnds
  BY <1>19 DEF CleanEnds
<1>20. CASE Clean
  <2>1. pc = "idle" /\ pc' = pc
    BY <1>20 DEF Clean, CleanerApart
  <2> QED
    BY <2>1
<1> QED
  BY <1>1, <1>2, <1>3, <1>4, <1>5, <1>6, <1>7, <1>8, <1>9, <1>10, <1>11, <1>12, <1>13, <1>14, <1>15,
     <1>16, <1>17, <1>18, <1>19, <1>20 DEF SessionNext, Fetch, Tool, Cleaner

\* The cleaner stays apart.
LEMMA CleanerApartKept ==
    ASSUME SessionInv, SessionNext
    PROVE  CleanerApart'
<1> USE SessionAssumption DEF SessionInv, SessionTyped, AttemptTyped, DirsTyped, CleanerApart
<1>1. CASE Begin
  BY <1>1 DEF Begin
<1>2. CASE ClearKeys \/ ClearPcap \/ ClearMarker \/ ClearFails
  BY <1>2 DEF ClearKeys, ClearPcap, ClearMarker, ClearFails
<1>3. CASE MakeProfile \/ RegisterProfile \/ StartTool
  BY <1>3 DEF MakeProfile, RegisterProfile, Register, StartTool
<1>4. CASE ToolReady \/ NotReady
  BY <1>4 DEF ToolReady, IsReady, NotReady
<1>5. CASE Launch \/ LaunchFails
  BY <1>5 DEF Launch, Unheard, LaunchFails
<1>6. CASE Visit \/ StopTool
  BY <1>6 DEF Visit, StopTool
<1>7. CASE ClosePolicy \/ Quit \/ CopyKeys
  BY <1>7 DEF ClosePolicy, Quit, CopyKeys
<1>8. CASE RemoveProfile \/ RetainProfile \/ NothingToRetain \/ CommitAttempt
  BY <1>8 DEF RemoveProfile, RetainProfile, Register, NothingToRetain, CommitAttempt, attemptEnds
<1>9. CASE ToolWrites \/ ToolListens \/ ToolNotifies \/ ToolDies
  BY <1>9 DEF ToolWrites, ToolListens, ToolNotifies, ToolDies
<1>10. CASE FetcherKilled \/ BrowserEnds \/ Damage
  BY <1>10 DEF FetcherKilled, BrowserEnds, Damage
<1>11. CASE Survey
  BY <1>11 DEF Survey
<1>12. CASE Clean
  BY <1>12 DEF Clean, CleanMissing, CleanProfile, CleanSkips, Pass, MayRemove
<1>13. CASE CleanEnds
  BY <1>13 DEF CleanEnds
<1> QED
  BY <1>1, <1>2, <1>3, <1>4, <1>5, <1>6, <1>7, <1>8, <1>9, <1>10, <1>11, <1>12, <1>13 DEF SessionNext,
     Fetch, Tool, Cleaner

\* A unit that would be skipped stays whole.
LEMMA ValidIsWholeKept ==
    ASSUME SessionInv, SessionNext
    PROVE  ValidIsWhole'
<1> USE SessionAssumption DEF SessionInv, SessionTyped, UnitFilesTyped, AttemptTyped, ValidIsWhole, CheckpointValid,
            FilesOfAttempt, ToolOfAttempt, ToolEndsWithAttempt, Numbered
<1>1. CASE Begin
  BY <1>1 DEF Begin
<1>2. CASE ClearKeys \/ ClearPcap \/ ClearMarker \/ ClearFails
  BY <1>2 DEF ClearKeys, ClearPcap, ClearMarker, ClearFails
<1>3. CASE \/ MakeProfile \/ RegisterProfile \/ StartTool \/ ToolReady \/ NotReady \/ Launch
           \/ LaunchFails \/ Visit \/ StopTool \/ ClosePolicy \/ Quit \/ CopyKeys
  BY <1>3 DEF MakeProfile, RegisterProfile, Register, StartTool, ToolReady, IsReady, NotReady,
              Launch, Unheard, LaunchFails, Visit, StopTool, ClosePolicy, Quit, CopyKeys
<1>4. CASE RemoveProfile \/ RetainProfile \/ NothingToRetain \/ CommitAttempt
  BY <1>4 DEF RemoveProfile, RetainProfile, Register, NothingToRetain, CommitAttempt, attemptEnds
<1>5. CASE ToolWrites \/ ToolListens \/ ToolNotifies \/ ToolDies
  BY <1>5 DEF ToolWrites, ToolListens, ToolNotifies, ToolDies
<1>6. CASE FetcherKilled
  BY <1>6 DEF FetcherKilled
<1>7. CASE BrowserEnds
  BY <1>7 DEF BrowserEnds
<1>8. CASE Damage
  BY <1>8 DEF Damage
<1>9. CASE Survey
  BY <1>9 DEF Survey
<1>10. CASE Clean
  BY <1>10 DEF Clean, CleanMissing, CleanProfile, CleanSkips, Pass, MayRemove
<1>11. CASE CleanEnds
  BY <1>11 DEF CleanEnds
<1> QED
  BY <1>1, <1>2, <1>3, <1>4, <1>5, <1>6, <1>7, <1>8, <1>9, <1>10, <1>11 DEF SessionNext, Fetch, Tool,
     Cleaner
-----------------------------------------------------------------------------
\* Nothing has been captured at the beginning.
LEMMA InitHolds == SessionInit => SessionInv
<1> SUFFICES ASSUME SessionInit PROVE SessionInv
  OBVIOUS
<1> USE SessionAssumption DEF SessionInit
<1>1. UnitFilesTyped /\ DirsTyped /\ ToolTyped
  BY DEF UnitFilesTyped, DirsTyped, ToolTyped
<1>2. 0 \in 0..MaxAttempts /\ 0 \in 0..MaxAttemptFaults /\ 0 \in 0..MaxKills
  OBVIOUS
<1>3. AttemptTyped /\ HistoryTyped /\ BoundsTyped
  BY <1>2 DEF AttemptTyped, Steps, HistoryTyped, BoundsTyped
<1>4. Numbered /\ FilesOfAttempt /\ NotLaunched /\ ToolOfAttempt
  BY DEF Numbered, FilesOfAttempt, NotLaunched, ToolOfAttempt, ToolEndsWithAttempt
<1>5. ProfileOfAttempt /\ CleanerApart /\ ValidIsWhole
  BY DEF ProfileOfAttempt, CleanerApart, ValidIsWhole, CheckpointValid
<1> QED
  BY <1>1, <1>3, <1>4, <1>5 DEF SessionInv, SessionTyped

\* What a stuttering step leaves alone, every conjunct keeps.
LEMMA StutterHolds == SessionInv /\ UNCHANGED sessionVars => SessionInv'
<1> SUFFICES ASSUME SessionInv, UNCHANGED sessionVars PROVE SessionInv'
  OBVIOUS
<1> USE DEF SessionInv, SessionTyped, sessionVars
<1>1. SessionTyped'
  BY DEF UnitFilesTyped, DirsTyped, ToolTyped, AttemptTyped, HistoryTyped, BoundsTyped
<1>2. Numbered' /\ FilesOfAttempt' /\ NotLaunched'
  BY DEF Numbered, FilesOfAttempt, CheckpointValid, NotLaunched
<1>3. ToolOfAttempt' /\ ProfileOfAttempt' /\ CleanerApart'
  BY DEF ToolOfAttempt, ToolEndsWithAttempt, ProfileOfAttempt, CleanerApart
<1>4. ValidIsWhole'
  BY DEF ValidIsWhole, CheckpointValid
<1> QED
  BY <1>1, <1>2, <1>3, <1>4

\* The conjunction is inductive.
LEMMA StepHolds == SessionInv /\ [SessionNext]_sessionVars => SessionInv'
<1> SUFFICES ASSUME SessionInv, [SessionNext]_sessionVars PROVE SessionInv'
  OBVIOUS
<1>1. CASE SessionNext
  <2>1. SessionTyped'
    BY <1>1, FilesTypedKept, DirsTypedKept, ToolTypedKept, AttemptTypedKept, HistoryTypedKept,
       BoundsTypedKept DEF SessionTyped
  <2> QED
    BY <1>1, <2>1, NumberedKept, FilesOfAttemptKept, NotLaunchedKept, ToolOfAttemptKept,
       ProfileOfAttemptKept, CleanerApartKept, ValidIsWholeKept DEF SessionInv
<1> QED
  BY <1>1, StutterHolds

\* No step but these three writes to a profile's directory.
LEMMA OtherStepsKeepProfiles ==
    ASSUME [SessionNext]_sessionVars
    PROVE  MakeProfile \/ RemoveProfile \/ Clean \/ UNCHANGED profile
<1>1. CASE Begin \/ ClearKeys \/ ClearPcap \/ ClearMarker \/ ClearFails \/ RegisterProfile
  BY <1>1 DEF Begin, ClearKeys, ClearPcap, ClearMarker, ClearFails, RegisterProfile, Register
<1>2. CASE StartTool \/ ToolReady \/ NotReady \/ Launch \/ LaunchFails \/ Visit
  BY <1>2 DEF StartTool, ToolReady, NotReady, Launch, LaunchFails, Visit
<1>3. CASE StopTool \/ ClosePolicy \/ Quit \/ CopyKeys
  BY <1>3 DEF StopTool, ClosePolicy, Quit, CopyKeys
<1>4. CASE RetainProfile \/ NothingToRetain \/ CommitAttempt
  BY <1>4 DEF RetainProfile, Register, NothingToRetain, CommitAttempt, attemptEnds
<1>5. CASE ToolWrites \/ ToolListens \/ ToolNotifies \/ ToolDies
  BY <1>5 DEF ToolWrites, ToolListens, ToolNotifies, ToolDies
<1>6. CASE FetcherKilled \/ BrowserEnds \/ Damage \/ Survey \/ CleanEnds \/ UNCHANGED sessionVars
  BY <1>6 DEF FetcherKilled, BrowserEnds, Damage, Survey, CleanEnds, sessionVars
<1> QED
  BY <1>1, <1>2, <1>3, <1>4, <1>5, <1>6 DEF SessionNext, Fetch, Tool, Cleaner

\* A step that removes a profile is one of the attempt whose profile it is, or
\* of the cleaner.
LEMMA StepKeepsUsedProfiles == SessionInv /\ [SessionNext]_sessionVars => KeepsUsedProfiles
<1> SUFFICES ASSUME SessionInv, [SessionNext]_sessionVars,
                    NEW p \in Paths, profile[p] # 0, profile'[p] = 0, pc = "idle" \/ driver
             PROVE  profile[p] \notin browsers
  BY DEF KeepsUsedProfiles
<1> USE DEF SessionInv, SessionTyped, DirsTyped
<1>1. CASE UNCHANGED profile
  BY <1>1
<1>2. CASE MakeProfile
  BY <1>2, NumberIs DEF MakeProfile
<1>3. CASE RemoveProfile
  <2>1. cleanup = "ok" /\ profile' = [profile EXCEPT ![path] = 0] /\ pc = "remove"
    BY <1>3 DEF RemoveProfile
  <2>2. p = path
    BY <2>1
  <2> QED
    BY <2>1, <2>2 DEF ProfileOfAttempt
<1>4. CASE Clean
  <2>1. PICK q \in cleaner.left : CleanMissing(q) \/ CleanProfile(q) \/ CleanSkips(q)
    BY <1>4 DEF Clean
  <2>2. ~cleaner.active
    BY <2>1 DEF CleanMissing, CleanProfile, CleanSkips, MayRemove
  <2> QED
    BY <1>4, <2>2 DEF Clean, CleanerApart
<1> QED
  BY <1>1, <1>2, <1>3, <1>4, OtherStepsKeepProfiles

-----------------------------------------------------------------------------
\* The inductive invariant holds in every behaviour.
THEOREM SessionInvariantHolds == SessionSpec => []SessionInv
<1>1. SessionInit => SessionInv
  BY InitHolds
<1>2. SessionInv /\ [SessionNext]_sessionVars => SessionInv'
  BY StepHolds
<1> QED
  BY <1>1, <1>2, PTL DEF SessionSpec

\* A unit that the next run skips (_checkpoint_valid) holds the whole capture
\* and the keys of one attempt, whose tool listened from before its browser
\* was started; and no step that raises leaves the tool running after its
\* attempt.
THEOREM CheckpointsAreWhole == SessionSpec => []CapturesAreWhole
<1>1. SessionInv => SessionTypeOK
  BY DEF SessionInv, SessionTyped, UnitFilesTyped, DirsTyped, ToolTyped, AttemptTyped, HistoryTyped, BoundsTyped,
         SessionTypeOK
<1>2. SessionInv => CapturesAreWhole
  BY <1>1 DEF SessionInv, ToolOfAttempt, CapturesAreWhole
<1> QED
  BY <1>2, SessionInvariantHolds, PTL

\* Neither the attempt (rmtree in the finally clause) nor the cleaner
\* (cleanup_retained_directories) removes a profile that a browser handed over
\* to the attempt may still use.
THEOREM ProfilesOutliveDrivers ==
    SessionSpec => ProfileOutlivesDriver
<1>1. SessionInv /\ [SessionNext]_sessionVars => KeepsUsedProfiles
  BY StepKeepsUsedProfiles
<1> QED
  BY <1>1, SessionInvariantHolds, PTL DEF SessionSpec, ProfileOutlivesDriver
=============================================================================
