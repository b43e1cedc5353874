--------------------------- MODULE ExtractionJobs ---------------------------
(***************************************************************************)
(* Extraction jobs of a Worker (worker_agent/extraction_jobs.py) beside    *)
(* the capture tasks of the same TaskManager: HTTP threads submit, cancel  *)
(* and resume, one consumer thread runs captures and extractions, and      *)
(* captures go first at every unit.  The model follows one capture task,   *)
(* the source, and the extraction jobs that read its files; other capture  *)
(* tasks only pass through the queue.                                      *)
(*                                                                         *)
(* The id of an extraction job is made from its source and its steps, so   *)
(* that a job of the one source is known by the set of its steps.  What    *)
(* happens to the files of a unit within one extraction is the subject of  *)
(* ExtractReceipt.                                                         *)
(***************************************************************************)
EXTENDS Naturals, Sequences, FiniteSets, FiniteSetsExt

CONSTANTS
    Steps,        \* extraction steps
    Jobs,         \* extraction jobs: nonempty sets of steps
    Count,        \* units of the source
    Policies,     \* how many units a client may ask to retain, Count for all
    MaxQueue,     \* max_queue_size
    MaxRequests,  \* bound: requests about the source and its extractions
    MaxStops,     \* bound: shutdowns and crashes
    MaxFailures   \* bound: units whose capture or extraction fails, operations that raise

ExtractionJobsAssumption ==
    /\ Jobs \subseteq (SUBSET Steps) \ {{}}
    /\ Count \in Nat \ {0}
    /\ Policies \subseteq 0..Count
    /\ {MaxQueue, MaxRequests, MaxStops, MaxFailures} \subseteq Nat

Units == 1..Count
NoExtraction == {}          \* no job has an empty set of steps
Source == "source"
Other == "other"     \* a capture task of some other source
-----------------------------------------------------------------------------
VARIABLES
    source,      \* status of the source task
    row,         \* [Jobs -> row of the extraction job]
    created,     \* jobs in the order of their created_at
    captures,    \* TaskManager._queue
    extractions, \* TaskManager._extraction_queue: [Jobs -> number of entries]
    consumer,    \* the consumer thread and its active task
    handler,     \* one HTTP thread inside cancel
    submitter,   \* the HTTP thread that holds _submission_lock and has written a
                 \* row, but not put the task into its queue
    serving,     \* the process is up and its stop event is not set
    captured, pcap, results,  \* files: units with a checkpoint, with a PCAP,
                              \* and [Units -> verified steps]
    requests, stops, fails,
    \* history
    stranded,    \* jobs whose submit or resume raised between the row and the queue
    astray       \* so did the resume of the source

files == <<captured, pcap, results>>
bounds == <<requests, stops, fails>>
locked == <<submitter, stranded, astray>>
vars == <<source, row, created, captures, extractions, consumer, handler, serving,
          files, bounds, locked>>

Terminal == {"SUCCEEDED", "PARTIAL", "FAILED", "CANCELED"}
Fresh(keep) == [status |-> "QUEUED", cancel |-> FALSE, cursor |-> 0, failed |-> {},
                keep |-> keep]
NoRow == [Fresh(0) EXCEPT !.status = "none"]
Exists(e) == row[e].status # "none"
Active(e) == Exists(e) /\ row[e].status \notin Terminal

NoWork == [pc |-> "poll", job |-> NoExtraction, cursor |-> 0, failed |-> {}, code |-> TRUE]
NoCall == [pc |-> "idle", job |-> NoExtraction, seen |-> "none"]
Nobody == [has |-> "nothing", job |-> NoExtraction]

\* at most keep units of the source keep their PCAP, the first ones
Retains(e, u) == u <= row[e].keep

QueueSize == Len(captures) + MapThenSumSet(LAMBDA e : extractions[e], Jobs)

Request == requests < MaxRequests /\ requests' = requests + 1

Init ==
    /\ source \in {"SUCCEEDED", "PARTIAL"}
    /\ captured = IF source = "SUCCEEDED" THEN Units ELSE Units \ {Count}
    /\ pcap = captured
    /\ results = [u \in Units |-> {}]
    /\ row = [e \in Jobs |-> NoRow]
    /\ created = <<>>
    /\ captures = <<>>
    /\ extractions = [e \in Jobs |-> 0]
    /\ consumer = NoWork /\ handler = NoCall
    /\ submitter = Nobody /\ stranded = {} /\ astray = FALSE
    /\ serving = TRUE
    /\ requests = 0 /\ stops = 0 /\ fails = 0
-----------------------------------------------------------------------------
(* Requests: submit and resume hold _submission_lock, cancel does not.      *)
(* They write the row first, and put the task into its queue in a second    *)
(* step.                                                                    *)

BlocksResume == \E e \in Jobs : Active(e)

Enqueue(e) == extractions' = [extractions EXCEPT ![e] = @ + 1]

Holds(what, e) == submitter = Nobody /\ submitter' = [has |-> what, job |-> e]
HistoryOfLock == <<stranded, astray>>

\* submit of a new job
Submit(e, keep) ==
    /\ serving /\ Request
    /\ source \in {"SUCCEEDED", "PARTIAL"}
    /\ ~Exists(e) /\ ~BlocksResume
    /\ QueueSize < MaxQueue
    /\ row' = [row EXCEPT ![e] = Fresh(keep)]
    /\ created' = Append(created, e)
    /\ Holds("job", e)
    /\ UNCHANGED <<source, captures, extractions, consumer, handler, serving, files, stops,
                   fails, HistoryOfLock>>

\* submit of a known job, with the policy of its first submit: an ended job
\* that did not succeed is queued again from its first unit
Resubmit(e) ==
    /\ serving /\ Request
    /\ source \in {"SUCCEEDED", "PARTIAL"}
    /\ row[e].status \in {"PARTIAL", "FAILED", "CANCELED"}
    /\ ~BlocksResume
    /\ row' = [row EXCEPT ![e] = Fresh(@.keep)]
    /\ Holds("job", e)
    /\ UNCHANGED <<source, created, captures, extractions, consumer, handler, serving, files,
                   stops, fails, HistoryOfLock>>

\* resume of the source
ResumeSource ==
    /\ serving /\ Request
    /\ ~BlocksResume
    /\ source \in Terminal
    /\ source' = "QUEUED"
    /\ Holds("source", NoExtraction)
    /\ UNCHANGED <<row, created, captures, extractions, consumer, handler, serving, files,
                   stops, fails, HistoryOfLock>>

\* resume of an extraction job: nothing blocks it, and neither the source nor
\* the room in the queue is looked at
ResumeJob(e) ==
    /\ serving /\ Request
    /\ Exists(e)
    /\ IF row[e].status \in Terminal
       THEN row' = [row EXCEPT ![e] = Fresh(@.keep)] /\ Holds("job", e)
       ELSE /\ row' = [row EXCEPT ![e].cancel = FALSE]
            /\ submitter = Nobody /\ UNCHANGED submitter
    /\ UNCHANGED <<source, created, captures, extractions, consumer, handler, serving, files,
                   stops, fails, HistoryOfLock>>

\* enqueue_extraction.  The directory of the job cannot be made, or its row not
\* be read: then the call raises, and the row stays as it is.
PutJob ==
    /\ submitter.has = "job" /\ submitter' = Nobody
    /\ \/ /\ Enqueue(submitter.job)
          /\ stranded' = stranded \ {submitter.job}
          /\ UNCHANGED fails
       \/ /\ fails < MaxFailures /\ fails' = fails + 1
          /\ stranded' = stranded \cup {submitter.job}
          /\ UNCHANGED extractions
    /\ UNCHANGED <<source, row, created, captures, consumer, handler, serving, files, requests,
                   stops, astray>>

\* The row of the source is read and its queue filled.
PutSource ==
    /\ submitter.has = "source" /\ submitter' = Nobody
    /\ \/ captures' = Append(captures, Source) /\ UNCHANGED <<fails, astray>>
       \/ /\ fails < MaxFailures /\ fails' = fails + 1
          /\ astray' = TRUE
          /\ UNCHANGED captures
    /\ UNCHANGED <<source, row, created, extractions, consumer, handler, serving, files,
                   requests, stops, stranded>>

\* submit of another capture task, any number of times
SubmitOther ==
    /\ serving
    /\ QueueSize < MaxQueue
    /\ captures' = Append(captures, Other)
    /\ UNCHANGED <<source, row, created, extractions, consumer, handler, serving,
                   files, bounds, locked>>

\* cancel reads the row ...
CancelRead(e) ==
    /\ serving /\ handler.pc = "idle" /\ Request
    /\ Active(e)
    /\ handler' = [pc |-> "request", job |-> e, seen |-> row[e].status]
    /\ UNCHANGED <<source, row, created, captures, extractions, consumer, serving,
                   files, stops, fails, locked>>

\* ... sets the request unless the row has ended by now ...
CancelRequest ==
    /\ handler.pc = "request"
    /\ LET e == handler.job IN
       /\ row' = [row EXCEPT ![e].cancel = @ \/ row[e].status \notin Terminal]
       /\ handler' = IF handler.seen = "QUEUED" \/ consumer.job = e
                     THEN [handler EXCEPT !.pc = "mark"] ELSE NoCall
    /\ UNCHANGED <<source, created, captures, extractions, consumer, serving, files,
                   bounds, locked>>

\* ... and writes what it concludes from the row it read
CancelMark ==
    /\ handler.pc = "mark"
    /\ row' = [row EXCEPT ![handler.job].status =
                   IF handler.seen = "QUEUED" THEN "CANCELED" ELSE "CANCELING"]
    /\ handler' = NoCall
    /\ UNCHANGED <<source, created, captures, extractions, consumer, serving, files,
                   bounds, locked>>
-----------------------------------------------------------------------------
(* The consumer thread                                                     *)

Goes(pc) == consumer' = [consumer EXCEPT !.pc = pc]

\* the oldest job with an entry in the priority queue
Oldest(e) ==
    /\ extractions[e] > 0
    /\ \A f \in Jobs \ {e} : extractions[f] > 0 =>
          \E i, j \in DOMAIN created : created[i] = e /\ created[j] = f /\ i < j

\* A capture comes first; the extraction queue is only looked at after the
\* capture queue was found empty.
TakeCapture ==
    /\ serving /\ consumer.pc = "poll" /\ captures # <<>>
    /\ captures' = Tail(captures)
    /\ IF Head(captures) = Source
       THEN source' = "CAPTURING" /\ Goes("capture")
       ELSE UNCHANGED <<source, consumer>>
    /\ UNCHANGED <<row, created, extractions, handler, serving, files, bounds, locked>>

PollEmpty ==
    /\ serving /\ consumer.pc = "poll" /\ captures = <<>>
    /\ \E e \in Jobs : extractions[e] > 0
    /\ Goes("take")
    /\ UNCHANGED <<source, row, created, captures, extractions, handler, serving,
                   files, bounds, locked>>

\* the capture of the source ends: what it still lacked is captured or not
EndCapture ==
    /\ consumer.pc = "capture"
    /\ \/ captured' = Units /\ source' = "SUCCEEDED" /\ UNCHANGED fails
       \/ /\ fails < MaxFailures /\ fails' = fails + 1
          /\ source' \in {"PARTIAL", "FAILED"}
          /\ UNCHANGED captured
    /\ pcap' = pcap \cup (captured' \ captured)
    /\ consumer' = NoWork
    /\ UNCHANGED <<row, created, captures, extractions, handler, serving, results,
                   requests, stops, locked>>

\* Mutant: a job that is taken up again forgets the units that failed.
TakeForgets(e) ==
    /\ consumer.pc = "take" /\ Oldest(e)
    /\ extractions' = [extractions EXCEPT ![e] = @ - 1]
    /\ LET ended == row[e].status \in Terminal IN
       /\ row' = IF ~ended /\ row[e].cancel
                 THEN [row EXCEPT ![e].status = "CANCELED"] ELSE row
       /\ consumer' = IF ended \/ row[e].cancel THEN NoWork
                      ELSE [NoWork EXCEPT !.pc = "begin", !.job = e,
                                          !.cursor = row[e].cursor,
                                          !.failed = {}]
    /\ UNCHANGED <<source, created, captures, handler, serving, files, bounds, locked>>

\* _worker_loop reads the row: an ended job is dropped, a canceled one ended,
\* and a live one run from the progress of its row
Take(e) ==
    /\ consumer.pc = "take" /\ Oldest(e)
    /\ extractions' = [extractions EXCEPT ![e] = @ - 1]
    /\ LET ended == row[e].status \in Terminal IN
       /\ row' = IF ~ended /\ row[e].cancel
                 THEN [row EXCEPT ![e].status = "CANCELED"] ELSE row
       /\ consumer' = IF ended \/ row[e].cancel THEN NoWork
                      ELSE [NoWork EXCEPT !.pc = "begin", !.job = e,
                                          !.cursor = row[e].cursor,
                                          !.failed = row[e].failed]
    /\ UNCHANGED <<source, created, captures, handler, serving, files, bounds, locked>>

\* the end of run, with a status and the progress so far
Write(status) ==
    row' = [row EXCEPT ![consumer.job] =
                [@ EXCEPT !.status = status, !.cursor = consumer.cursor,
                          !.failed = consumer.failed]]

\* Mutant: the state of the source is not looked at again.
BeginAnyway ==
    /\ consumer.pc = "begin"
    /\ row' = [row EXCEPT ![consumer.job].status = "ANALYZING"] /\ Goes("next")
    /\ UNCHANGED <<source, created, captures, extractions, handler, serving, files,
                   bounds, locked>>

Begin ==
    /\ consumer.pc = "begin"
    /\ IF source \in {"SUCCEEDED", "PARTIAL"}
       THEN row' = [row EXCEPT ![consumer.job].status = "ANALYZING"] /\ Goes("next")
       ELSE Write("FAILED") /\ consumer' = NoWork
    /\ UNCHANGED <<source, created, captures, extractions, handler, serving, files,
                   bounds, locked>>

Canceled == row[consumer.job].cancel

\* Between two units: canceled, stopping, giving way to a capture, done, or
\* the next unit.
StartUnit ==
    /\ consumer.pc = "next" /\ consumer.cursor < Count
    /\ ~Canceled /\ serving /\ captures = <<>>
    /\ Goes("unit")
    /\ UNCHANGED <<source, row, created, captures, extractions, handler, serving,
                   files, bounds, locked>>

\* Mutant: a job gives way whatever waits.
YieldAlways ==
    /\ consumer.pc = "next" /\ consumer.cursor < Count
    /\ ~Canceled /\ serving
    /\ Write("QUEUED")
    /\ Enqueue(consumer.job)
    /\ consumer' = NoWork
    /\ UNCHANGED <<source, created, captures, handler, serving, files, bounds, locked>>

Yield ==
    /\ consumer.pc = "next" /\ consumer.cursor < Count
    /\ ~Canceled /\ serving /\ captures # <<>>
    /\ Write("QUEUED")
    /\ Enqueue(consumer.job)
    /\ consumer' = NoWork
    /\ UNCHANGED <<source, created, captures, handler, serving, files, bounds, locked>>

\* TaskCanceledError: between two units, while the command of a unit runs, or
\* when it has ended
RunCanceled ==
    /\ consumer.pc \in {"next", "unit", "judge"} /\ Canceled
    /\ consumer.pc = "next" => consumer.cursor < Count
    /\ Write("CANCELED")
    /\ consumer' = NoWork
    /\ UNCHANGED <<source, created, captures, extractions, handler, serving, files,
                   bounds, locked>>

\* TaskServiceStoppingError
RunStopped ==
    /\ consumer.pc \in {"next", "unit", "judge"} /\ ~serving
    /\ consumer.pc = "next" => consumer.cursor < Count /\ ~Canceled
    /\ Write("QUEUED")
    /\ consumer' = NoWork
    /\ UNCHANGED <<source, created, captures, extractions, handler, serving, files,
                   bounds, locked>>

\* The command of a unit: extract_one of the steps that are missing needs the
\* PCAP, and deletes it unless this job retains it; it may fail before, in
\* between or after.
Command ==
    LET u == consumer.cursor + 1
        e == consumer.job
        possible == u \in captured /\ (u \in pcap \/ e \subseteq results[u])
        extracted == [results EXCEPT ![u] = @ \cup e]
        retired == IF Retains(e, u) THEN pcap ELSE pcap \ {u}
        Ends(code) == consumer' = [consumer EXCEPT !.pc = "judge", !.code = code]
    IN
    /\ consumer.pc = "unit"
    /\ \/ ~possible /\ Ends(FALSE) /\ UNCHANGED <<results, pcap, fails>>
       \/ possible /\ Ends(TRUE) /\ results' = extracted /\ pcap' = retired
          /\ UNCHANGED fails
       \/ /\ possible /\ Ends(FALSE)
          /\ fails < MaxFailures /\ fails' = fails + 1
          /\ \/ UNCHANGED <<results, pcap>>
             \/ results' = extracted /\ pcap' \in {pcap, retired}
    /\ UNCHANGED captured
    /\ UNCHANGED <<source, row, created, captures, extractions, handler, serving,
                   requests, stops, locked>>

\* The job verifies the receipt and what became of the PCAP, and saves how far
\* it is.
Judge ==
    LET u == consumer.cursor + 1
        e == consumer.job
        valid == /\ consumer.code /\ e \subseteq results[u]
                 /\ Retains(e, u) <=> u \in pcap
        failed == IF valid THEN consumer.failed ELSE consumer.failed \cup {u}
    IN
    /\ consumer.pc = "judge"
    /\ ~Canceled /\ serving
    /\ consumer' = [consumer EXCEPT !.pc = "next", !.cursor = u, !.failed = failed]
    /\ row' = [row EXCEPT ![e] = [@ EXCEPT !.cursor = u, !.failed = failed]]
    /\ UNCHANGED <<source, created, captures, extractions, handler, serving, files,
                   bounds, locked>>

\* The manifest of the source is written before the status of the job.
Finish ==
    /\ consumer.pc = "next" /\ consumer.cursor >= Count
    /\ \/ /\ Write(IF consumer.failed = {} THEN "SUCCEEDED"
                   ELSE IF consumer.failed = Units THEN "FAILED" ELSE "PARTIAL")
          /\ UNCHANGED fails
       \/ /\ fails < MaxFailures /\ fails' = fails + 1     \* refresh_manifest raises
          /\ Write("FAILED")
    /\ consumer' = NoWork
    /\ UNCHANGED <<source, created, captures, extractions, handler, serving, files,
                   requests, stops, locked>>
-----------------------------------------------------------------------------
(* The process                                                             *)

\* shutdown sets the stop event; the consumer sees it later, or never
Shutdown ==
    /\ serving /\ stops < MaxStops
    /\ serving' = FALSE /\ stops' = stops + 1
    /\ UNCHANGED <<source, row, created, captures, extractions, consumer, handler,
                   files, requests, fails, locked>>

\* The process dies, after a shutdown or not; the next one recovers the rows
\* and fills both queues from the rows that wait.
Recovered(r) ==
    IF r.status \in Terminal \cup {"none"} THEN r
    ELSE [r EXCEPT !.status = IF r.cancel THEN "CANCELED" ELSE "QUEUED"]

\* the waiting captures of other sources
Others == [i \in 1 .. Cardinality({j \in DOMAIN captures : captures[j] = Other}) |-> Other]

\* Mutant: a job that ran when the process died is not queued again.
RestartSome ==
    /\ \/ ~serving /\ UNCHANGED stops
       \/ serving /\ stops < MaxStops /\ stops' = stops + 1
    /\ serving' = TRUE
    /\ consumer' = NoWork /\ handler' = NoCall
    /\ submitter' = Nobody /\ stranded' = {} /\ astray' = FALSE
    /\ source' = IF source \in Terminal THEN source ELSE "QUEUED"
    /\ captures' = (IF source \in Terminal THEN <<>> ELSE <<Source>>) \o Others
    /\ row' = [e \in Jobs |-> Recovered(row[e])]
    /\ extractions' = [e \in Jobs |-> IF row[e].status = "QUEUED" THEN 1 ELSE 0]
    /\ UNCHANGED <<created, files, requests, fails>>

Restart ==
    /\ \/ ~serving /\ UNCHANGED stops
       \/ serving /\ stops < MaxStops /\ stops' = stops + 1
    /\ serving' = TRUE
    /\ consumer' = NoWork /\ handler' = NoCall
    /\ submitter' = Nobody /\ stranded' = {} /\ astray' = FALSE
    /\ source' = IF source \in Terminal THEN source ELSE "QUEUED"
    /\ captures' = (IF source \in Terminal THEN <<>> ELSE <<Source>>) \o Others
    /\ row' = [e \in Jobs |-> Recovered(row[e])]
    /\ extractions' = [e \in Jobs |-> IF row'[e].status = "QUEUED" THEN 1 ELSE 0]
    /\ UNCHANGED <<created, files, requests, fails>>

Consume == \/ TakeCapture \/ PollEmpty \/ EndCapture \/ Begin \/ StartUnit \/ Yield
           \/ RunCanceled \/ RunStopped \/ Command \/ Judge \/ Finish
           \/ \E e \in Jobs : Take(e)
Call == CancelRequest \/ CancelMark \/ PutJob \/ PutSource
Requests == \/ \E e \in Jobs : \/ \E keep \in Policies : Submit(e, keep)
                               \/ Resubmit(e) \/ ResumeJob(e) \/ CancelRead(e)
            \/ ResumeSource \/ SubmitOther

Next == Requests \/ Call \/ Consume \/ Shutdown \/ Restart

\* The consumer and the HTTP threads are scheduled, and a process that stops
\* is started again by the service manager.
Fairness == WF_vars(Consume) /\ WF_vars(Call) /\ WF_vars(~serving /\ Restart)

Spec == Init /\ [][Next]_vars /\ Fairness
-----------------------------------------------------------------------------
(* Properties                                                              *)

TypeOK ==
    /\ source \in Terminal \cup {"QUEUED", "CAPTURING"}
    /\ row \in [Jobs -> [status : Terminal \cup {"none", "QUEUED", "ANALYZING",
                                                 "CANCELING"},
                         cancel : BOOLEAN, cursor : 0..Count,
                         failed : SUBSET Units, keep : 0..Count]]
    /\ created \in Seq(Jobs)
    /\ captures \in Seq({Source, Other})
    /\ extractions \in [Jobs -> Nat]
    /\ consumer \in [pc : {"poll", "capture", "take", "begin", "next", "unit", "judge"},
                     job : Jobs \cup {NoExtraction}, cursor : 0..Count,
                     failed : SUBSET Units, code : BOOLEAN]
    /\ handler \in [pc : {"idle", "request", "mark"}, job : Jobs \cup {NoExtraction},
                    seen : Terminal \cup {"none", "QUEUED", "ANALYZING", "CANCELING"}]
    /\ submitter \in [has : {"nothing", "job", "source"}, job : Jobs \cup {NoExtraction}]
    /\ stranded \subseteq Jobs /\ astray \in BOOLEAN
    /\ serving \in BOOLEAN
    /\ captured \subseteq Units /\ pcap \subseteq captured
    /\ results \in [Units -> SUBSET Steps]

\* A job that says it succeeded has verified every unit, over all the times it
\* gave way, stopped, crashed, was canceled and taken up again.
SuccessIsComplete ==
    \A e \in Jobs : row[e].status = "SUCCEEDED" => \A u \in Units : e \subseteq results[u]

\* A PCAP is only gone when a job that was not to retain it has extracted its
\* steps; positions count from the first unit, wherever a run continued.
RetentionHonoured ==
    \A u \in captured \ pcap :
        \E e \in Jobs : Exists(e) /\ u > row[e].keep /\ e \subseteq results[u]

\* What the rows say of the files is true.
RowsTellTheFiles == TypeOK /\ SuccessIsComplete /\ RetentionHonoured

\* A job that waits has an entry in the queue of a process that serves, or will
\* have it when the call that wrote its row goes on; only a submit or resume that
\* raised between the two leaves one without, until the next start of the Worker.
NoExtractionLost ==
    serving => \A e \in Jobs : row[e].status = "QUEUED" =>
        \/ extractions[e] > 0 \/ consumer.job = e
        \/ submitter.job = e \/ e \in stranded

\* No unit is started while its source has ended without a capture to read, waits
\* in the queue or is captured: by the check of resume, the check of run or the
\* captures that go first, also when a cancel, a resume and a submit of the same
\* job overlap.  What they do not see is a resume of the source that has written
\* the row and not its queue entry, or that raised in between.
UnitsStartAtRest ==
    [][consumer.pc = "next" /\ consumer'.pc = "unit"
         => \/ source \in {"SUCCEEDED", "PARTIAL"}
            \/ source = "QUEUED" /\ (submitter.has = "source" \/ astray)]_vars

\* Once no more captures arrive, a job in the queue gets its turn and ends.  (While
\* they do arrive it may be passed over for ever: captures go first.)
ExtractionEnds ==
    <>[](captures = <<>>) =>
        \A e \in Jobs : extractions[e] > 0 ~> row[e].status \in Terminal \cup {"CANCELING"}

\* "cancel the extraction first": a job that was canceled ends, and then lets
\* its source be resumed.
CancelingEnds ==
    \A e \in Jobs : row[e].status = "CANCELING" ~> row[e].status # "CANCELING"
=============================================================================
