------------------------------ MODULE RetryRun ------------------------------
(***************************************************************************)
(* A retry of the captures that a batch failed on                          *)
(* (analysis_scripts/retry_failed.py): a pool of threads works on the      *)
(* entries, the main thread records what ended, a shared flag stops them   *)
(* all, and the operator may run the retry again after it has ended or     *)
(* has been killed.  What the stages compute is in FlowTables.             *)
(*                                                                         *)
(* Abstracted: the content of the files (an output is the set of stages    *)
(* that wrote it, each with the version of the input it read), the hashes  *)
(* (a version number), timings, and the lock, under which one retry of a   *)
(* folder runs at a time.                                                  *)
(***************************************************************************)
EXTENDS Naturals, Sequences, FiniteSets

CONSTANTS
    Pcaps,           \* the failed entries of the old run
    Workers,         \* --workers
    Captures,        \* what a capture may be: [damage, key, tcp]
    MaxRetries,      \* bound: times the operator starts the retry
    MaxRetryFaults   \* bound: failing stages, full disks, changed inputs

ASSUME RetryAssumption ==
    Captures \subseteq [damage : STRING, key : BOOLEAN, tcp : BOOLEAN]

VARIABLES
    capture,    \* pcap -> what it is
    version,    \* pcap -> version of the file; the old batch has seen 0
    rows,       \* results.jsonl: pcap -> its last row
    outputs,    \* pcap -> its attempt folders, in order
    job,        \* pcap -> the pool's work on it
    stop,       \* STOP
    main,       \* the main thread: "down", "running", "aborting", "ended"
    report,     \* status of progress.json
    orphans,    \* stages that outlived a killed retry: <<pcap, attempt, stage>>
    retries, retryFaults

retryVars ==
    <<capture, version, rows, outputs, job, stop, main, report, orphans, retries, retryFaults>>

NoRow == [status |-> "none", attempt |-> 0]
Idle == [pc |-> "idle", before |-> 0, attempt |-> 0, status |-> "failed", stage |-> 0]
Settled == {"success", "partial", "no_eligible_packets"}

RetryInit ==
    /\ capture \in [Pcaps -> Captures]
    /\ version = [p \in Pcaps |-> 0]
    /\ rows = [p \in Pcaps |-> NoRow]
    /\ outputs = [p \in Pcaps |-> <<>>]
    /\ job = [p \in Pcaps |-> Idle]
    /\ stop = FALSE /\ main = "down" /\ report = "none"
    /\ orphans = {} /\ retries = 0 /\ retryFaults = 0

RetryFault == retryFaults < MaxRetryFaults /\ retryFaults' = retryFaults + 1
NoFault == UNCHANGED retryFaults

At(p, pc) == job[p].pc = pc
Go(p, pc) == job' = [job EXCEPT ![p].pc = pc]
\* An exception of retry() goes to its finally clause.
Raises(p) == job' = [job EXCEPT ![p].pc = "finally", ![p].status = "failed"]

-----------------------------------------------------------------------------
(* The main thread. *)

\* main: entries whose last row is settled are left out, --limit takes the
\* first of the others.
Start(limited) ==
    /\ main \in {"down", "ended"} /\ retries < MaxRetries
    /\ retries' = retries + 1 /\ main' = "running" /\ report' = "RUNNING" /\ stop' = FALSE
    /\ LET pending == {p \in Pcaps : rows[p].status \notin Settled}
           chosen == IF limited /\ pending # {} THEN {CHOOSE p \in pending : TRUE} ELSE pending
       IN  job' = [p \in Pcaps |-> IF p \in chosen THEN [Idle EXCEPT !.pc = "queued"] ELSE Idle]
    /\ UNCHANGED <<capture, version, rows, outputs, orphans, retryFaults>>

\* as_completed: the row of a finished entry is appended.
Collect(p) ==
    /\ main = "running" /\ At(p, "done")
    /\ rows' = [rows EXCEPT ![p] = [status |-> job[p].status, attempt |-> job[p].attempt]]
    /\ Go(p, "idle")
    /\ UNCHANGED <<capture, version, outputs, stop, main, report, orphans, retries, retryFaults>>

\* A result that raises leaves the loop; the pool is waited for all the same.
CollectRaises(p) ==
    /\ main = "running" /\ At(p, "raised")
    /\ main' = "aborting" /\ Go(p, "idle")
    /\ UNCHANGED <<capture, version, rows, outputs, stop, report, orphans, retries, retryFaults>>

PoolIdle == \A p \in Pcaps : job[p].pc \in {"idle", "done", "raised"}

End ==
    /\ main = "running" /\ \A p \in Pcaps : At(p, "idle")
    /\ main' = "ended"
    /\ report' = IF stop THEN "STOPPED"
                 ELSE IF \E p \in Pcaps : rows[p] = NoRow THEN "INCOMPLETE" ELSE "COMPLETED"
    /\ UNCHANGED <<capture, version, rows, outputs, job, stop, orphans, retries, retryFaults>>

Abort ==
    /\ main = "aborting" /\ PoolIdle
    /\ main' = "down" /\ job' = [p \in Pcaps |-> Idle]
    /\ UNCHANGED <<capture, version, rows, outputs, stop, report, orphans, retries, retryFaults>>

\* The retry is killed: its threads are gone, its stages are sessions of
\* their own and go on.
Kill ==
    /\ main \in {"running", "aborting"} /\ RetryFault
    /\ main' = "down" /\ job' = [p \in Pcaps |-> Idle]
    /\ orphans' = orphans \cup {<<p, job[p].attempt, job[p].stage>> :
                                   p \in {x \in Pcaps : At(x, "stage")}}
    /\ UNCHANGED <<capture, version, rows, outputs, stop, report, retries>>

-----------------------------------------------------------------------------
(* One entry: retry(). *)

Busy == {p \in Pcaps : job[p].pc \in {"folder", "probe", "stage", "finally"}}

\* The signatures of the input, compared with those of the old batch.
Sign(p) ==
    /\ At(p, "queued") /\ Cardinality(Busy) < Workers
    /\ job' = [job EXCEPT ![p].pc = IF version[p] = 0 THEN "folder" ELSE "finally",
                          ![p].before = version[p]]
    /\ UNCHANGED <<capture, version, rows, outputs, stop, main, report, orphans, retries,
                   retryFaults>>

\* check_space: a full disk stops every entry.
SpaceLeft == ~stop /\ NoFault /\ UNCHANGED stop
SpaceGone == (stop /\ NoFault /\ UNCHANGED stop) \/ (~stop /\ RetryFault /\ stop' = TRUE)

\* The signatures cannot be taken: the entry has failed, and nothing is compared.
SignFails(p) ==
    /\ At(p, "queued") /\ Cardinality(Busy) < Workers /\ RetryFault
    /\ job' = [job EXCEPT ![p].pc = "done"]
    /\ UNCHANGED <<capture, version, rows, outputs, stop, main, report, orphans, retries>>

NewAttempt == [wrote |-> {}, validation |-> "none"]

\* Mutant: an attempt reuses the folder of an attempt that left no verdict.
MakeFolderAgain(p) ==
    /\ At(p, "folder")
    /\ \/ /\ SpaceLeft
          /\ outputs' = IF outputs[p] = <<>> \/ outputs[p][Len(outputs[p])].validation # "none"
                       THEN [outputs EXCEPT ![p] = Append(@, NewAttempt)] ELSE outputs
          /\ job' = [job EXCEPT ![p].pc = "probe", ![p].attempt = Len(outputs'[p])]
       \/ SpaceGone /\ Raises(p) /\ UNCHANGED outputs
    /\ UNCHANGED <<capture, version, rows, main, report, orphans, retries>>

\* A new attempt folder, never one that exists.
MakeFolder(p) ==
    /\ At(p, "folder")
    /\ \/ /\ SpaceLeft
          /\ outputs' = [outputs EXCEPT ![p] = Append(@, NewAttempt)]
          /\ job' = [job EXCEPT ![p].pc = "probe", ![p].attempt = Len(outputs[p]) + 1]
       \/ SpaceGone /\ Raises(p) /\ UNCHANGED outputs
    /\ UNCHANGED <<capture, version, rows, main, report, orphans, retries>>

\* prepare_capture: of a capture cut short or damaged the readable records
\* make a new file; one without such a record cannot be worked on.
Prepared(p) == capture[p].damage # "unreadable"

\* prepare_capture and the count of the eligible packets.
Prepare(p) ==
    /\ At(p, "probe")
    /\ IF ~Prepared(p) THEN Raises(p)
       ELSE IF capture[p].tcp
       THEN job' = [job EXCEPT ![p].pc = "stage", ![p].stage = 1]
       ELSE job' = [job EXCEPT ![p].pc = "finally", ![p].status = "no_eligible_packets"]
    /\ UNCHANGED <<capture, version, rows, outputs, stop, main, report, orphans, retries,
                   retryFaults>>

\* The stages of an entry; a capture without keys is not classified.
Stages(p) == IF capture[p].key THEN <<"extract", "classify", "infer", "sequences">>
             ELSE <<"extract", "infer", "sequences">>

Wrote(p, attempt, stage) ==
    outputs' = [outputs EXCEPT ![p][attempt].wrote =
                   {w \in @ : w[1] # Stages(p)[stage]} \cup {<<Stages(p)[stage], version[p]>>}]

Limited(p) == ~capture[p].key \/ capture[p].damage # "none"

\* command: a stage runs to its end; after the last one the results are verified.
RunStage(p) ==
    /\ At(p, "stage") /\ SpaceLeft
    /\ Wrote(p, job[p].attempt, job[p].stage)
    /\ IF job[p].stage < Len(Stages(p)) THEN job' = [job EXCEPT ![p].stage = @ + 1]
       ELSE job' = [job EXCEPT ![p].pc = "finally",
                               ![p].status = IF Limited(p) THEN "partial" ELSE "success"]
    /\ UNCHANGED <<capture, version, rows, main, report, orphans, retries>>

\* A stage is killed when the space is gone, or fails or times out by itself.
StageFails(p) ==
    /\ At(p, "stage") /\ Raises(p)
    /\ SpaceGone \/ (~stop /\ RetryFault /\ UNCHANGED stop)
    /\ UNCHANGED <<capture, version, rows, outputs, main, report, orphans, retries>>

\* finally: an input that has changed fails the entry and stops the others.
Preserved(p) == version[p] = job[p].before

Finally(p) ==
    /\ At(p, "finally")
    /\ LET status == IF Preserved(p) THEN job[p].status ELSE "failed"
           attempt == job[p].attempt
       IN  \/ /\ job' = [job EXCEPT ![p].pc = "done", ![p].status = status]
              /\ outputs' = IF attempt = 0 THEN outputs
                            ELSE [outputs EXCEPT ![p][attempt].validation = status]
              /\ NoFault
           \/ \* validation.json cannot be written.
              /\ attempt # 0 /\ RetryFault
              /\ job' = [job EXCEPT ![p].pc = "raised", ![p].status = status]
              /\ UNCHANGED outputs
    /\ stop' = (stop \/ ~Preserved(p))
    /\ UNCHANGED <<capture, version, rows, main, report, orphans, retries>>

-----------------------------------------------------------------------------
(* The world around. *)

\* Somebody writes to a capture.
Modify(p) ==
    /\ RetryFault /\ version' = [version EXCEPT ![p] = @ + 1]
    /\ UNCHANGED <<capture, rows, outputs, job, stop, main, report, orphans, retries>>

\* A stage of a killed retry ends.
OrphanWrites(o) ==
    /\ o \in orphans /\ orphans' = orphans \ {o}
    /\ Wrote(o[1], o[2], o[3])
    /\ UNCHANGED <<capture, version, rows, job, stop, main, report, retries, retryFaults>>

ThreadStep(p) == Sign(p) \/ SignFails(p) \/ MakeFolder(p) \/ Prepare(p) \/ Finally(p)
StageEnds(p) == RunStage(p) \/ StageFails(p)
Gather(p) == Collect(p) \/ CollectRaises(p)

RetryNext ==
    \/ \E limited \in BOOLEAN : Start(limited)
    \/ \E p \in Pcaps : Gather(p) \/ ThreadStep(p) \/ StageEnds(p) \/ Modify(p)
    \/ End \/ Abort \/ Kill
    \/ \E o \in orphans : OrphanWrites(o)

RetrySpec == RetryInit /\ [][RetryNext]_retryVars

-----------------------------------------------------------------------------
(* Properties. *)

\* retry, main: a row that says an entry is done names an attempt in which
\* every stage wrote, all of them from the capture the old batch saw, and that
\* carries the same verdict; no stage of a killed retry has touched it.
SuccessIsWhole ==
    \A p \in Pcaps : rows[p].status \in {"success", "partial"} =>
        LET folder == outputs[p][rows[p].attempt] IN
        /\ folder.validation = rows[p].status
        /\ folder.wrote = {<<Stages(p)[i], 0>> : i \in DOMAIN Stages(p)}
=============================================================================
