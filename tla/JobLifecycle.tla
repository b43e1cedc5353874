---------------------------- MODULE JobLifecycle ----------------------------
(***************************************************************************)
(* What the Master promises of an experiment, whatever threads, pools and  *)
(* callbacks carry it out: it is open until its last target has settled,   *)
(* then has an outcome; an outcome is only given up by a resume, which     *)
(* starts a new round; a deleted experiment stays as it is.                *)
(***************************************************************************)
EXTENDS Naturals

CONSTANTS Jobs, Machines

VARIABLES
    phase,     \* [Jobs -> "ABSENT", "ACTIVE" or the outcome]
    round,     \* [Jobs -> Nat]
    deleted,   \* [Jobs -> BOOLEAN]
    inFlight   \* [Jobs -> targets that have been handed out and not settled]

lifecycleVars == <<phase, round, deleted, inFlight>>

Outcomes == {"SUCCEEDED", "PARTIAL", "FAILED", "CANCELED"}

Init ==
    /\ phase = [j \in Jobs |-> "ABSENT"]
    /\ round = [j \in Jobs |-> 0]
    /\ deleted = [j \in Jobs |-> FALSE]
    /\ inFlight = [j \in Jobs |-> {}]

Open(j) ==
    /\ phase[j] = "ABSENT"
    /\ phase' = [phase EXCEPT ![j] = "ACTIVE"]
    /\ UNCHANGED <<round, deleted, inFlight>>

Dispatch(j) ==
    /\ phase[j] = "ACTIVE"
    /\ inFlight[j] = {}
    /\ inFlight' = [inFlight EXCEPT ![j] = Machines]
    /\ UNCHANGED <<phase, round, deleted>>

\* A target settles; the last one may bring the outcome.
Settle(j, m) ==
    /\ m \in inFlight[j]
    /\ inFlight' = [inFlight EXCEPT ![j] = @ \ {m}]
    /\ \/ UNCHANGED phase
       \/ /\ inFlight[j] = {m}
          /\ \E o \in Outcomes : phase' = [phase EXCEPT ![j] = o]
    /\ UNCHANGED <<round, deleted>>

\* Refused, or canceled, before it was handed out.
Close(j) ==
    /\ phase[j] = "ACTIVE"
    /\ inFlight[j] = {}
    /\ \E o \in {"FAILED", "CANCELED"} : phase' = [phase EXCEPT ![j] = o]
    /\ UNCHANGED <<round, deleted, inFlight>>

Resume(j) ==
    /\ phase[j] \in Outcomes \ {"SUCCEEDED"}
    /\ ~deleted[j]
    /\ phase' = [phase EXCEPT ![j] = "ACTIVE"]
    /\ round' = [round EXCEPT ![j] = @ + 1]
    /\ UNCHANGED <<deleted, inFlight>>

Delete(j) ==
    /\ phase[j] \in Outcomes
    /\ deleted' = [deleted EXCEPT ![j] = TRUE]
    /\ UNCHANGED <<phase, round, inFlight>>

\* The Master dies and forgets what it had handed out.
Forget ==
    /\ inFlight' = [j \in Jobs |-> {}]
    /\ UNCHANGED <<phase, round, deleted>>

Next ==
    \/ \E j \in Jobs : Open(j) \/ Dispatch(j) \/ Close(j) \/ Resume(j) \/ Delete(j)
    \/ \E j \in Jobs, m \in Machines : Settle(j, m)
    \/ Forget

Spec == Init /\ [][Next]_lifecycleVars

TypeOK ==
    /\ phase \in [Jobs -> {"ABSENT", "ACTIVE"} \cup Outcomes]
    /\ round \in [Jobs -> Nat]
    /\ deleted \in [Jobs -> BOOLEAN]
    /\ inFlight \in [Jobs -> SUBSET Machines]

\* Nothing runs for an experiment that does not exist or has its outcome, so
\* that a resume starts alone (_sync_job_status_locked of dispatcher.py).
EndedJobIsQuiet == \A j \in Jobs : phase[j] # "ACTIVE" => inFlight[j] = {}
=============================================================================
