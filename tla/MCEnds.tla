------------------------------- MODULE MCEnds -------------------------------
(***************************************************************************)
(* What a client asks for: experiments, which pass two gates (JobContract) *)
(* and are handed to the Workers (JobDispatch, under fairness), and        *)
(* extractions a Worker makes later (ExtractionJobs, under fairness).  A   *)
(* behaviour is a behaviour of the one that component names, the others    *)
(* stay as they begin.  The bodies name one or both of two machines.       *)
(***************************************************************************)
EXTENDS ExtractionJobs, JobContract, ContractSamples

CONSTANTS j1, m1, NoJob

VARIABLES
    component,
    \* JobDispatch
    jobStatus, cancelRequested, deleted, round, createdAt, exec, evidence, up, stopping,
    submitting, queue, queued, lock, futures, remaining, router, pool, thread, work, losses,
    masterStops

\* One job for one machine, which is resumed once; a lost call, a stop, targets that raise.
Dispatch == INSTANCE JobDispatch WITH
    Jobs <- {j1}, Machines <- {m1}, MaxQueueSize <- 1, Unfit <- TRUE, Faults <- TRUE,
    MaxRounds <- 1, MaxLosses <- 1, MaxStops <- 1, stops <- masterStops

ASSUME ExtractionJobsAssumption

dispatchVars == <<jobStatus, cancelRequested, deleted, round, createdAt, exec, evidence, up,
                  stopping, submitting, queue, queued, lock, futures, remaining, router, pool,
                  thread, work, losses, masterStops>>
allVars == <<component, dispatchVars, vars, contractVars>>

AllInit ==
    /\ component \in {"dispatch", "extractions", "contract"}
    /\ Dispatch!Init /\ Init /\ ContractInit
    /\ component # "extractions" => source = "SUCCEEDED"
    /\ component # "contract" => \A m \in Machines : worker[m].maxItems = 3

OfDispatch(A) ==
    component = "dispatch" /\ A /\ UNCHANGED <<component, vars, contractVars>>
OfExtraction(A) ==
    component = "extractions" /\ A /\ UNCHANGED <<component, dispatchVars, contractVars>>
OfContract(A) ==
    component = "contract" /\ A /\ UNCHANGED <<component, dispatchVars, vars>>

AllNext == OfDispatch(Dispatch!Next) \/ OfExtraction(Next) \/ OfContract(ContractNext)

\* The fairness of FairSpec in JobDispatch, and Fairness of ExtractionJobs.
AllSpec ==
    /\ AllInit /\ [][AllNext]_allVars
    /\ WF_allVars(OfDispatch(Dispatch!CancelStep))
    /\ WF_allVars(OfDispatch(Dispatch!RouterStep))
    /\ WF_allVars(OfDispatch(Dispatch!Submission(j1)))
    /\ WF_allVars(OfDispatch(Dispatch!TargetStep(m1)))
    /\ WF_allVars(OfDispatch(stopping /\ Dispatch!Exit))
    /\ WF_allVars(OfDispatch(Dispatch!Restart))
    /\ WF_allVars(OfExtraction(Consume))
    /\ WF_allVars(OfExtraction(Call))
    /\ WF_allVars(OfExtraction(~serving /\ Restart))

-----------------------------------------------------------------------------
\* JobDispatch: a job whose Workers end their tasks ends, and a canceled one whose
\* Workers end what they are told to cancel.
JobEnds == Dispatch!JobEnds
CancelEnds == Dispatch!CancelEnds

=============================================================================
