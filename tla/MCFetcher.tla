----------------------------- MODULE MCFetcher ------------------------------
(***************************************************************************)
(* The command that captures: CaptureRun (the units of one run) and        *)
(* CaptureSession (the attempts at one unit).  A behaviour is a behaviour  *)
(* of the one that component names, the other stays as it begins.          *)
(***************************************************************************)
EXTENDS CaptureRun, CaptureSession

VARIABLE component
allVars == <<component, vars, sessionVars>>

\* A page occurs twice in the input; two names for the profiles of three
\* attempts.
TwiceA == <<"a", "b", "a">>

AllInit ==
    /\ component \in {"run", "session"}
    /\ Init /\ SessionInit
    /\ component # "run" => linux

OfRun(A) == component = "run" /\ A /\ UNCHANGED <<component, sessionVars>>
OfSession(A) == component = "session" /\ A /\ UNCHANGED <<component, vars>>

AllNext ==
    \/ OfRun(Next)
    \/ OfSession(SessionNext)

\* The fairness of CaptureRun and CaptureSession.
AllSpec ==
    /\ AllInit /\ [][AllNext]_allVars
    /\ WF_allVars(OfRun(MainStep)) /\ WF_allVars(OfRun(ConsumerStep))
    /\ WF_allVars(OfRun(TimePasses))
    /\ WF_allVars(OfSession(Fetch)) /\ WF_allVars(OfSession(Tool))
    /\ WF_allVars(OfSession(Cleaner))

=============================================================================
