----------------------------- MODULE MCResults ------------------------------
(***************************************************************************)
(* What a capture is worth: ExtractReceipt (the files of one unit),        *)
(* ProgressFeed (what the Master hears of the units), RetryRun (a batch of *)
(* them tried again), FlowTables (what the analysis scripts compute) and    *)
(* NetworkIdle (when the page that is captured is loaded).  A behaviour is *)
(* a behaviour of the one that component names, the others stay as they    *)
(* begin.                                                                  *)
(***************************************************************************)
EXTENDS ExtractReceipt, ProgressFeed, RetryRun, FlowTables, NetworkIdle

VARIABLE component
allVars == <<component, vars, flowVars, retryVars, idleVars, feedVars>>

Packets == INSTANCE FlowSamples
CaptureNetworks == Packets!Samples
NameChoices == {{}, {"x"}}

\* A damaged capture without keys, a whole one with keys, one without traffic
\* and one that cannot be read.
RetryCaptures ==
    {[damage |-> "tail", key |-> FALSE, tcp |-> TRUE],
     [damage |-> "none", key |-> TRUE, tcp |-> TRUE],
     [damage |-> "none", key |-> TRUE, tcp |-> FALSE],
     [damage |-> "unreadable", key |-> TRUE, tcp |-> TRUE]}

\* Pages of a document with an image, a second document, a frame, or a
\* request left over from the page before.
IdlePages == {{"doc", "img"}, {"doc", "doc2"}, {"doc", "sub"}, {"doc", "old"}}
RedirectedPages == {{"doc", "img"}, {"doc", "old"}}

AllInit ==
    /\ component \in {"unit", "flow", "retry", "idle", "feed"}
    /\ Init /\ RetryInit /\ FeedInit /\ FlowInit /\ IdleInit
    /\ component # "flow" =>
          input = [network |-> Packets!Plain, usableKey |-> TRUE, allowUnpaired |-> TRUE, wanted |-> {}]
    /\ component # "retry" =>
          \A p \in Pcaps : capture[p] = [damage |-> "none", key |-> TRUE, tcp |-> TRUE]
    /\ component # "idle" => page = {"doc", "img"}

AllNext ==
    \/ /\ component = "unit" /\ Next
       /\ UNCHANGED <<component, flowVars, retryVars, idleVars, feedVars>>
    \/ /\ component = "flow" /\ FlowNext
       /\ UNCHANGED <<component, vars, retryVars, idleVars, feedVars>>
    \/ /\ component = "retry" /\ RetryNext
       /\ UNCHANGED <<component, vars, flowVars, idleVars, feedVars>>
    \/ /\ component = "idle" /\ IdleNext
       /\ UNCHANGED <<component, vars, flowVars, retryVars, feedVars>>
    \/ /\ component = "feed" /\ FeedNext
       /\ UNCHANGED <<component, vars, flowVars, retryVars, idleVars>>

AllSpec == AllInit /\ [][AllNext]_allVars

=============================================================================
