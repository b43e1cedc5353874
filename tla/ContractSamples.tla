--------------------------- MODULE ContractSamples --------------------------
(* A plain request, and the requests that differ from it in one group of    *)
(* fields: the ID and the items, the targets, or the switches.              *)
EXTENDS Naturals, Sequences

Upto(S, n) == UNION {[1 .. k -> S] : k \in 0 .. n}

Item(id, form) == [id |-> id, form |-> form]
PlainTargets == <<[machine |-> "m1", browsers |-> <<"chrome">>]>>
PlainAnalysis ==
    [pipeline |-> FALSE, deletePcap |-> FALSE, steps |-> <<>>, withCoframe |-> FALSE, suffixes |-> <<>>]

Body(id, items, targets, pcap, analysis) ==
    [id |-> id, items |-> items, targets |-> targets, pcap |-> pcap, analysis |-> analysis]

Items == {Item("u", "good"), Item("v", "good"), Item("v", "bad")}
Browsers == {"chrome", "CHROME", "edge", "safari"}
Targeting == {[machine |-> m, browsers |-> b] : m \in {"m1", "m2"}, b \in Upto(Browsers, 2)}
Switches ==
    [pipeline : BOOLEAN, deletePcap : BOOLEAN, steps : Upto({"extract", "infer", "other"}, 2),
     withCoframe : BOOLEAN, suffixes : Upto({"host", ".host", "blank", "dot", "phrase"}, 2)]

SampleBodies ==
    {Body(id, items, PlainTargets, TRUE, PlainAnalysis) :
        id \in {"plain", "reserved", "endsWithDot", "wide", "malformed"}, items \in Upto(Items, 3)}
    \cup {Body("plain", <<Item("u", "good")>>, targets, TRUE, PlainAnalysis) :
             targets \in Upto(Targeting, 1) \cup
                 {<<[machine |-> "m1", browsers |-> <<"chrome">>], t>> : t \in Targeting}}
    \cup {Body("plain", <<Item("u", "good")>>, PlainTargets, pcap, a) : pcap \in BOOLEAN, a \in Switches}

\* Every text above and below, and what the normal forms make of it.
SampleTexts ==
    {"plain", "reserved", "endsWithDot", "wide", "malformed", "u", "v", "m1", "m2",
     "extract", "infer", "other", "", "host", ".host", "blank", "dot", "phrase"}
    \cup Browsers \cup {"firefox"}

SampleWorkers ==
    {[maxItems |-> 3, allowed |-> {"chrome", "edge", "firefox"}, installed |-> {"chrome"}],
     [maxItems |-> 1, allowed |-> {"chrome"}, installed |-> {"chrome", "edge"}]}

=============================================================================
