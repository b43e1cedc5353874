----------------------------- MODULE MCBrowser ------------------------------
(***************************************************************************)
(* The cache and address policies of the browsers: CachePolicy (Chrome and *)
(* Edge) and FirefoxPolicy.  A behaviour is a behaviour of the one that    *)
(* component names, the other stays as it begins.                          *)
(***************************************************************************)
EXTENDS FirefoxPolicy, CachePolicy

VARIABLE component

allVars == <<component, cacheVars, vars>>

AllInit ==
    /\ component \in {"cache", "firefox"}
    /\ Init /\ CacheInit

OfCache(A) == component = "cache" /\ A /\ UNCHANGED <<component, vars>>

AllNext ==
    \/ OfCache(CacheNext)
    \/ component = "firefox" /\ Next /\ UNCHANGED <<component, cacheVars>>

\* The fairness of CachePolicy; nothing is asked of FirefoxPolicy.
AllSpec ==
    /\ AllInit /\ [][AllNext]_allVars
    /\ WF_allVars(OfCache(Serve)) /\ WF_allVars(OfCache(Receive))
    /\ WF_allVars(OfCache(Initializer)) /\ WF_allVars(OfCache(Proceed))

=============================================================================
