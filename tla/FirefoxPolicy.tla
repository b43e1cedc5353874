---------------------------- MODULE FirefoxPolicy ----------------------------
(***************************************************************************)
(* FirefoxNetworkPolicy (browser_firefox.py): the observer of Firefox's    *)
(* network events.  A response from the cache spoils a capture, unless it  *)
(* is an image that this very document has downloaded in full before.      *)
(*                                                                         *)
(* The browser (external) sends the events of each request in order, but   *)
(* those of several requests and navigations in any order: a response may  *)
(* arrive after its document is gone, and a navigation is announced while  *)
(* the old document still lives and asks for images.  The fields `doc',    *)
(* `nav' and `epoch' of a request record what document really asked for    *)
(* it, and after how many navigations and in which observation it was      *)
(* announced; no code reads them.  A redirect hop has an identity of its   *)
(* own and is a request here.                                              *)
(***************************************************************************)
EXTENDS Naturals, Sequences, FiniteSetsExt

CONSTANTS
    Contexts,   \* the browsing contexts: the page and its frames
    Requests,   \* the requests, numbers in the order they are sent
    Urls,       \* their addresses
    MaxNavigations, \* bound: navigations of all contexts together
    MaxResets       \* bound: times the observation starts anew

VARIABLES
    page,       \* context -> the navigation that brought its document, 0 the first
    navigations, \* context -> how many navigations the browser has announced
    epoch,      \* the number of the observation
    request,    \* request -> what the browser has done with it
    documents,  \* _documents: context -> document generation
    observed,   \* _observed_requests
    downloaded, \* _downloaded_images
    reuses,     \* _image_reuses
    hits,       \* _cache_hits
    initializations, \* _initializations: intercepted requests to reject
    blocking,   \* _blocking
    errors,     \* an error was recorded
    closed      \* a check raised and the policy is closed

world == <<page, navigations, epoch, request>>
ledger == <<documents, observed, downloaded, reuses, hits>>
intercepts == <<initializations, blocking, errors>>
vars == <<world, ledger, intercepts, closed>>

-----------------------------------------------------------------------------
(* _observe_image_reuse. *)

Scope(c) == <<c, documents[c]>>

\* The request is one this document was seen to send.
Known(r, u) ==
    r \in DOMAIN observed /\ observed[r].scope = Scope(request[r].context) /\ observed[r].url = u

ImageRequest(r) == observed[r].image /\ ~observed[r].failed

\* An image from the cache is a reuse when another request of the document
\* downloaded it.
Reuses(r, u) ==
    /\ Known(r, u) /\ ImageRequest(r)
    /\ \E d \in downloaded : d.scope = Scope(request[r].context) /\ d.url = u /\ d.by # r

FromCache(from) == from \in {"cache", "revalidated"}

\* Mutant: only a fromCache flag makes a hit, and a revalidated response does not.
ObserveCachedOfDisk(r, u, from) ==
    LET reuse == from = "cache" /\ Reuses(r, u)
    IN  /\ observed' = IF Known(r, u) THEN [observed EXCEPT ![r].cached = TRUE] ELSE observed
        /\ reuses' = IF reuse THEN reuses \cup {r} ELSE reuses
        /\ hits' = IF reuse \/ from = "revalidated" THEN hits ELSE hits \cup {r}
        /\ UNCHANGED <<documents, downloaded>>

\* A cached response is a reuse or a hit; it never counts as a download.
ObserveCached(r, u, from) ==
    LET reuse == from = "cache" /\ Reuses(r, u)
    IN  /\ observed' = IF Known(r, u) THEN [observed EXCEPT ![r].cached = TRUE] ELSE observed
        /\ reuses' = IF reuse THEN reuses \cup {r} ELSE reuses
        /\ hits' = IF reuse THEN hits ELSE hits \cup {r}
        /\ UNCHANGED <<documents, downloaded>>

\* A completed response from the network makes the image available.
ObserveDownload(r, u, bytes) ==
    /\ downloaded' =
        IF Known(r, u) /\ ImageRequest(r) /\ ~observed[r].cached /\ bytes
        THEN {d \in downloaded : <<d.scope, d.url>> # <<Scope(request[r].context), u>>}
                \cup {[scope |-> Scope(request[r].context), url |-> u, by |-> r]}
        ELSE downloaded
    /\ UNCHANGED <<documents, observed, reuses, hits>>

-----------------------------------------------------------------------------
(* The browser's events, as _handle_event takes them. *)

Unsent == [phase |-> "unsent"]

Init ==
    /\ page = [c \in Contexts |-> 0] /\ navigations = page /\ epoch = 0
    /\ request = [r \in Requests |-> Unsent]
    /\ documents = [c \in Contexts |-> 0]
    /\ observed = [r \in {} |-> Unsent]
    /\ downloaded = {} /\ reuses = {} /\ hits = {}
    /\ initializations = <<>> /\ blocking = {} /\ errors = FALSE
    /\ closed = FALSE

\* _handle_event: a request the browser has stopped is put down for rejection.
Intercept(r, isBlocked) ==
    IF isBlocked THEN initializations' = Append(initializations, r) /\ blocking' = blocking \cup {r}
    ELSE UNCHANGED <<initializations, blocking>>

\* The document of a context asks for something (external).
Send(r, c, u, image) ==
    /\ request[r] = Unsent /\ \A x \in Requests : x < r => request[x] # Unsent
    /\ request' = [request EXCEPT ![r] =
          [phase |-> "asked", context |-> c, url |-> u, image |-> image, from |-> "none",
           doc |-> page[c], nav |-> 0, epoch |-> 0]]
    /\ UNCHANGED <<page, navigations, epoch, ledger, intercepts, closed>>

\* network.beforeRequestSent; an excluded address is intercepted.
BeforeRequestSent(r, isBlocked) ==
    LET c == request[r].context
    IN  /\ ~closed /\ request[r].phase = "asked"
        /\ request' = [request EXCEPT ![r].phase = IF isBlocked THEN "held" ELSE "sent",
                                      ![r].nav = navigations[c], ![r].epoch = epoch]
        /\ observed' = [x \in DOMAIN observed \cup {r} |->
              IF x = r THEN [scope |-> Scope(c), url |-> request[r].url,
                             image |-> request[r].image, cached |-> FALSE, failed |-> FALSE]
              ELSE observed[x]]
        /\ Intercept(r, isBlocked)
        /\ UNCHANGED <<page, navigations, epoch, documents, downloaded, reuses, hits, errors,
                       closed>>

\* network.responseStarted: the first news of where the response is from.
ResponseStarted(r, from) ==
    /\ ~closed /\ request[r].phase = "sent"
    /\ request' = [request EXCEPT ![r].phase = "started", ![r].from = from]
    /\ IF FromCache(from) THEN ObserveCached(r, request[r].url, from) ELSE UNCHANGED ledger
    /\ UNCHANGED <<page, navigations, epoch, intercepts, closed>>

\* network.responseCompleted, with or without a body.
ResponseCompleted(r, bytes) ==
    /\ ~closed /\ request[r].phase = "started"
    /\ request' = [request EXCEPT ![r].phase = IF bytes THEN "completed" ELSE "empty"]
    /\ IF FromCache(request[r].from) THEN ObserveCached(r, request[r].url, request[r].from)
       ELSE ObserveDownload(r, request[r].url, bytes)
    /\ UNCHANGED <<page, navigations, epoch, intercepts, closed>>

\* network.fetchError.
FetchError(r) ==
    /\ ~closed /\ request[r].phase \in {"sent", "started"}
    /\ request' = [request EXCEPT ![r].phase = "failed"]
    /\ observed' = IF Known(r, request[r].url)
                   THEN [observed EXCEPT ![r].failed = TRUE] ELSE observed
    /\ UNCHANGED <<page, navigations, epoch, documents, downloaded, reuses, hits, intercepts,
                   closed>>

Announced == MapThenSumSet(LAMBDA x : navigations[x], Contexts)

\* Mutant: a navigation empties the images of the page and keeps its generation.
NavigationForgets(c) ==
    /\ ~closed /\ Announced < MaxNavigations
    /\ navigations' = [navigations EXCEPT ![c] = @ + 1]
    /\ UNCHANGED documents
    /\ downloaded' = {d \in downloaded : d.scope[1] # c}
    /\ UNCHANGED <<page, epoch, request, observed, reuses, hits, intercepts, closed>>

\* browsingContext.navigationStarted or contextDestroyed.
NavigationStarted(c) ==
    /\ ~closed /\ Announced < MaxNavigations
    /\ navigations' = [navigations EXCEPT ![c] = @ + 1]
    /\ documents' = [documents EXCEPT ![c] = @ + 1]
    /\ downloaded' = {d \in downloaded : d.scope[1] # c}
    /\ UNCHANGED <<page, epoch, request, observed, reuses, hits, intercepts, closed>>

\* A navigation that was announced replaces the document; others may never do so
\* (external).
Commit(c) ==
    /\ \E n \in page[c] + 1 .. navigations[c] : page' = [page EXCEPT ![c] = n]
    /\ UNCHANGED <<navigations, epoch, request, ledger, intercepts, closed>>

-----------------------------------------------------------------------------
(* The other threads. *)

\* _initialize_loop: network.failRequest, answered or not.
Reject(ok) ==
    /\ initializations # <<>>
    /\ LET r == Head(initializations)
       IN  /\ initializations' = Tail(initializations)
           /\ blocking' = blocking \ {r}
           /\ errors' = (errors \/ ~ok)
           /\ request' = [request EXCEPT ![r].phase = IF ok THEN "rejected" ELSE "held"]
    /\ UNCHANGED <<page, navigations, epoch, ledger, closed>>

\* check passes: nothing held, no error and no cached response.
CheckPasses == blocking = {} /\ ~errors /\ hits = {}

\* check raises: by an error, a hit, or the timeout of a rejection.
CheckRaises ==
    /\ ~closed /\ ~CheckPasses
    /\ closed' = TRUE
    /\ UNCHANGED <<world, ledger, intercepts>>

\* reset_observation: what was seen before proves nothing from here on.
ResetObservation ==
    /\ ~closed /\ CheckPasses /\ epoch < MaxResets
    /\ epoch' = epoch + 1
    /\ documents' = [c \in Contexts |-> 0]
    /\ observed' = [r \in {} |-> Unsent]
    /\ downloaded' = {} /\ reuses' = {} /\ hits' = {}
    /\ UNCHANGED <<page, navigations, request, intercepts, closed>>

Next ==
    \/ \E r \in Requests, c \in Contexts, u \in Urls, image \in BOOLEAN : Send(r, c, u, image)
    \/ \E r \in Requests :
          \/ \E isBlocked \in BOOLEAN : BeforeRequestSent(r, isBlocked)
          \/ \E from \in {"network", "cache", "revalidated"} : ResponseStarted(r, from)
          \/ \E bytes \in BOOLEAN : ResponseCompleted(r, bytes)
          \/ FetchError(r)
    \/ \E c \in Contexts : NavigationStarted(c) \/ Commit(c)
    \/ \E ok \in BOOLEAN : Reject(ok)
    \/ CheckRaises
    \/ ResetObservation

Spec == Init /\ [][Next]_vars

-----------------------------------------------------------------------------
(* Properties. *)

TypeOK ==
    /\ {page, navigations, documents} \subseteq [Contexts -> 0 .. MaxNavigations]
    /\ epoch \in 0 .. MaxResets
    /\ DOMAIN request = Requests /\ DOMAIN observed \subseteq Requests
    /\ \A r \in Requests : request[r].phase \in
          {"unsent", "asked", "held", "sent", "started", "completed", "empty", "failed", "rejected"}
    /\ \A d \in downloaded : d.by \in Requests /\ d.url \in Urls /\ d.scope[1] \in Contexts
    /\ reuses \subseteq Requests /\ hits \subseteq Requests /\ blocking \subseteq Requests
    /\ errors \in BOOLEAN /\ closed \in BOOLEAN

\* The network gave r's response in full to the document that asked for it.
Fetched(r) ==
    request[r].phase = "completed" /\ request[r].from = "network" /\ request[r].image

\* s was fetched from the network in full, for the address and the context of r, and
\* no navigation and no new observation came between the news of the two.
Vouches(s, r) ==
    /\ Fetched(s) /\ request[s].url = request[r].url
    /\ request[s].context = request[r].context
    /\ request[s].nav = request[r].nav /\ request[s].epoch = request[r].epoch

\* A navigation had been announced when r was, and r is of the document before.
Overtaken(r) == request[r].doc < request[r].nav

\* A cached response that is let through is an image that another request took
\* from the network in full in the same generation of its context: no late
\* response of a generation left behind, failed load or earlier observation
\* vouches for it.  The two are of one document, as browser_firefox.py:37-42
\* asks, unless a navigation overtook the news of one of them: what the old
\* document still asks for then counts for the new one.
Excuses(s, r) ==
    /\ Vouches(s, r)
    /\ request[s].doc = request[r].doc \/ Overtaken(s) \/ Overtaken(r)
ReuseIsSameGeneration == \A r \in reuses : \E s \in Requests \ {r} : Excuses(s, r)

\* Every cached response heard of in this observation is either one of those
\* reuses or a hit that the next check reports.
CachedIsAccounted ==
    \A r \in Requests :
        (request[r].phase # "unsent" /\ request[r].epoch = epoch /\ FromCache(request[r].from))
            => r \in hits \cup reuses

=============================================================================
