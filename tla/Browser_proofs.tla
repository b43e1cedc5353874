---------------------------- MODULE Browser_proofs ----------------------------
(***************************************************************************)
(* Proofs about the policies of the browsers, for any contexts, targets,   *)
(* requests, addresses and bounds.  FirefoxPolicy: a cached image that is  *)
(* excused has been downloaded in the same generation of its context, and  *)
(* every other cached response is a hit.  CachePolicy: a target that runs  *)
(* with its caches is reported, and a check that passes covers every       *)
(* target and page.                                                        *)
(***************************************************************************)
EXTENDS FirefoxPolicy, CachePolicy, FiniteSetTheorems, SequenceTheorems, TLAPS

-----------------------------------------------------------------------------
(* FirefoxPolicy                                                           *)

\* The phases of a request that was announced.
Phases == {"held", "sent", "started", "completed", "empty", "failed", "rejected"}
Sent == [phase : Phases \cup {"asked"}, context : Contexts, url : Urls, doc : Nat, nav : Nat, epoch : Nat,
         from : {"none", "network", "cache", "revalidated"}, image : BOOLEAN]
Heard == [scope : Contexts \X Nat, url : Urls, image : BOOLEAN, cached : BOOLEAN, failed : BOOLEAN]

\* The types, without the bounds.
Typed ==
    /\ page \in [Contexts -> Nat] /\ navigations \in [Contexts -> Nat]
    /\ documents \in [Contexts -> Nat] /\ epoch \in Nat
    /\ request \in [Requests -> Sent \cup {Unsent}]
    /\ DOMAIN observed \subseteq Requests /\ observed \in [DOMAIN observed -> Heard]
    /\ downloaded \subseteq [scope : Contexts \X Nat, url : Urls, by : Requests]
    /\ reuses \subseteq Requests /\ hits \subseteq Requests
    /\ initializations \in Seq(Requests)

\* What the policy has seen of a request is the truth about this observation:
\* its scope is as far behind the generation of now as the request is behind the
\* navigations the browser has announced.
ObservedIsTrue ==
    \A r \in DOMAIN observed :
        LET q == request[r] o == observed[r] c == q.context IN
        /\ q.phase \in Phases /\ q.epoch = epoch
        /\ o.scope[1] = c /\ o.url = q.url /\ o.image = q.image
        /\ navigations[c] - q.nav = documents[c] - o.scope[2]

\* A downloaded image came from the network, in the generation it is kept for.
DownloadIsTrue ==
    \A d \in downloaded :
        /\ d.by \in DOMAIN observed /\ Fetched(d.by)
        /\ d.scope = observed[d.by].scope /\ d.url = request[d.by].url

\* No request is of an observation to come; a response that started is from
\* somewhere; what is reused was announced; what waits for its rejection has no
\* response.
RequestsInOrder ==
    /\ \A r \in reuses : request[r].phase \in Phases
    /\ \A r \in Requests :
          /\ request[r].phase # "unsent" => request[r].epoch <= epoch
          /\ request[r].phase = "started" => request[r].from # "none"
          /\ request[r].phase = "asked" => request[r].from = "none"
HeldWaits ==
    \A i \in 1 .. Len(initializations) : request[initializations[i]].phase \in {"held", "rejected"}

\* No document comes before its navigation is announced.
DocumentsFollow ==
    /\ \A c \in Contexts : page[c] <= navigations[c]
    /\ \A r \in Requests :
          /\ request[r].phase # "unsent" => request[r].doc <= page[request[r].context]
          /\ request[r].phase \in Phases => request[r].doc <= request[r].nav

IInv ==
    /\ Typed /\ ObservedIsTrue /\ DownloadIsTrue /\ RequestsInOrder /\ HeldWaits
    /\ DocumentsFollow /\ ReuseIsSameGeneration /\ CachedIsAccounted

-----------------------------------------------------------------------------
\* What a step leaves of the requests that are under way.
Kept ==
    \A r \in Requests : request[r].phase # "unsent" =>
        LET old == request[r] new == request'[r] IN
        /\ new.phase # "unsent"
        /\ new.context = old.context /\ new.url = old.url /\ new.doc = old.doc
        /\ new.image = old.image
        /\ old.phase \in Phases => new.phase \in Phases /\ new.nav = old.nav /\ new.epoch = old.epoch
        /\ old.phase # "sent" => new.from = old.from
        /\ old.phase = "completed" => new.phase = "completed"

\* A request that goes on keeps its type and all but its phase.
LEMMA PhaseOnly ==
    ASSUME Typed, NEW r \in Requests, request[r].phase \in Phases, NEW p \in Phases,
           request[r].phase # "completed",
           request' = [request EXCEPT ![r].phase = p]
    PROVE  /\ request' \in [Requests -> Sent \cup {Unsent}] /\ Kept
           /\ request'[r].phase = p /\ request'[r].from = request[r].from
           /\ \A x \in Requests \ {r} : request'[x] = request[x]
<1>1. request[r] \in Sent
  BY DEF Typed, Unsent, Phases
<1>2. [request[r] EXCEPT !.phase = p] \in Sent
  BY <1>1 DEF Sent
<1>3. request' = [request EXCEPT ![r] = [request[r] EXCEPT !.phase = p]]
  BY DEF Typed
<1>4. request'[r] = [request[r] EXCEPT !.phase = p] /\ \A x \in Requests \ {r} : request'[x] = request[x]
  BY <1>3 DEF Typed
<1>5. request' \in [Requests -> Sent \cup {Unsent}]
  BY <1>2, <1>3 DEF Typed
<1>6. Kept
  BY <1>1, <1>4 DEF Kept, Sent, Phases
<1> QED
  BY <1>1, <1>4, <1>5, <1>6 DEF Sent

\* Initially the invariant holds.
LEMMA InvInit == Init => IInv
BY DEF Init, IInv, Typed, ObservedIsTrue, DownloadIsTrue, RequestsInOrder, HeldWaits,
       DocumentsFollow, ReuseIsSameGeneration, CachedIsAccounted, Unsent, Phases

\* A request that is announced moves on: the documents still follow.
LEMMA DocsKept ==
    ASSUME DocumentsFollow, Kept, NEW r \in Requests, request[r].phase \in Phases,
           \A x \in Requests \ {r} : request'[x] = request[x],
           UNCHANGED <<page, navigations>>
    PROVE  DocumentsFollow'
BY DEF DocumentsFollow, Kept, Phases

\* A reuse stays one: the requests it rests on do not change any more.
LEMMA ExcusesStay ==
    ASSUME Kept, NEW r \in Requests, NEW s \in Requests, request[r].phase \in Phases, Excuses(s, r)
    PROVE  Excuses(s, r)'
BY DEF Kept, Excuses, Vouches, Fetched, Overtaken, Phases

LEMMA ReusesStay ==
    ASSUME ReuseIsSameGeneration, RequestsInOrder, Typed, Kept, reuses' \subseteq reuses
    PROVE  ReuseIsSameGeneration'
<1> SUFFICES ASSUME NEW r \in reuses' PROVE \E s \in Requests \ {r} : Excuses(s, r)'
  BY DEF ReuseIsSameGeneration
<1>1. r \in reuses /\ r \in Requests /\ request[r].phase \in Phases
  BY DEF Typed, RequestsInOrder
<1>2. PICK s \in Requests \ {r} : Excuses(s, r)
  BY <1>1 DEF ReuseIsSameGeneration
<1> QED
  BY <1>1, <1>2, ExcusesStay

\* The image that excuses a reuse was downloaded in the generation of the request.
LEMMA ReuseRests ==
    ASSUME IInv, NEW r \in Requests, Reuses(r, request[r].url)
    PROVE  \E s \in Requests \ {r} : Excuses(s, r)
<1> DEFINE c == request[r].context
<1>1. r \in DOMAIN observed /\ observed[r].scope = <<c, documents[c]>>
  BY DEF Reuses, Known, Scope
<1>2. PICK d \in downloaded : d.scope = <<c, documents[c]>> /\ d.url = request[r].url /\ d.by # r
  BY DEF Reuses, Scope
<1> DEFINE s == d.by
<1>3. s \in DOMAIN observed /\ Fetched(s) /\ observed[s].scope = <<c, documents[c]>> /\ d.url = request[s].url
  BY <1>2 DEF IInv, DownloadIsTrue
<1>4. s \in Requests /\ r \in Requests
  BY <1>3 DEF IInv, Typed
<1>5. /\ request[s].context = c /\ request[s].epoch = request[r].epoch
      /\ navigations[c] - request[s].nav = documents[c] - documents[c]
      /\ navigations[c] - request[r].nav = documents[c] - documents[c]
  BY <1>1, <1>3 DEF IInv, ObservedIsTrue
<1>p. request[s].phase \in Phases /\ request[r].phase \in Phases
  BY <1>1, <1>3 DEF IInv, ObservedIsTrue
<1>6. request[s] \in Sent /\ request[r] \in Sent
  BY <1>4, <1>p DEF IInv, Typed, Unsent, Phases
<1>7. /\ navigations[c] \in Nat /\ documents[c] \in Nat /\ request[s].nav \in Nat /\ request[r].nav \in Nat
      /\ request[s].doc \in Nat /\ request[r].doc \in Nat
  BY <1>6 DEF IInv, Typed, Sent
<1>8. request[s].nav = request[r].nav
  BY <1>5, <1>7
<1>9. Vouches(s, r) /\ d.by # r
  BY <1>2, <1>3, <1>5, <1>8 DEF Vouches
<1>10. request[s].doc <= request[s].nav /\ request[r].doc <= request[r].nav
  BY <1>4, <1>p DEF IInv, DocumentsFollow
<1>11. request[s].doc = request[r].doc \/ Overtaken(s) \/ Overtaken(r)
  BY <1>7, <1>8, <1>10 DEF Overtaken
<1> QED
  BY <1>4, <1>9, <1>11 DEF Excuses

\* The answer to a cached response: it is a reuse or a hit, and what was known
\* of the requests stays true.
LEMMA CachedObserved ==
    ASSUME IInv, NEW r \in Requests, request[r].phase \in Phases, NEW from,
           ObserveCached(r, request[r].url, from), UNCHANGED <<page, navigations, epoch>>,
           Kept, request' \in [Requests -> Sent \cup {Unsent}],
           initializations' \in Seq(Requests), RequestsInOrder', HeldWaits'
    PROVE  Typed' /\ ObservedIsTrue' /\ DownloadIsTrue' /\ ReuseIsSameGeneration'
           /\ reuses \cup hits \cup {r} \subseteq reuses' \cup hits'
<1> DEFINE reuse == from = "cache" /\ Reuses(r, request[r].url)
<1>1. /\ observed' = IF Known(r, request[r].url) THEN [observed EXCEPT ![r].cached = TRUE] ELSE observed
      /\ reuses' = IF reuse THEN reuses \cup {r} ELSE reuses
      /\ hits' = IF reuse THEN hits ELSE hits \cup {r}
      /\ UNCHANGED <<documents, downloaded>>
  BY DEF ObserveCached
<1>2. reuses \cup hits \cup {r} \subseteq reuses' \cup hits'
  BY <1>1
<1>3. /\ DOMAIN observed' = DOMAIN observed /\ observed' \in [DOMAIN observed -> Heard]
      /\ \A x \in DOMAIN observed : /\ observed'[x].scope = observed[x].scope
                                    /\ observed'[x].url = observed[x].url
                                    /\ observed'[x].image = observed[x].image
  <2>1. CASE ~Known(r, request[r].url)
    BY <1>1, <2>1 DEF IInv, Typed
  <2>2. CASE Known(r, request[r].url)
    <3>1. r \in DOMAIN observed /\ [observed[r] EXCEPT !.cached = TRUE] \in Heard
      <4>1. r \in DOMAIN observed
        BY <2>2 DEF Known
      <4>2. observed[r] \in Heard
        BY <4>1 DEF IInv, Typed
      <4> QED
        BY <4>1, <4>2 DEF Heard
    <3>2. observed' = [observed EXCEPT ![r] = [observed[r] EXCEPT !.cached = TRUE]]
      BY <1>1, <2>2, <3>1
    <3> HIDE <1>1
    <3>3. DOMAIN observed' = DOMAIN observed /\ observed' \in [DOMAIN observed -> Heard]
      BY <3>1, <3>2 DEF IInv, Typed
    <3> QED
      BY <3>1, <3>2, <3>3 DEF Heard
  <2> QED
    BY <2>1, <2>2
<1>4. Typed'
  BY <1>1, <1>3 DEF IInv, Typed
<1>k. \A x \in DOMAIN observed : x \in Requests /\ request[x].phase # "unsent" /\ request[x].phase \in Phases
  BY DEF IInv, Typed, ObservedIsTrue, Phases
<1>t. \A x \in DOMAIN observed : request'[x].phase \in Phases
  BY <1>k DEF Kept, Sent, Unsent
<1>5. ObservedIsTrue'
  BY <1>1, <1>3, <1>k, <1>t DEF IInv, ObservedIsTrue, Kept
<1>6. DownloadIsTrue'
  BY <1>1, <1>3, <1>k DEF IInv, DownloadIsTrue, Fetched, Kept
<1>7. ReuseIsSameGeneration'
  <2>1. CASE ~reuse
    BY <1>1, <2>1, ReusesStay DEF IInv
  <2>2. CASE reuse
    <3>1. SUFFICES ASSUME NEW x \in reuses' PROVE \E s \in Requests \ {x} : Excuses(s, x)'
      BY DEF ReuseIsSameGeneration
    <3>2. x \in Requests /\ request[x].phase \in Phases /\ (x \in reuses \/ x = r)
      BY <1>1 DEF IInv, Typed, RequestsInOrder
    <3>3. PICK s \in Requests \ {x} : Excuses(s, x)
      BY <2>2, <3>2, ReuseRests DEF IInv, ReuseIsSameGeneration
    <3> QED
      BY <3>2, <3>3, ExcusesStay
  <2> QED
    BY <2>1, <2>2
<1> QED
  BY <1>2, <1>4, <1>5, <1>6, <1>7

\* A document asks for something: nothing of it is known yet.
LEMMA InvAsked ==
    ASSUME IInv, NEW r \in Requests, NEW c \in Contexts, NEW u \in Urls, NEW image \in BOOLEAN,
           Send(r, c, u, image)
    PROVE  IInv'
<1> DEFINE q == [phase |-> "asked", context |-> c, url |-> u, image |-> image, from |-> "none",
                 doc |-> page[c], nav |-> 0, epoch |-> 0]
<1>1. /\ request[r] = Unsent /\ request' = [request EXCEPT ![r] = q]
      /\ UNCHANGED <<page, navigations, epoch, documents, observed, downloaded, reuses, hits,
                     initializations>>
  BY DEF Send, ledger, intercepts
<1>2. q \in Sent /\ page[c] \in Nat /\ epoch \in Nat
  BY DEF Sent, IInv, Typed
<1>3. /\ request'[r] = q /\ \A x \in Requests \ {r} : request'[x] = request[x]
      /\ request' \in [Requests -> Sent \cup {Unsent}]
  BY <1>1, <1>2 DEF IInv, Typed
<1>4. r \notin DOMAIN observed /\ r \notin reuses
  BY <1>1 DEF IInv, ObservedIsTrue, RequestsInOrder, Unsent, Phases
<1>5. Kept
  BY <1>1, <1>3 DEF Kept, Unsent
<1>6. Typed'
  BY <1>1, <1>3 DEF IInv, Typed
<1>7. \A x \in DOMAIN observed : x \in Requests /\ request'[x] = request[x]
  BY <1>3, <1>4 DEF IInv, Typed
<1>8. ObservedIsTrue' /\ DownloadIsTrue'
  BY <1>1, <1>7 DEF IInv, ObservedIsTrue, DownloadIsTrue, Fetched
<1>9. RequestsInOrder' /\ CachedIsAccounted'
  BY <1>1, <1>2, <1>3, <1>4 DEF IInv, Typed, RequestsInOrder, CachedIsAccounted, FromCache
<1>10. HeldWaits'
  BY <1>1, <1>3 DEF IInv, Typed, HeldWaits, Unsent
<1>11. DocumentsFollow'
  BY <1>1, <1>2, <1>3 DEF IInv, DocumentsFollow, Phases
<1>12. ReuseIsSameGeneration'
  BY <1>1, <1>5, ReusesStay DEF IInv
<1> QED
  BY <1>6, <1>8, <1>9, <1>10, <1>11, <1>12 DEF IInv

\* A request is announced, and seen in the generation of its context.
LEMMA InvSent ==
    ASSUME IInv, NEW r \in Requests, NEW isBlocked \in BOOLEAN, BeforeRequestSent(r, isBlocked)
    PROVE  IInv'
<1> DEFINE old == request[r]
           c == old.context
           p == IF isBlocked THEN "held" ELSE "sent"
           q == [old EXCEPT !.phase = p, !.nav = navigations[c], !.epoch = epoch]
           o == [scope |-> Scope(c), url |-> old.url, image |-> old.image, cached |-> FALSE, failed |-> FALSE]
<1>0. old.phase = "asked" /\ old \in Sent
  BY DEF BeforeRequestSent, IInv, Typed, Unsent
<1>1. /\ request' = [request EXCEPT ![r] = q]
      /\ observed' = [x \in DOMAIN observed \cup {r} |-> IF x = r THEN o ELSE observed[x]]
      /\ UNCHANGED <<page, navigations, epoch, documents, downloaded, reuses, hits, errors, closed>>
  BY DEF BeforeRequestSent
<1>2. /\ c \in Contexts /\ navigations[c] \in Nat /\ documents[c] \in Nat /\ epoch \in Nat
      /\ old.doc <= page[c] /\ page[c] <= navigations[c] /\ old.doc \in Nat /\ page[c] \in Nat
  BY <1>0 DEF IInv, Typed, Sent, DocumentsFollow
<1>3. q \in Sent /\ o \in Heard /\ p \in Phases
  BY <1>0, <1>2 DEF Sent, Heard, Phases, Scope
<1>q. /\ q.phase = p /\ q.nav = navigations[c] /\ q.epoch = epoch /\ q.context = c /\ q.url = old.url
      /\ q.image = old.image /\ q.doc = old.doc /\ q.from = old.from
  BY <1>0 DEF Sent
<1>4. r \notin DOMAIN observed
  BY <1>0 DEF IInv, ObservedIsTrue, Phases
<1>5. /\ request'[r] = q /\ \A x \in Requests \ {r} : request'[x] = request[x]
      /\ request' \in [Requests -> Sent \cup {Unsent}]
  BY <1>1, <1>3 DEF IInv, Typed
<1>6. /\ DOMAIN observed' = DOMAIN observed \cup {r} /\ observed'[r] = o
      /\ \A x \in DOMAIN observed : observed'[x] = observed[x]
  BY <1>1, <1>4
<1>7. observed' \in [DOMAIN observed' -> Heard]
  BY <1>1, <1>3, <1>6 DEF IInv, Typed
<1>p. p \in Phases /\ p # "completed"
  BY DEF Phases
<1>8. Kept
  <2> HIDE DEF q, p
  <2>1. q.phase # "unsent" /\ old.phase \notin Phases
    BY <1>0, <1>q, <1>p DEF Phases
  <2> QED
    BY <1>0, <1>5, <1>q, <2>1 DEF Kept
<1>i. \/ isBlocked /\ initializations' = Append(initializations, r)
      \/ UNCHANGED initializations
  BY DEF BeforeRequestSent, Intercept
<1>s. initializations \in Seq(Requests)
  BY DEF IInv, Typed
<1>9. initializations' \in Seq(Requests)
  BY <1>i, <1>s
<1>10. Typed'
  BY <1>1, <1>5, <1>6, <1>7, <1>9 DEF IInv, Typed
<1>11. ObservedIsTrue'
  <2>1. ASSUME NEW x \in DOMAIN observed
        PROVE  request'[x] = request[x] /\ observed'[x] = observed[x]
    BY <1>4, <1>5, <1>6 DEF IInv, Typed
  <2>2. /\ q.phase \in Phases /\ q.epoch = epoch /\ o.scope[1] = c /\ o.url = q.url
        /\ o.image = q.image /\ navigations[c] - q.nav = documents[c] - o.scope[2] /\ q.context = c
    BY <1>2, <1>3, <1>q DEF Scope
  <2>3. UNCHANGED <<navigations, documents, epoch>>
    BY <1>1
  <2>4. ASSUME NEW x \in DOMAIN observed'
        PROVE  LET v == request'[x] w == observed'[x] d == v.context IN
               /\ v.phase \in Phases /\ v.epoch = epoch
               /\ w.scope[1] = d /\ w.url = v.url /\ w.image = v.image
               /\ navigations[d] - v.nav = documents[d] - w.scope[2]
    <3>1. CASE x = r
      <4> HIDE DEF q, o, c
      <4> QED
        BY <1>5, <1>6, <2>2, <3>1
    <3>2. CASE x \in DOMAIN observed
      BY <2>1, <3>2 DEF IInv, ObservedIsTrue
    <3> QED
      BY <1>6, <3>1, <3>2
  <2> QED
    BY <2>3, <2>4 DEF ObservedIsTrue
<1>12. DownloadIsTrue'
  BY <1>1, <1>4, <1>5, <1>6 DEF IInv, Typed, DownloadIsTrue, Fetched
<1>13. RequestsInOrder'
  BY <1>0, <1>1, <1>2, <1>3, <1>5, <1>q DEF IInv, Typed, RequestsInOrder
<1>f. DocumentsFollow'
  BY <1>1, <1>2, <1>5, <1>q DEF IInv, DocumentsFollow
<1>14. HeldWaits'
  <2>1. CASE UNCHANGED initializations
    <3>1. \A k \in 1 .. Len(initializations) : initializations[k] \in Requests
      BY <1>s
    <3> QED
      BY <1>0, <1>5, <2>1, <3>1 DEF IInv, HeldWaits
  <2>2. CASE isBlocked /\ initializations' = Append(initializations, r)
    <3>1. initializations \in Seq(Requests)
      BY DEF IInv, Typed
    <3>2. ASSUME NEW k \in 1 .. Len(initializations')
          PROVE  request'[initializations'[k]].phase \in {"held", "rejected"}
      <4>1. CASE k = Len(initializations) + 1
        <5>1. initializations'[k] = r
          BY <2>2, <3>1, <4>1
        <5>2. request'[r].phase = p /\ p = "held"
          BY <1>5, <1>q, <2>2
        <5> HIDE DEF p
        <5> QED
          BY <5>1, <5>2
      <4>2. CASE k \in 1 .. Len(initializations)
        <5>1. initializations'[k] = initializations[k] /\ initializations[k] \in Requests
          BY <2>2, <3>1, <4>2
        <5>2. request[initializations[k]].phase \in {"held", "rejected"}
          BY <4>2 DEF IInv, HeldWaits
        <5> QED
          BY <1>0, <1>5, <5>1, <5>2
      <4> QED
        BY <2>2, <3>1, <3>2, <4>1, <4>2
    <3> QED
      BY <3>2 DEF HeldWaits
  <2> QED
    BY <1>i, <2>1, <2>2
<1>15. ReuseIsSameGeneration'
  BY <1>1, <1>8, ReusesStay DEF IInv
<1>16. CachedIsAccounted'
  <2>1. old.from = "none"
    BY <1>0 DEF IInv, RequestsInOrder
  <2> QED
    BY <1>1, <1>5, <1>q, <2>1 DEF IInv, CachedIsAccounted, FromCache
<1> QED
  BY <1>10, <1>11, <1>12, <1>13, <1>14, <1>15, <1>16, <1>f DEF IInv

\* A step that moves requests on and leaves documents and images alone.
LEMMA RequestsMove ==
    ASSUME IInv, Kept, request' \in [Requests -> Sent \cup {Unsent}],
           UNCHANGED <<page, navigations, epoch, documents, downloaded, reuses, hits>>,
           initializations' \in Seq(Requests),
           DOMAIN observed' = DOMAIN observed, observed' \in [DOMAIN observed -> Heard],
           \A x \in DOMAIN observed : /\ observed'[x].scope = observed[x].scope
                                      /\ observed'[x].url = observed[x].url
                                      /\ observed'[x].image = observed[x].image
    PROVE  Typed' /\ ObservedIsTrue' /\ DownloadIsTrue' /\ ReuseIsSameGeneration'
<1>1. Typed'
  BY DEF IInv, Typed
<1>k. \A x \in DOMAIN observed : x \in Requests /\ request[x].phase # "unsent" /\ request[x].phase \in Phases
  BY DEF IInv, Typed, ObservedIsTrue, Phases
<1>t. \A x \in DOMAIN observed : request'[x].phase \in Phases
  BY <1>k DEF Kept, Sent, Unsent
<1>2. ObservedIsTrue'
  BY <1>k, <1>t DEF IInv, ObservedIsTrue, Kept
<1>3. DownloadIsTrue'
  BY <1>k DEF IInv, DownloadIsTrue, Fetched, Kept
<1>4. ReuseIsSameGeneration'
  BY ReusesStay DEF IInv
<1> QED
  BY <1>1, <1>2, <1>3, <1>4

\* A response starts: from the network, or from a cache and accounted for.
LEMMA InvStarted ==
    ASSUME IInv, NEW r \in Requests, NEW from \in {"network", "cache", "revalidated"},
           ResponseStarted(r, from)
    PROVE  IInv'
<1>1. /\ request[r].phase = "sent"
      /\ request' = [request EXCEPT ![r].phase = "started", ![r].from = from]
      /\ IF FromCache(from) THEN ObserveCached(r, request[r].url, from) ELSE UNCHANGED ledger
      /\ UNCHANGED <<page, navigations, epoch, initializations>>
  BY DEF ResponseStarted, intercepts
<1>2. request[r] \in Sent
  BY <1>1 DEF IInv, Typed, Unsent
<1> DEFINE q == [request[r] EXCEPT !.phase = "started", !.from = from]
<1>3. q \in Sent /\ q.phase = "started" /\ q.from = from
  BY <1>2 DEF Sent, Phases
<1>4. /\ request'[r] = q /\ \A x \in Requests \ {r} : request'[x] = request[x]
      /\ request' \in [Requests -> Sent \cup {Unsent}]
  BY <1>1, <1>2, <1>3 DEF IInv, Typed
<1>a. request[r].phase \in Phases
  BY <1>1 DEF Phases
<1>5. Kept
  BY <1>1, <1>2, <1>4 DEF Kept, Sent, Phases
<1>d. DocumentsFollow'
  BY <1>1, <1>4, <1>5, <1>a, DocsKept DEF IInv
<1>6. initializations' \in Seq(Requests)
  BY <1>1 DEF IInv, Typed
<1>7. RequestsInOrder'
  <2>1. reuses' \subseteq reuses \cup {r}
    BY <1>1 DEF ObserveCached, ledger
  <2>2. q.epoch = request[r].epoch
    BY <1>2 DEF Sent
  <2> QED
    BY <1>1, <1>3, <1>4, <1>5, <1>a, <2>1, <2>2 DEF IInv, Typed, RequestsInOrder, Kept, Phases
<1>8. HeldWaits'
  <2> SUFFICES ASSUME NEW k \in 1 .. Len(initializations)
               PROVE  request'[initializations[k]].phase \in {"held", "rejected"}
    BY <1>1 DEF HeldWaits
  <2>1. request[initializations[k]].phase \in {"held", "rejected"} /\ initializations[k] \in Requests
    BY DEF IInv, Typed, HeldWaits
  <2> QED
    BY <1>1, <1>4, <2>1
<1>9. CASE FromCache(from)
  <2>1. /\ Typed' /\ ObservedIsTrue' /\ DownloadIsTrue' /\ ReuseIsSameGeneration'
        /\ reuses \cup hits \cup {r} \subseteq reuses' \cup hits'
    BY <1>1, <1>4, <1>5, <1>6, <1>7, <1>8, <1>9, <1>a, CachedObserved
  <2>2. CachedIsAccounted'
    BY <1>1, <1>4, <2>1 DEF IInv, CachedIsAccounted
  <2> QED
    BY <1>7, <1>8, <1>d, <2>1, <2>2 DEF IInv
<1>10. CASE ~FromCache(from)
  <2>1. UNCHANGED <<documents, observed, downloaded, reuses, hits>>
    BY <1>1, <1>10 DEF ledger
  <2>2. Typed' /\ ObservedIsTrue' /\ DownloadIsTrue' /\ ReuseIsSameGeneration'
    BY <1>1, <1>4, <1>5, <1>6, <2>1, RequestsMove DEF IInv, Typed
  <2>3. CachedIsAccounted'
    BY <1>1, <1>3, <1>4, <1>10, <2>1 DEF IInv, CachedIsAccounted
  <2> QED
    BY <1>7, <1>8, <1>d, <2>2, <2>3 DEF IInv
<1> QED
  BY <1>9, <1>10

\* Only the phase of a request with a response changes: the rest of its
\* invariant.
LEMMA PhaseKeeps ==
    ASSUME IInv, NEW r \in Requests, request[r].phase \in {"sent", "started"},
           NEW p \in {"completed", "empty", "failed"},
           request' = [request EXCEPT ![r].phase = p],
           UNCHANGED <<page, navigations, epoch, initializations>>, reuses' \subseteq reuses \cup {r}
    PROVE  /\ request' \in [Requests -> Sent \cup {Unsent}] /\ Kept
           /\ request'[r].phase = p /\ request'[r].from = request[r].from
           /\ \A x \in Requests \ {r} : request'[x] = request[x]
           /\ RequestsInOrder' /\ HeldWaits' /\ DocumentsFollow' /\ initializations' \in Seq(Requests)
<1>1. p \in Phases /\ request[r].phase \in Phases /\ p # "asked" /\ p # "started"
  BY DEF Phases
<1>2. /\ request' \in [Requests -> Sent \cup {Unsent}] /\ Kept
      /\ request'[r].phase = p /\ request'[r].from = request[r].from
      /\ \A x \in Requests \ {r} : request'[x] = request[x]
  BY <1>1, PhaseOnly DEF IInv
<1>3. initializations' \in Seq(Requests)
  BY DEF IInv, Typed
<1>4. RequestsInOrder'
  BY <1>1, <1>2 DEF IInv, Typed, RequestsInOrder, Kept
<1>d. DocumentsFollow'
  BY <1>1, <1>2, DocsKept DEF IInv
<1>5. HeldWaits'
  <2> SUFFICES ASSUME NEW k \in 1 .. Len(initializations)
               PROVE  request'[initializations[k]].phase \in {"held", "rejected"}
    BY DEF HeldWaits
  <2>1. request[initializations[k]].phase \in {"held", "rejected"} /\ initializations[k] \in Requests
    BY DEF IInv, Typed, HeldWaits
  <2> QED
    BY <1>2, <2>1
<1> QED
  BY <1>2, <1>3, <1>4, <1>5, <1>d

\* A response is complete: accounted for, or downloaded for its own generation.
LEMMA InvCompleted ==
    ASSUME IInv, NEW r \in Requests, NEW bytes \in BOOLEAN, ResponseCompleted(r, bytes)
    PROVE  IInv'
<1> DEFINE u == request[r].url
           c == request[r].context
           p == IF bytes THEN "completed" ELSE "empty"
           new == [scope |-> Scope(c), url |-> u, by |-> r]
<1>1. /\ request[r].phase = "started"
      /\ request' = [request EXCEPT ![r].phase = p]
      /\ IF FromCache(request[r].from) THEN ObserveCached(r, u, request[r].from)
         ELSE ObserveDownload(r, u, bytes)
      /\ UNCHANGED <<page, navigations, epoch, initializations>>
  BY DEF ResponseCompleted, intercepts
<1>2. reuses' \subseteq reuses \cup {r}
  BY <1>1 DEF ObserveCached, ObserveDownload
<1>3. /\ request' \in [Requests -> Sent \cup {Unsent}] /\ Kept
      /\ request'[r].phase = p /\ request'[r].from = request[r].from
      /\ \A x \in Requests \ {r} : request'[x] = request[x]
      /\ RequestsInOrder' /\ HeldWaits' /\ DocumentsFollow' /\ initializations' \in Seq(Requests)
  BY <1>1, <1>2, PhaseKeeps
<1>4. CASE FromCache(request[r].from)
  <2>1. /\ Typed' /\ ObservedIsTrue' /\ DownloadIsTrue' /\ ReuseIsSameGeneration'
        /\ reuses \cup hits \cup {r} \subseteq reuses' \cup hits'
    BY <1>1, <1>3, <1>4, CachedObserved DEF Phases
  <2>2. CachedIsAccounted'
    BY <1>1, <1>3, <2>1 DEF IInv, CachedIsAccounted, Kept
  <2> QED
    BY <1>3, <2>1, <2>2 DEF IInv
<1>5. CASE ~FromCache(request[r].from)
  <2>1. /\ UNCHANGED <<documents, observed, reuses, hits>>
        /\ \/ UNCHANGED downloaded
           \/ /\ Known(r, u) /\ ImageRequest(r) /\ bytes
              /\ downloaded' \subseteq downloaded \cup {new}
    BY <1>1, <1>5 DEF ObserveDownload
  <2>2. CachedIsAccounted'
    BY <1>1, <1>3, <2>1 DEF IInv, CachedIsAccounted, Kept
  <2>k. \A x \in DOMAIN observed : x \in Requests /\ request[x].phase # "unsent" /\ request[x].phase \in Phases
    BY DEF IInv, Typed, ObservedIsTrue, Phases
  <2>t. \A x \in DOMAIN observed : request'[x].phase \in Phases
    BY <1>3, <2>k DEF Kept, Sent, Unsent
  <2>3. ObservedIsTrue'
    BY <1>1, <1>3, <2>1, <2>k, <2>t DEF IInv, ObservedIsTrue, Kept
  <2>4. ReuseIsSameGeneration'
    BY <1>3, <2>1, ReusesStay DEF IInv
  <2>5. request[r] \in Sent
    BY <1>1 DEF IInv, Typed, Unsent
  <2>6. request[r].from = "network"
    BY <1>1, <1>5, <2>5 DEF IInv, RequestsInOrder, FromCache, Sent
  <2>7. \A d \in downloaded : /\ d.by \in DOMAIN observed' /\ Fetched(d.by)'
                              /\ d.scope = observed'[d.by].scope /\ d.url = request'[d.by].url
    BY <1>3, <2>1, <2>k DEF IInv, DownloadIsTrue, Fetched, Kept
  <2>8. ASSUME Known(r, u), ImageRequest(r), bytes
        PROVE  /\ new.by = r /\ r \in DOMAIN observed' /\ Fetched(r)'
               /\ new.scope = observed'[r].scope /\ new.url = request'[r].url
               /\ new \in [scope : Contexts \X Nat, url : Urls, by : Requests]
    <3>1. r \in DOMAIN observed /\ observed[r].scope = Scope(c) /\ observed[r].image
      BY <2>8 DEF Known, ImageRequest
    <3>2. request[r].image
      BY <3>1 DEF IInv, ObservedIsTrue
    <3>3. Fetched(r)' /\ request'[r].url = u
      BY <1>1, <1>3, <2>6, <2>8, <3>2 DEF Fetched, Kept
    <3>4. Scope(c) \in Contexts \X Nat /\ u \in Urls
      BY <2>5 DEF IInv, Typed, Scope, Sent
    <3> QED
      BY <2>1, <3>1, <3>3, <3>4
  <2> HIDE DEF new, u, c, p
  <2>9. DownloadIsTrue'
    <3> SUFFICES ASSUME NEW d \in downloaded'
                 PROVE  /\ d.by \in DOMAIN observed' /\ Fetched(d.by)'
                        /\ d.scope = observed'[d.by].scope /\ d.url = request'[d.by].url
      BY DEF DownloadIsTrue
    <3>1. CASE d \in downloaded
      BY <2>7, <3>1
    <3>2. CASE d \notin downloaded
      <4>1. d = new /\ Known(r, u) /\ ImageRequest(r) /\ bytes
        BY <2>1, <3>2
      <4> QED
        BY <2>8, <4>1
    <3> QED
      BY <3>1, <3>2
  <2>10. downloaded' \subseteq [scope : Contexts \X Nat, url : Urls, by : Requests]
    BY <2>1, <2>8 DEF IInv, Typed
  <2>11. Typed'
    BY <1>1, <1>3, <2>1, <2>10 DEF IInv, Typed
  <2> QED
    BY <1>3, <2>2, <2>3, <2>4, <2>9, <2>11 DEF IInv
<1> QED
  BY <1>4, <1>5

\* A failed load only marks its own request.
LEMMA InvError ==
    ASSUME IInv, NEW r \in Requests, FetchError(r)
    PROVE  IInv'
<1>1. /\ request[r].phase \in {"sent", "started"}
      /\ request' = [request EXCEPT ![r].phase = "failed"]
      /\ observed' = IF Known(r, request[r].url) THEN [observed EXCEPT ![r].failed = TRUE] ELSE observed
      /\ UNCHANGED <<page, navigations, epoch, documents, downloaded, reuses, hits, initializations>>
  BY DEF FetchError, intercepts
<1>2. /\ request' \in [Requests -> Sent \cup {Unsent}] /\ Kept
      /\ request'[r].from = request[r].from
      /\ \A x \in Requests \ {r} : request'[x] = request[x]
      /\ RequestsInOrder' /\ HeldWaits' /\ DocumentsFollow' /\ initializations' \in Seq(Requests)
  BY <1>1, PhaseKeeps
<1>3. /\ DOMAIN observed' = DOMAIN observed /\ observed' \in [DOMAIN observed -> Heard]
      /\ \A x \in DOMAIN observed : /\ observed'[x].scope = observed[x].scope
                                    /\ observed'[x].url = observed[x].url
                                    /\ observed'[x].image = observed[x].image
  BY <1>1 DEF IInv, Typed, Heard, Known
<1>4. Typed' /\ ObservedIsTrue' /\ DownloadIsTrue' /\ ReuseIsSameGeneration'
  BY <1>1, <1>2, <1>3, RequestsMove
<1>5. CachedIsAccounted'
  BY <1>1, <1>2 DEF IInv, CachedIsAccounted, Kept
<1> QED
  BY <1>2, <1>4, <1>5 DEF IInv

\* The announcement of a navigation moves the generation of its context.
LEMMA InvNavigation ==
    ASSUME IInv, NEW c \in Contexts, NavigationStarted(c)
    PROVE  IInv'
<1>1. /\ navigations' = [navigations EXCEPT ![c] = navigations[c] + 1]
      /\ documents' = [documents EXCEPT ![c] = documents[c] + 1]
      /\ downloaded' \subseteq downloaded
      /\ UNCHANGED <<page, epoch, request, observed, reuses, hits, initializations>>
  BY DEF NavigationStarted, intercepts
<1>2. Typed'
  BY <1>1 DEF IInv, Typed
<1>3. ObservedIsTrue'
  <2> SUFFICES ASSUME NEW r \in DOMAIN observed
               PROVE  /\ request[r].phase \in Phases /\ request[r].epoch = epoch
                      /\ observed[r].scope[1] = request[r].context /\ observed[r].url = request[r].url
                      /\ observed[r].image = request[r].image
                      /\ navigations'[request[r].context] - request[r].nav
                           = documents'[request[r].context] - observed[r].scope[2]
    BY <1>1 DEF ObservedIsTrue
  <2> DEFINE d == request[r].context
  <2>1. /\ request[r].phase \in Phases /\ request[r].epoch = epoch
        /\ observed[r].scope[1] = d /\ observed[r].url = request[r].url
        /\ observed[r].image = request[r].image
        /\ navigations[d] - request[r].nav = documents[d] - observed[r].scope[2]
    BY DEF IInv, ObservedIsTrue
  <2>2. request[r] \in Sent /\ observed[r] \in Heard
    BY <2>1 DEF IInv, Typed, Unsent, Phases
  <2>3. d \in Contexts /\ request[r].nav \in Nat /\ observed[r].scope[2] \in Nat
    BY <2>2 DEF Sent, Heard
  <2>4. navigations[d] \in Nat /\ documents[d] \in Nat
    BY <2>3 DEF IInv, Typed
  <2>5. \/ navigations'[d] = navigations[d] + 1 /\ documents'[d] = documents[d] + 1
        \/ navigations'[d] = navigations[d] /\ documents'[d] = documents[d]
    BY <1>1, <2>3 DEF IInv, Typed
  <2> QED
    BY <2>1, <2>3, <2>4, <2>5
<1>4. DownloadIsTrue' /\ RequestsInOrder' /\ HeldWaits' /\ ReuseIsSameGeneration' /\ CachedIsAccounted'
  BY <1>1 DEF IInv, DownloadIsTrue, RequestsInOrder, HeldWaits, ReuseIsSameGeneration,
              CachedIsAccounted, Fetched, Excuses, Vouches, Overtaken
<1>5. DocumentsFollow'
  BY <1>1 DEF IInv, Typed, DocumentsFollow
<1> QED
  BY <1>2, <1>3, <1>4, <1>5 DEF IInv

\* The document of an announced navigation comes; the policy hears nothing.
LEMMA InvCommit ==
    ASSUME IInv, NEW c \in Contexts, Commit(c)
    PROVE  IInv'
<1>1. PICK n \in page[c] + 1 .. navigations[c] : page' = [page EXCEPT ![c] = n]
  BY DEF Commit
<1>2. UNCHANGED <<navigations, epoch, request, documents, observed, downloaded, reuses, hits, initializations>>
  BY DEF Commit, ledger, intercepts
<1>3. page[c] \in Nat /\ navigations[c] \in Nat
  BY DEF IInv, Typed
<1>4. n \in Nat /\ page[c] <= n /\ n <= navigations[c]
  BY <1>3
<1>5. Typed'
  BY <1>1, <1>2, <1>4 DEF IInv, Typed
<1>6. \A d \in Contexts : page'[d] \in Nat /\ page[d] \in Nat /\ page[d] <= page'[d] /\ page'[d] <= navigations[d]
  BY <1>1, <1>4 DEF IInv, Typed, DocumentsFollow
<1>7. ASSUME NEW r \in Requests, request[r].phase # "unsent"
      PROVE  request[r].doc <= page'[request[r].context]
  <2>1. request[r] \in Sent
    BY <1>7 DEF IInv, Typed, Unsent
  <2>2. request[r].context \in Contexts /\ request[r].doc \in Nat
    BY <2>1 DEF Sent
  <2> QED
    BY <1>6, <1>7, <2>2 DEF IInv, DocumentsFollow
<1>8. DocumentsFollow'
  BY <1>2, <1>6, <1>7 DEF IInv, DocumentsFollow
<1>9. /\ ObservedIsTrue' /\ DownloadIsTrue' /\ RequestsInOrder' /\ HeldWaits'
      /\ ReuseIsSameGeneration' /\ CachedIsAccounted'
  BY <1>2 DEF IInv, ObservedIsTrue, DownloadIsTrue, RequestsInOrder, HeldWaits,
              ReuseIsSameGeneration, CachedIsAccounted, Fetched, Excuses, Vouches, Overtaken
<1> QED
  BY <1>5, <1>8, <1>9 DEF IInv

\* The rejection of an intercepted request.
LEMMA InvReject ==
    ASSUME IInv, NEW ok \in BOOLEAN, Reject(ok)
    PROVE  IInv'
<1> DEFINE r == Head(initializations)
           p == IF ok THEN "rejected" ELSE "held"
<1>1. /\ initializations # <<>> /\ initializations' = Tail(initializations)
      /\ request' = [request EXCEPT ![r].phase = p]
      /\ UNCHANGED <<page, navigations, epoch, documents, observed, downloaded, reuses, hits>>
  BY DEF Reject, ledger
<1>2. initializations \in Seq(Requests)
  BY DEF IInv, Typed
<1>3. r \in Requests /\ r = initializations[1] /\ 1 \in 1 .. Len(initializations)
  BY <1>1, <1>2
<1>4. request[r].phase \in {"held", "rejected"}
  BY <1>3 DEF IInv, HeldWaits
<1>5. p \in Phases
  BY DEF Phases
<1>6. initializations' \in Seq(Requests)
  BY <1>1, <1>2
<1>7. \A k \in 1 .. Len(initializations') :
         /\ k + 1 \in 1 .. Len(initializations) /\ initializations'[k] = initializations[k + 1]
         /\ initializations'[k] \in Requests
  BY <1>1, <1>2
<1> HIDE DEF r, p
<1>8. /\ request' \in [Requests -> Sent \cup {Unsent}] /\ Kept
      /\ request'[r].phase = p /\ request'[r].from = request[r].from
      /\ \A x \in Requests \ {r} : request'[x] = request[x]
  BY <1>1, <1>3, <1>4, <1>5, PhaseOnly DEF IInv, Phases
<1>9. Typed' /\ ObservedIsTrue' /\ DownloadIsTrue' /\ ReuseIsSameGeneration'
  BY <1>1, <1>6, <1>8, RequestsMove DEF IInv, Typed
<1>p. p \in {"held", "rejected"}
  BY DEF p
<1>10. RequestsInOrder'
  BY <1>1, <1>3, <1>4, <1>8, <1>p DEF IInv, Typed, RequestsInOrder, Kept, Phases
<1>d. DocumentsFollow'
  BY <1>1, <1>3, <1>4, <1>8, DocsKept DEF IInv, Phases
<1>11. HeldWaits'
  <2> SUFFICES ASSUME NEW k \in 1 .. Len(initializations')
               PROVE  request'[initializations'[k]].phase \in {"held", "rejected"}
    BY DEF HeldWaits
  <2>1. request[initializations'[k]].phase \in {"held", "rejected"} /\ initializations'[k] \in Requests
    BY <1>7 DEF IInv, HeldWaits
  <2> QED
    BY <1>8, <1>p, <2>1
<1>12. CachedIsAccounted'
  BY <1>1, <1>3, <1>4, <1>8 DEF IInv, CachedIsAccounted, Kept
<1> QED
  BY <1>9, <1>10, <1>11, <1>12, <1>d DEF IInv

\* A new observation: nothing seen before counts, and no request is of it yet.
LEMMA InvReset ==
    ASSUME IInv, ResetObservation
    PROVE  IInv'
<1>1. /\ epoch' = epoch + 1 /\ documents' = [c \in Contexts |-> 0]
      /\ observed' = [r \in {} |-> Unsent] /\ downloaded' = {} /\ reuses' = {} /\ hits' = {}
      /\ UNCHANGED <<page, navigations, request, initializations>>
  BY DEF ResetObservation, intercepts
<1>2. epoch \in Nat
  BY DEF IInv, Typed
<1>3. DOMAIN observed' = {}
  BY <1>1
<1>4. Typed'
  BY <1>1, <1>2, <1>3 DEF IInv, Typed
<1>5. ObservedIsTrue' /\ DownloadIsTrue' /\ ReuseIsSameGeneration'
  BY <1>1, <1>3 DEF ObservedIsTrue, DownloadIsTrue, ReuseIsSameGeneration
<1>6. ASSUME NEW r \in Requests, request[r].phase # "unsent"
      PROVE  request[r].epoch \in Nat /\ request[r].epoch <= epoch
  <2>1. request[r] \in Sent
    BY <1>6 DEF IInv, Typed, Unsent
  <2> QED
    BY <1>6, <2>1 DEF IInv, RequestsInOrder, Sent
<1>7. RequestsInOrder' /\ CachedIsAccounted'
  BY <1>1, <1>2, <1>6 DEF IInv, RequestsInOrder, CachedIsAccounted
<1>8. HeldWaits' /\ DocumentsFollow'
  BY <1>1 DEF IInv, HeldWaits, DocumentsFollow
<1> QED
  BY <1>4, <1>5, <1>7, <1>8 DEF IInv

\* Every step keeps the invariant.
LEMMA InvNext == IInv /\ [Next]_vars => IInv'
<1> SUFFICES ASSUME IInv, [Next]_vars PROVE IInv'
  OBVIOUS
<1>1. CASE UNCHANGED vars \/ CheckRaises
  <2>1. UNCHANGED <<page, navigations, epoch, request, documents, observed, downloaded, reuses, hits, initializations>>
    BY <1>1 DEF vars, CheckRaises, world, ledger, intercepts
  <2> QED
    BY <2>1 DEF IInv, Typed, ObservedIsTrue, DownloadIsTrue, RequestsInOrder, HeldWaits,
                DocumentsFollow, ReuseIsSameGeneration, CachedIsAccounted, Fetched, Excuses, Vouches, Overtaken
<1>2. CASE Next /\ ~CheckRaises
  BY <1>2, InvAsked, InvSent, InvStarted, InvCompleted, InvError, InvNavigation, InvCommit, InvReject, InvReset DEF Next
<1> QED
  BY <1>1, <1>2

\* The inductive invariant: what the policy has seen of a request stands as far
\* behind the generation of its context as the request is behind the navigations
\* the browser has announced, and no document comes before its announcement.
THEOREM InvariantHolds == Spec => []IInv
BY InvInit, InvNext, PTL DEF Spec

\* An excused cached image was downloaded in full in the same generation of its
\* context and in the same observation, however late events, documents,
\* navigations and resets mix; and by its own document, unless an announced
\* navigation overtook one of the two.
THEOREM ReusesAreSound == Spec => []ReuseIsSameGeneration
<1>1. IInv => ReuseIsSameGeneration
  BY DEF IInv
<1> QED
  BY <1>1, InvariantHolds, PTL

\* No cached response of the observation goes unnoticed: it is an excused
\* reuse, or a hit the next check reports.
THEOREM CachedAreAccounted == Spec => []CachedIsAccounted
<1>1. IInv => CachedIsAccounted
  BY DEF IInv
<1> QED
  BY <1>1, InvariantHolds, PTL

-----------------------------------------------------------------------------
(* CachePolicy                                                             *)

\* The phases of the main thread: the policy starts, is in use, watches for targets
\* (its automatic attachment is on), and until it fails or closes.
Starting == {"start_listed", "start_wait", "start_check", "start_check_wait"}
InUse == {"ready", "check", "check_wait", "rules"}
Watching == Starting \cup InUse
Open == {"start", "start_attached"} \cup Watching
\* No error was met, and the policy is not closing: all that is promised holds then.
Sound == ~cacheErrors /\ main.pc \in Open

\* The phases of the initializer: with the lock, after the configuration, waiting.
Locked == {"policy", "policy_run", "rules", "finally", "released", "record"}
Ending == {"finally", "released", "record"}
Asking == {"policy", "policy_run", "rules", "released", "answer"}
\* The phases in which the main thread waits for a reply.
MainAsks == {"start_attached", "start_listed", "start_check", "check", "rules", "close_run", "close_socket"}

\* What a queue holds.
In(s) == {s[i] : i \in DOMAIN s}

\* What the policy knows of a target; what is sent, and what waits for the initializer.
TargetFacts == [seen : BOOLEAN, initialized : BOOLEAN, detached : BOOLEAN, paused : BOOLEAN]
OfTarget == {"policy", "policy_run", "run", "rules", "no_rules", "answer"}
OfAll == {"auto_on", "auto_off", "targets"}
Senders == Threads \cup {"nobody"}
Commands ==
    [who : Senders, does : OfTarget, target : Targets] \cup [who : Senders, does : OfAll, target : {NoTarget}]
Events == [tells : {"paused", "running", "detached", "held"}, target : Targets, who : {"nobody"}, ok : {TRUE}]
Replies == [tells : {"reply"}, target : Targets \cup {NoTarget}, who : Senders, ok : BOOLEAN]
Messages == Events \cup Replies
Work == {"target", "request"} \X Targets

\* The types, without the bounds.
CacheTyped ==
    /\ life \in [Targets -> {"none", "paused", "running", "gone"}]
    /\ applied \subseteq Targets /\ rules \subseteq Pages /\ auto \in BOOLEAN
    /\ held \in [Pages -> {"none", "held", "answered"}]
    /\ wire \in Seq(Commands) /\ inbox \in Seq(Messages) /\ work \in Seq(Work)
    /\ known \in [Targets -> TargetFacts]
    /\ blocked \in BOOLEAN /\ cacheErrors \in BOOLEAN /\ connected \in BOOLEAN /\ closing \in BOOLEAN
    /\ lock \in {"free", "main", "init"}
    /\ reply \in [Threads -> {"none", "waiting", "ok", "error"}]
    /\ main \in [pc : MainPcs, todo : SUBSET Targets]
    /\ init \in [pc : InitPcs, target : Targets \cup {NoTarget}, failed : BOOLEAN]

\* The connection is only lost with an error, and automatic attachment is only
\* switched off by close.
Conn ==
    /\ connected \/ cacheErrors \/ main.pc = "closed"
    /\ closing => main.pc = "closed"
    /\ \A c \in In(wire) : c.does = "auto_off" => main.pc \in {"close_socket", "closed"}

\* The lock is held by the thread that is in a locked phase, by no other.
LockHeld ==
    /\ lock = "main" <=> main.pc = "rules"
    /\ lock = "init" <=> init.pc \in Locked

\* The initializer has a target in exactly the phases that configure one.
InitAt ==
    /\ init.pc \in {"take", "answer"} <=> init.target = NoTarget
    /\ init.pc = "policy_run" => init.target \notin Pages
    /\ init.pc = "rules" => blocked /\ init.target \in Pages

\* The pages whose exclusions set_blocked_urls still sets are initialized.
MainTodo == main.pc = "rules" => main.todo \subseteq {t \in Pages : known[t].initialized}

\* A thread that waits for no reply is in no phase that sends; what is on its way
\* in a thread's name is waited for, and is of its phase.
Asked ==
    /\ main.pc \notin MainAsks => reply["main"] = "none"
    /\ init.pc \notin Asking => reply["init"] = "none"
    /\ \A c \in In(wire) : c.who # "nobody" => reply[c.who] = "waiting"
    /\ \A m \in In(inbox) : m.who # "nobody" => reply[m.who] = "waiting"
InitAsked ==
    \A c \in In(wire) : c.who = "init" =>
        /\ init.pc \in {"policy", "policy_run", "rules"} => c.does = init.pc /\ c.target = init.target
        /\ init.pc = "released" => c.does = "run" /\ c.target = init.target
        /\ init.pc = "answer" => c.does = "answer"
MainAsked ==
    \A c \in In(wire) : c.who = "main" =>
        /\ main.pc = "start_attached" => c.does = "auto_on"
        /\ main.pc = "rules" => c.does \in {"rules", "no_rules"}

\* What the policy knows of a target, or does for it, is of one it has seen; a target
\* is put to the initializer once, and not again when it has been taken up.
SeenFirst ==
    /\ \A t \in Targets : known[t].initialized \/ known[t].detached \/ known[t].paused => known[t].seen
    /\ \A c \in In(wire) :
          /\ c.does \in {"policy", "policy_run", "run", "rules", "no_rules"} => known[c.target].seen
          /\ c.does \in {"rules", "no_rules"} => c.target \in Pages
    /\ init.target # NoTarget => known[init.target].seen
    /\ \A t \in Targets : <<"target", t>> \in In(work) =>
          known[t].seen /\ ~known[t].initialized /\ init.target # t
    /\ \A i, j \in DOMAIN work : work[i] = work[j] /\ work[i][1] = "target" => i = j
    /\ init.target # NoTarget => ~known[init.target].initialized
    /\ main.todo # {} /\ main.pc # "start_wait" => \A t \in main.todo : known[t].seen

\* A session that ended is of a target that is gone.
DetachedGone ==
    /\ \A t \in Targets : known[t].detached => life[t] = "gone"
    /\ \A m \in In(inbox) : m.tells = "detached" => life[m.target] = "gone"

\* While attachment is automatic, the browser has told of every target that runs.
Told(t) == \E m \in In(inbox) : m.tells = "running" /\ m.target = t
RunningTold == Sound /\ auto => \A t \in Targets : life[t] = "running" /\ ~known[t].seen => Told(t)
NoneTold == \A m \in In(inbox) : m.tells # "running"

\* The reply to the main thread comes after the reports of the targets that ran
\* when attachment was switched on: no such report is behind it.
AfterReply(s) ==
    \A i \in DOMAIN s : s[i].who = "main" /\ s[i].ok =>
        \A j \in DOMAIN s : j > i => s[j].tells # "running"

Attached ==
    /\ Sound /\ main.pc = "start_attached" =>
          AfterReply(inbox) /\ \A m \in In(inbox) : m.who = "main" /\ m.ok => auto
    /\ Sound /\ main.pc = "start_attached" /\ reply["main"] = "ok" => auto /\ NoneTold
    /\ Sound /\ main.pc \in Watching => auto /\ NoneTold

\* The caches are off where the initializer has done its part: a target that is
\* initialized has them off, and only such a target (or one that failed) is let run.
Gone(t) == life[t] = "gone"
Off(t) == t \in applied \/ Gone(t)
CacheOff == Sound =>
    /\ \A m \in In(inbox) :
          m.who = "init" /\ m.ok /\ init.pc \in {"policy", "policy_run"} => init.target \in applied
    /\ reply["init"] = "ok" /\ init.pc \in {"policy", "policy_run"} => init.target \in applied
    /\ init.pc = "rules" \/ (init.pc \in Ending /\ ~init.failed) => init.target \in applied
    /\ \A t \in Targets : known[t].initialized => t \in applied
    /\ \A c \in In(wire) : c.does = "run" =>
          Off(c.target) \/ (init.target = c.target /\ init.pc \in {"released", "record"} /\ init.failed)

\* In use, only the target that is being configured may run with its caches.
Bare == Sound /\ main.pc \in InUse =>
    \A t \in Targets : life[t] = "running" /\ t \notin applied => init.target = t

\* A command that sets or clears the exclusions of a page is of the thread that has
\* the lock, sets what is wanted now, or is of a page that is gone or has failed.
RuleCommands == Sound => \A c \in In(wire) :
    /\ c.does = "rules" =>
         \/ Gone(c.target)
         \/ init.target = c.target /\ init.pc = "rules" /\ (c.who = "init" \/ reply["init"] = "error")
         \/ init.target = c.target /\ init.pc \in Ending /\ init.failed
         \/ /\ main.pc = "rules" /\ blocked /\ known[c.target].initialized
            /\ c.who = "main" \/ reply["main"] = "error"
    /\ c.does = "no_rules" =>
         \/ Gone(c.target)
         \/ /\ main.pc = "rules" /\ ~blocked /\ known[c.target].initialized
            /\ c.who = "main" \/ reply["main"] = "error"

\* Exclusions were set on a page that is initialized or being so, as is wanted.
RulesByInit == Sound =>
    /\ \A t \in rules :
          known[t].initialized \/ Gone(t) \/ (init.target = t /\ init.pc \in {"rules"} \cup Ending)
    /\ init.pc = "rules" =>
          /\ reply["init"] = "ok" => init.target \in rules
          /\ \A m \in In(inbox) : m.who = "init" /\ m.ok => init.target \in rules
    /\ init.pc \in Ending /\ ~init.failed /\ init.target \in Pages =>
          Gone(init.target) \/ (init.target \in rules <=> blocked)

\* The main thread has the page's exclusions still to set, or did not succeed.
RulePending(t) ==
    \/ reply["main"] = "error"
    \/ \E c \in In(wire) : c.who = "main" /\ c.target = t
    \/ \E m \in In(inbox) : m.who = "main" /\ ~m.ok
\* An initialized page has exactly the exclusions that are wanted, unless pending.
RulesKept == Sound => \A t \in Pages : known[t].initialized /\ ~Gone(t) =>
    \/ t \in rules <=> blocked
    \/ main.pc = "rules" /\ (t \in main.todo \/ RulePending(t))

\* The invariant, with Once below.
CacheInv ==
    /\ CacheTyped /\ Conn /\ LockHeld /\ InitAt /\ MainTodo /\ Asked /\ InitAsked /\ MainAsked
    /\ SeenFirst /\ DetachedGone /\ RunningTold /\ Attached /\ CacheOff /\ Bare
    /\ RuleCommands /\ RulesByInit /\ RulesKept

USE DEF browserVars, connVars, stateVars, countVars

\* The first message of a queue and the others.
LEMMA InHead ==
    ASSUME NEW T, NEW s \in Seq(T), s # <<>>
    PROVE  /\ Head(s) \in In(s) /\ Head(s) \in T
           /\ Tail(s) \in Seq(T) /\ In(Tail(s)) \subseteq In(s)
           /\ In(s) \subseteq In(Tail(s)) \cup {Head(s)}
<1>1. Len(s) \in Nat \ {0} /\ DOMAIN s = 1 .. Len(s) /\ Head(s) = s[1]
  OBVIOUS
<1>2. /\ Tail(s) \in Seq(T) /\ Len(Tail(s)) = Len(s) - 1 /\ DOMAIN Tail(s) = 1 .. Len(s) - 1
      /\ \A i \in 1 .. Len(s) - 1 : Tail(s)[i] = s[i + 1]
  OBVIOUS
<1>3. In(Tail(s)) \subseteq In(s)
  BY <1>1, <1>2 DEF In
<1>4. ASSUME NEW i \in 1 .. Len(s) PROVE s[i] \in In(Tail(s)) \cup {Head(s)}
  <2>1. CASE i = 1
    BY <2>1, <1>1
  <2>2. CASE i # 1
    <3>1. i - 1 \in 1 .. Len(s) - 1 /\ Tail(s)[i - 1] = s[i]
      BY <2>2, <1>1, <1>2
    <3> QED
      BY <3>1, <1>2 DEF In
  <2> QED
    BY <2>1, <2>2
<1> QED
  BY <1>1, <1>2, <1>3, <1>4 DEF In

\* A message at the end of a queue.
LEMMA InAppend ==
    ASSUME NEW T, NEW s \in Seq(T), NEW x \in T
    PROVE  Append(s, x) \in Seq(T) /\ In(Append(s, x)) = In(s) \cup {x}
<1>1. /\ Append(s, x) \in Seq(T) /\ DOMAIN Append(s, x) = 1 .. Len(s) + 1 /\ Len(s) \in Nat
      /\ DOMAIN s = 1 .. Len(s)
      /\ \A i \in 1 .. Len(s) : Append(s, x)[i] = s[i]
      /\ Append(s, x)[Len(s) + 1] = x
  OBVIOUS
<1>2. In(Append(s, x)) \subseteq In(s) \cup {x}
  <2> SUFFICES ASSUME NEW i \in 1 .. Len(s) + 1 PROVE Append(s, x)[i] \in In(s) \cup {x}
    BY <1>1 DEF In
  <2> QED
    BY <1>1 DEF In
<1>3. In(s) \subseteq In(Append(s, x))
  BY <1>1 DEF In
<1>4. x \in In(Append(s, x))
  BY <1>1 DEF In
<1> QED
  BY <1>1, <1>2, <1>3, <1>4

\* Two queues one behind the other.
LEMMA InConcat ==
    ASSUME NEW T, NEW s \in Seq(T), NEW u \in Seq(T)
    PROVE  s \o u \in Seq(T) /\ In(s \o u) = In(s) \cup In(u)
<1>1. /\ s \o u \in Seq(T) /\ Len(s) \in Nat /\ Len(u) \in Nat /\ DOMAIN (s \o u) = 1 .. Len(s) + Len(u)
      /\ DOMAIN s = 1 .. Len(s) /\ DOMAIN u = 1 .. Len(u)
      /\ \A i \in 1 .. Len(s) : (s \o u)[i] = s[i]
      /\ \A i \in 1 .. Len(u) : (s \o u)[Len(s) + i] = u[i]
  OBVIOUS
<1>2. ASSUME NEW i \in 1 .. Len(s) + Len(u) PROVE (s \o u)[i] \in In(s) \cup In(u)
  <2>1. CASE i <= Len(s)
    BY <2>1, <1>1 DEF In
  <2>2. CASE i > Len(s)
    <3>1. i - Len(s) \in 1 .. Len(u) /\ Len(s) + (i - Len(s)) = i
      BY <2>2, <1>1
    <3>2. (s \o u)[i] = u[i - Len(s)]
      BY <3>1, <1>1
    <3> QED
      BY <3>1, <3>2, <1>1 DEF In
  <2> QED
    BY <2>1, <2>2, <1>1
<1>3. In(s) \subseteq In(s \o u)
  BY <1>1 DEF In
<1>4. ASSUME NEW i \in 1 .. Len(u) PROVE u[i] \in In(s \o u)
  <2>1. Len(s) + i \in 1 .. Len(s) + Len(u) /\ (s \o u)[Len(s) + i] = u[i]
    BY <1>1
  <2> QED
    BY <2>1, <1>1 DEF In
<1> QED
  BY <1>1, <1>2, <1>3, <1>4 DEF In

\* A queue of one message behind another.
LEMMA ConcatOne ==
    ASSUME NEW T, NEW s \in Seq(T), NEW x \in T
    PROVE  s \o <<x>> = Append(s, x)
OBVIOUS

\* Some messages and then one more behind a queue.
LEMMA InExtended ==
    ASSUME NEW T, NEW s \in Seq(T), NEW u \in Seq(T), NEW x \in T
    PROVE  /\ s \o u \o <<x>> = Append(s \o u, x)
           /\ s \o u \o <<x>> \in Seq(T) /\ In(s \o u \o <<x>>) = In(s) \cup In(u) \cup {x}
<1> DEFINE r == s \o u
<1>1. r \in Seq(T) /\ In(r) = In(s) \cup In(u)
  BY InConcat
<1> HIDE DEF r
<1>2. r \o <<x>> = Append(r, x)
  BY <1>1, ConcatOne
<1>3. Append(r, x) \in Seq(T) /\ In(Append(r, x)) = In(r) \cup {x}
  BY <1>1, InAppend
<1>4. r \o <<x>> \in Seq(T) /\ In(r \o <<x>>) = In(s) \cup In(u) \cup {x}
  BY <1>1, <1>2, <1>3
<1> QED
  BY <1>1, <1>2, <1>4 DEF r

\* A thread sends a command and waits, or is refused at once (_call on a connection
\* that is lost).
LEMMA AskFacts ==
    ASSUME CacheTyped, NEW w \in Threads, NEW d, NEW t, Command(w, d, t) \in Commands, Ask(w, d, t)
    PROVE  /\ wire' \in Seq(Commands)
           /\ reply' \in [Threads -> {"none", "waiting", "ok", "error"}]
           /\ reply'[w] \in {"waiting", "error"}
           /\ \A v \in Threads \ {w} : reply'[v] = reply[v]
           /\ In(wire') \subseteq In(wire) \cup {Command(w, d, t)}
           /\ In(wire) \subseteq In(wire')
           /\ reply'[w] = "waiting" => Command(w, d, t) \in In(wire')
           /\ reply'[w] = "error" => wire' = wire
<1>1. /\ reply' \in [Threads -> {"none", "waiting", "ok", "error"}]
      /\ reply'[w] = IF connected THEN "waiting" ELSE "error"
      /\ \A v \in Threads \ {w} : reply'[v] = reply[v]
  BY DEF CacheTyped, Ask
<1>2. CASE connected
  <2>1. wire' = Append(wire, Command(w, d, t)) /\ wire \in Seq(Commands)
    BY <1>2 DEF CacheTyped, Ask
  <2>2. wire' \in Seq(Commands) /\ In(wire') = In(wire) \cup {Command(w, d, t)}
    BY <2>1, InAppend
  <2> QED
    BY <1>1, <1>2, <2>2
<1>3. CASE ~connected
  <2>1. wire' = wire /\ wire \in Seq(Commands)
    BY <1>3 DEF CacheTyped, Ask
  <2> QED
    BY <1>1, <1>3, <2>1
<1> QED
  BY <1>2, <1>3 DEF CacheTyped

\* A thread takes its reply and sends nothing.
LEMMA AskNothingFacts ==
    ASSUME CacheTyped, NEW w \in Threads, AskNothing(w)
    PROVE  /\ wire' = wire /\ wire' \in Seq(Commands)
           /\ reply' \in [Threads -> {"none", "waiting", "ok", "error"}]
           /\ reply'[w] = "none"
           /\ \A v \in Threads \ {w} : reply'[v] = reply[v]
BY DEF CacheTyped, AskNothing

\* The commands of a thread are commands.
LEMMA CommandKinds ==
    ASSUME NEW w \in Threads
    PROVE  /\ \A d \in OfTarget, t \in Targets : Command(w, d, t) \in Commands
           /\ \A d \in OfAll : Command(w, d, NoTarget) \in Commands
BY DEF Command, Commands, Senders

\* The fields of what is on the wire, in the inbox and in the queue of work.
LEMMA Fields ==
    ASSUME CacheTyped
    PROVE  /\ \A c \in In(wire) : c \in Commands /\ c.who \in Senders /\ c.target \in Targets \cup {NoTarget}
                                  /\ (c.does \in OfTarget => c.target \in Targets)
                                  /\ c.does \in OfTarget \cup OfAll
           /\ \A m \in In(inbox) : m \in Messages /\ m.who \in Senders /\ m.ok \in BOOLEAN
                                  /\ (m.tells # "reply" => m \in Events /\ m.target \in Targets /\ m.who = "nobody" /\ m.ok)
           /\ \A w \in In(work) : w \in Work
           /\ main.pc \in MainPcs /\ main.todo \subseteq Targets
           /\ init.pc \in InitPcs /\ init.target \in Targets \cup {NoTarget} /\ init.failed \in BOOLEAN
           /\ \A w \in Threads : reply[w] \in {"none", "waiting", "ok", "error"}
<1>1. \A c \in In(wire) : c \in Commands
  BY DEF CacheTyped, In
<1>2. \A m \in In(inbox) : m \in Messages
  BY DEF CacheTyped, In
<1>3. \A w \in In(work) : w \in Work
  BY DEF CacheTyped, In
<1>4. \A c \in Commands : c.who \in Senders /\ c.target \in Targets \cup {NoTarget}
                          /\ (c.does \in OfTarget => c.target \in Targets) /\ c.does \in OfTarget \cup OfAll
  BY DEF Commands, OfTarget, OfAll
<1>5. \A m \in Messages : m.who \in Senders /\ m.ok \in BOOLEAN
                          /\ (m.tells # "reply" => m \in Events /\ m.target \in Targets /\ m.who = "nobody" /\ m.ok)
  BY DEF Messages, Events, Replies, Senders
<1> QED
  BY <1>1, <1>2, <1>3, <1>4, <1>5 DEF CacheTyped

\* What the browser tells of the targets that run when it begins to.
LEMMA ReportedFacts ==
    ASSUME CacheTyped, NEW c \in Commands
    PROVE  /\ Reported(c) \in Seq(Events)
           /\ \A m \in In(Reported(c)) : m.tells = "running" /\ c.does = "auto_on" /\ ~auto
           /\ c.does = "auto_on" /\ ~auto =>
                 \A t \in Targets : life[t] = "running" =>
                    \E m \in In(Reported(c)) : m.tells = "running" /\ m.target = t
<1> DEFINE existing == {t \in Targets : life[t] = "running"}
           told == {Event("running", t) : t \in existing}
           n == Cardinality(existing)
           Once(s) == \A i, j \in DOMAIN s : s[i] = s[j] => i = j
<1>1. CASE ~(c.does = "auto_on" /\ ~auto)
  BY <1>1 DEF Reported, In
<1>2. CASE c.does = "auto_on" /\ ~auto
  <2>1. IsFiniteSet(existing) /\ n \in Nat
    BY CachePolicyAssumption, FS_Subset, FS_CardinalityType
  <2>2. IsFiniteSet(told) /\ Cardinality(told) = n
    <3> DEFINE f == [t \in existing |-> Event("running", t)]
    <3>1. f \in Bijection(existing, told)
      BY DEF Bijection, Injection, Surjection, IsInjective, Event
    <3>2. ExistsBijection(existing, told)
      BY <3>1 DEF ExistsBijection
    <3> QED
      BY <2>1, <3>2, FS_Bijection
  <2>3. \E s \in [1 .. n -> told] : Once(s)
    <3>1. ExistsBijection(1 .. n, told)
      BY <2>2, FS_CardinalityType
    <3>2. PICK s \in Bijection(1 .. n, told) : TRUE
      BY <3>1 DEF ExistsBijection
    <3>3. s \in [1 .. n -> told] /\ Once(s)
      BY <3>2 DEF Bijection, Injection, Surjection, IsInjective
    <3> QED
      BY <3>3
  <2>4. Reported(c) = CHOOSE s \in [1 .. n -> told] : Once(s)
    BY <1>2 DEF Reported
  <2>5. Reported(c) \in [1 .. n -> told] /\ Once(Reported(c))
    BY <2>3, <2>4
  <2>6. Reported(c) \in Surjection(1 .. n, told)
    <3>1. Reported(c) \in Injection(1 .. n, told)
      BY <2>5 DEF Injection, IsInjective
    <3>2. Cardinality(1 .. n) = n /\ IsFiniteSet(1 .. n)
      BY <2>1, FS_Interval
    <3> QED
      BY <3>1, <3>2, <2>2, FS_Injection
  <2>7. \A t \in existing : Event("running", t) \in Events /\ Event("running", t).tells = "running" /\ Event("running", t).target = t
    BY DEF Event, Events
  <2>8. told \subseteq Events /\ \A m \in told : m.tells = "running"
    BY <2>7
  <2>9. Reported(c) \in Seq(Events)
    <3>1. Reported(c) \in [1 .. n -> Events]
      BY <2>5, <2>8
    <3>2. \A s \in [1 .. n -> Events] : s \in Seq(Events)
      BY <2>1, SeqDef
    <3> QED
      BY <3>1, <3>2
  <2>10. DOMAIN Reported(c) = 1 .. n /\ In(Reported(c)) = told
    BY <2>5, <2>6 DEF Surjection, In
  <2> QED
    BY <1>2, <2>7, <2>8, <2>9, <2>10
<1> QED
  BY <1>1, <1>2

\* A step that leaves everything alone keeps the invariant.
LEMMA StutterKeeps ==
    ASSUME CacheInv, UNCHANGED cacheVars
    PROVE  CacheInv'
BY DEF CacheInv, cacheVars, CacheTyped, Conn, LockHeld, InitAt, MainTodo, Asked, InitAsked, MainAsked,
       SeenFirst, DetachedGone, RunningTold, Attached, CacheOff, Bare, RuleCommands, RulesByInit,
       RulesKept, Sound, Told, NoneTold, Gone, Off, RulePending, In, AfterReply

\* The invariant holds at first.
LEMMA Start ==
    ASSUME CacheInit
    PROVE  CacheInv
<1>1. wire = <<>> /\ inbox = <<>> /\ work = <<>> /\ In(wire) = {} /\ In(inbox) = {} /\ In(work) = {}
  BY DEF CacheInit, In
<1>2. CacheTyped
  <2>1. Unknown \in TargetFacts
    BY DEF TargetFacts, Unknown
  <2>2. known \in [Targets -> TargetFacts] /\ life \in [Targets -> {"none", "paused", "running", "gone"}]
    BY <2>1 DEF CacheInit
  <2>3. /\ main \in [pc : MainPcs, todo : SUBSET Targets]
        /\ init \in [pc : InitPcs, target : Targets \cup {NoTarget}, failed : BOOLEAN]
    BY DEF CacheInit, MainPcs, InitPcs
  <2>4. wire \in Seq(Commands) /\ inbox \in Seq(Messages) /\ work \in Seq(Work)
    BY <1>1
  <2> QED
    BY <2>2, <2>3, <2>4 DEF CacheInit, CacheTyped
<1>3. /\ \A t \in Targets : known[t] = Unknown
      /\ ~auto /\ applied = {} /\ rules = {} /\ reply["main"] = "none" /\ reply["init"] = "none"
      /\ main.pc = "start" /\ main.todo = {} /\ init.pc = "take" /\ init.target = NoTarget /\ connected
      /\ ~cacheErrors /\ ~closing /\ lock = "free" /\ ~init.failed
      /\ \A t \in Targets : life[t] # "gone"
  BY DEF CacheInit, Threads
<1>4. Conn /\ LockHeld /\ InitAt /\ MainTodo
  BY <1>1, <1>3 DEF Conn, LockHeld, InitAt, MainTodo, Locked
<1>5. Asked /\ InitAsked /\ MainAsked
  BY <1>1, <1>3 DEF Asked, InitAsked, MainAsked
<1>6. SeenFirst /\ DetachedGone
  BY <1>1, <1>3 DEF SeenFirst, DetachedGone, Unknown
<1>7. RunningTold /\ Attached /\ CacheOff /\ Bare
  BY <1>1, <1>3 DEF RunningTold, Attached, AfterReply, CacheOff, Bare, Watching, Starting, InUse, Ending,
                    Unknown
<1>8. RuleCommands /\ RulesByInit /\ RulesKept
  BY <1>1, <1>3, CachePolicyAssumption DEF RuleCommands, RulesByInit, RulesKept, Ending, Unknown
<1> QED
  BY <1>2, <1>4, <1>5, <1>6, <1>7, <1>8 DEF CacheInv

\* The steps of the main thread that leave the exclusions alone.
OtherMain ==
    \/ StartAttach \/ StartList \/ StartListed \/ StartWait \/ CheckAsk \/ CheckWait
    \/ CoveragePasses \/ CoverageRaises \/ GiveUp \/ Close \/ CloseRun
Alone == UNCHANGED <<browserVars, inbox, known, work, init, connected, closing, blocked, lock, cacheErrors>>
OtherPcs == MainPcs \ {"rules", "closed"}

\* Those steps leave all but the main thread and its reply alone.
LEMMA OtherFrame ==
    ASSUME CacheInv, OtherMain
    PROVE  /\ Alone
           /\ main.pc \in OtherPcs /\ main' \in [pc : OtherPcs, todo : SUBSET Targets]
           /\ reply["main"] # "waiting"
<1>1. /\ main.pc \notin MainAsks => reply["main"] = "none"
      /\ main \in [pc : MainPcs, todo : SUBSET Targets]
  BY DEF CacheInv, CacheTyped, Asked
<1>2. Alone
  BY DEF OtherMain, Alone, StartAttach, StartList, StartListed, StartWait, CheckAsk, CheckWait, CoveragePasses,
         CoverageRaises, GiveUp, Close, CloseRun, MainOnly, Keep
<1>3. main.pc \in OtherPcs
  BY DEF OtherMain, OtherPcs, MainPcs, MainAt, StartAttach, StartList, StartListed, StartWait, CheckAsk,
         CheckWait,
         CoveragePasses, CoverageRaises, GiveUp, Close, CloseRun
<1>4. reply["main"] # "waiting"
  BY <1>1 DEF OtherMain, MainAt, Replied, MainAsks, StartAttach, StartList, StartListed, StartWait, CheckAsk,
              CheckWait,
         CoveragePasses, CoverageRaises, GiveUp, Close, CloseRun
<1>5. ASSUME NEW p \in OtherPcs, Goto(p) PROVE main' \in [pc : OtherPcs, todo : SUBSET Targets]
  BY <1>5 DEF Goto
<1>6. ASSUME NEW t, main' = [main EXCEPT !.todo = @ \ {t}] PROVE main' \in [pc : OtherPcs, todo : SUBSET Targets]
  BY <1>1, <1>3, <1>6
<1>7. /\ {"start_attached", "start_listed", "start_check", "start_check_wait", "ready", "check", "check_wait", "failed",
          "close", "close_socket", "close_run", "start_wait"} \subseteq OtherPcs
  BY DEF OtherPcs, MainPcs
<1>8. main' \in [pc : OtherPcs, todo : SUBSET Targets]
  <2>1. CASE StartAttach \/ StartList \/ CheckAsk \/ CheckWait \/ CoveragePasses \/ CoverageRaises \/ GiveUp \/ StartWait
    BY <2>1, <1>5, <1>7 DEF StartAttach, StartList, CheckAsk, CheckWait, CoveragePasses, CoverageRaises,
                            GiveUp, StartWait
  <2>2. CASE StartListed
    BY <2>2, <1>5, <1>7 DEF StartListed
  <2>3. CASE Close
    BY <2>3, <1>7 DEF Close
  <2>4. CASE CloseRun
    BY <2>4, <1>5, <1>6, <1>7 DEF CloseRun
  <2> QED
    BY <2>1, <2>2, <2>3, <2>4 DEF OtherMain
<1> QED
  BY <1>2, <1>3, <1>4, <1>8

\* Where those steps go: to a phase of use only with a session for every target,
\* and to no phase with a reply left over.
LEMMA OtherPath ==
    ASSUME CacheInv, OtherMain
    PROVE  /\ main'.pc \notin MainAsks => reply'["main"] = "none"
           /\ main'.pc \in Open => main.pc \in Open
           /\ main'.pc \in Watching => main.pc \in Watching \/ (main.pc = "start_attached" /\ reply["main"] = "ok")
           /\ main'.pc \in InUse => main.pc \in InUse \/ CoveragePasses
           /\ main'.pc = "start_attached" => main.pc = "start"
           /\ main'.todo # {} /\ main'.pc # "start_wait" => \A t \in main'.todo : known[t].seen
           /\ main'.pc = "close_socket" \/ main.pc # "close_socket"
<1> DEFINE Path == /\ main'.pc \notin MainAsks => reply'["main"] = "none"
                   /\ main'.pc \in Open => main.pc \in Open
                   /\ main'.pc \in Watching => main.pc \in Watching \/ (main.pc = "start_attached" /\ reply["main"] = "ok")
                   /\ main'.pc \in InUse => main.pc \in InUse \/ CoveragePasses
                   /\ main'.pc = "start_attached" => main.pc = "start"
                   /\ main'.todo # {} /\ main'.pc # "start_wait" => \A t \in main'.todo : known[t].seen
                   /\ main'.pc = "close_socket" \/ main.pc # "close_socket"
<1> USE DEF MainAsks, Open, Watching, Starting, InUse, MainAt, Goto
<1>1. /\ main.pc \notin MainAsks => reply["main"] = "none"
      /\ reply \in [Threads -> {"none", "waiting", "ok", "error"}] /\ "main" \in Threads
      /\ main \in [pc : MainPcs, todo : SUBSET Targets]
      /\ \A t \in Targets : known[t].paused => known[t].seen
      /\ main.todo # {} /\ main.pc # "start_wait" => \A t \in main.todo : known[t].seen
  BY DEF CacheInv, CacheTyped, Asked, SeenFirst, Threads
<1>2. CASE StartAttach \/ StartList \/ StartListed
  BY <1>1, <1>2 DEF StartAttach, StartList, StartListed, AskNothing, Replied
<1>3. CASE StartWait \/ CheckAsk
  BY <1>1, <1>3 DEF StartWait, CheckAsk, AskNothing
<1>4. CASE CheckWait
  BY <1>1, <1>4 DEF CheckWait, AskNothing
<1>5. CASE CoveragePasses
  BY <1>1, <1>5 DEF CoveragePasses
<1>6. CASE CoverageRaises \/ GiveUp
  BY <1>1, <1>6 DEF CoverageRaises, GiveUp
<1>7. CASE Close
  BY <1>1, <1>7 DEF Close, AskNothing
<1>8. CASE CloseRun
  <2>1. CASE main.todo = {} /\ Goto("close_socket")
    BY <2>1, <1>8 DEF CloseRun
  <2>2. CASE \E t \in main.todo : main' = [main EXCEPT !.todo = @ \ {t}]
    BY <2>2, <1>1, <1>8 DEF CloseRun
  <2> QED
    BY <1>8, <2>1, <2>2 DEF CloseRun
<1> QED
  BY <1>2, <1>3, <1>4, <1>5, <1>6, <1>7, <1>8 DEF OtherMain

\* What those steps put on the wire.
LEMMA OtherWire ==
    ASSUME CacheInv, OtherMain
    PROVE  /\ wire' \in Seq(Commands)
           /\ reply' \in [Threads -> {"none", "waiting", "ok", "error"}]
           /\ reply'["init"] = reply["init"]
           /\ In(wire) \subseteq In(wire')
           /\ \A c \in In(wire') \ In(wire) :
                 /\ c.who = "main" /\ reply'["main"] = "waiting"
                 /\ \/ c.does = "auto_on"
                    \/ c.does = "targets" /\ main'.pc # "start_attached"
                    \/ c.does = "auto_off" /\ main'.pc = "close_socket"
                    \/ c.does = "run" /\ main'.pc = "close_run" /\ known[c.target].seen
<1> DEFINE Wire(D, T) ==
           /\ wire' \in Seq(Commands)
           /\ reply' \in [Threads -> {"none", "waiting", "ok", "error"}]
           /\ reply'["init"] = reply["init"]
           /\ In(wire) \subseteq In(wire')
           /\ \A c \in In(wire') \ In(wire) :
                 c.who = "main" /\ reply'["main"] = "waiting" /\ c.does \in D /\ c.target \in T
<1>1. CacheTyped /\ "main" \in Threads /\ "init" \in Threads \ {"main"}
  BY DEF CacheInv, Threads
<1>2. ASSUME NEW d \in OfAll, Ask("main", d, NoTarget) PROVE Wire({d}, {NoTarget})
  <2>1. Command("main", d, NoTarget) \in Commands
    BY <1>1, CommandKinds
  <2>2. Command("main", d, NoTarget).who = "main" /\ Command("main", d, NoTarget).does = d
        /\ Command("main", d, NoTarget).target = NoTarget
    BY DEF Command
  <2> QED
    BY <1>1, <1>2, <2>1, <2>2, AskFacts
<1>3. ASSUME NEW t \in Targets, Ask("main", "run", t) PROVE Wire({"run"}, {t})
  <2>1. Command("main", "run", t) \in Commands
    BY <1>1, CommandKinds DEF OfTarget
  <2>2. Command("main", "run", t).who = "main" /\ Command("main", "run", t).does = "run"
        /\ Command("main", "run", t).target = t
    BY DEF Command
  <2> QED
    BY <1>1, <1>3, <2>1, <2>2, AskFacts
<1>4. ASSUME AskNothing("main") PROVE Wire({}, {})
  BY <1>1, <1>4, AskNothingFacts
<1>5. ASSUME UNCHANGED <<wire, reply>> PROVE Wire({}, {})
  BY <1>1, <1>5 DEF CacheTyped
<1>6. "auto_on" \in OfAll /\ "targets" \in OfAll /\ "auto_off" \in OfAll
  BY DEF OfAll
<1>7. CASE StartAttach
  <2>1. Wire({"auto_on"}, {NoTarget})
    BY <1>2, <1>6, <1>7 DEF StartAttach
  <2> QED
    BY <2>1
<1>8. CASE StartList \/ StartWait \/ CheckAsk
  <2>1. (Wire({"targets"}, {NoTarget}) /\ main'.pc # "start_attached") \/ Wire({}, {})
    BY <1>2, <1>4, <1>6, <1>8 DEF StartList, StartWait, CheckAsk, Goto
  <2> QED
    BY <2>1
<1>9. CASE StartListed \/ CheckWait \/ CoveragePasses \/ CoverageRaises \/ GiveUp \/ Close
  <2>1. Wire({}, {})
    BY <1>4, <1>5, <1>9 DEF StartListed, CheckWait, CoveragePasses, CoverageRaises, GiveUp, Close
  <2> QED
    BY <2>1
<1>10. CASE CloseRun
  <2>1. CASE Ask("main", "auto_off", NoTarget) /\ Goto("close_socket")
    <3>1. Wire({"auto_off"}, {NoTarget}) /\ main'.pc = "close_socket"
      BY <1>2, <1>6, <2>1 DEF Goto
    <3> QED
      BY <3>1
  <2>2. CASE \E t \in main.todo : Ask("main", "run", t) /\ main' = [main EXCEPT !.todo = @ \ {t}]
    <3>1. PICK t \in main.todo : Ask("main", "run", t) /\ main' = [main EXCEPT !.todo = @ \ {t}]
      BY <2>2
    <3>2. t \in Targets /\ main.pc = "close_run" /\ main'.pc = "close_run" /\ known[t].seen
      BY <3>1, <1>10 DEF CloseRun, MainAt, CacheInv, CacheTyped, SeenFirst
    <3>3. Wire({"run"}, {t})
      BY <3>1, <3>2, <1>3
    <3> QED
      BY <3>2, <3>3
  <2> QED
    BY <1>10, <2>1, <2>2 DEF CloseRun
<1> QED
  BY <1>7, <1>8, <1>9, <1>10 DEF OtherMain

\* When the check passes, every target that runs has its caches off.
LEMMA PassedIsOff ==
    ASSUME CacheInv, CoveragePasses
    PROVE  /\ \A t \in Targets : life[t] = "running" => t \in applied /\ known[t].initialized
           /\ Sound /\ main.pc # "rules"
<1>1. Sound /\ main.pc \in Watching /\ main.pc # "rules" /\ Covered(Seen)
  BY DEF CoveragePasses, Passes, Sound, Open, Watching, Starting, InUse
<1>2. auto /\ NoneTold
  BY <1>1 DEF CacheInv, Attached
<1>3. ASSUME NEW t \in Targets, life[t] = "running" PROVE known[t].seen
  BY <1>1, <1>2, <1>3 DEF CacheInv, RunningTold, Told, NoneTold
<1>4. ASSUME NEW t \in Targets, life[t] = "running" PROVE known[t].initialized
  BY <1>1, <1>3, <1>4 DEF CacheInv, DetachedGone, Covered, Seen
<1>5. \A t \in Targets : known[t].initialized => t \in applied
  BY <1>1 DEF CacheInv, CacheOff
<1> QED
  BY <1>1, <1>4, <1>5

\* Those steps keep the invariant.
LEMMA OtherKeeps ==
    ASSUME CacheInv, OtherMain
    PROVE  CacheInv'
<1>1. /\ UNCHANGED <<life, applied, rules, auto, held,
                     inbox, known, work, init, connected, closing, blocked, lock, cacheErrors>>
      /\ main.pc \in OtherPcs /\ main' \in [pc : OtherPcs, todo : SUBSET Targets]
      /\ reply["main"] # "waiting"
  BY OtherFrame DEF Alone
<1>2. /\ main'.pc \in OtherPcs /\ main.pc # "rules" /\ main'.pc # "rules" /\ main'.pc # "closed" /\ main.pc # "closed"
  BY <1>1 DEF OtherPcs
<1>3. /\ main'.pc \notin MainAsks => reply'["main"] = "none"
      /\ main'.pc \in Open => main.pc \in Open
      /\ main'.pc \in Watching => main.pc \in Watching \/ (main.pc = "start_attached" /\ reply["main"] = "ok")
      /\ main'.pc \in InUse => main.pc \in InUse \/ CoveragePasses
      /\ main'.pc = "start_attached" => main.pc = "start"
      /\ main'.todo # {} /\ main'.pc # "start_wait" => \A t \in main'.todo : known[t].seen
      /\ main'.pc = "close_socket" \/ main.pc # "close_socket"
  BY OtherPath
<1>4. /\ wire' \in Seq(Commands)
      /\ reply' \in [Threads -> {"none", "waiting", "ok", "error"}]
      /\ reply'["init"] = reply["init"]
      /\ In(wire) \subseteq In(wire')
      /\ \A c \in In(wire') \ In(wire) :
            /\ c.who = "main" /\ reply'["main"] = "waiting"
            /\ \/ c.does = "auto_on"
               \/ c.does = "targets" /\ main'.pc # "start_attached"
               \/ c.does = "auto_off" /\ main'.pc = "close_socket"
               \/ c.does = "run" /\ main'.pc = "close_run" /\ known[c.target].seen
  BY OtherWire
<1>5. Sound' => Sound
  BY <1>1, <1>3 DEF Sound
<1>6. /\ \A c \in In(wire) : c.who \in {"main", "init", "nobody"} /\ c.who # "main"
      /\ \A m \in In(inbox) : m.who \in {"main", "init", "nobody"} /\ m.who # "main"
  BY <1>1, Fields DEF CacheInv, Asked, Senders, Threads
<1>7. CacheTyped'
  BY <1>1, <1>4 DEF CacheInv, CacheTyped, OtherPcs
<1>8. Conn' /\ LockHeld' /\ InitAt' /\ MainTodo'
  BY <1>1, <1>2, <1>3, <1>4 DEF CacheInv, Conn, LockHeld, InitAt, MainTodo
<1>9. Asked'
  BY <1>1, <1>3, <1>4, <1>6 DEF CacheInv, Asked
<1>10. InitAsked'
  BY <1>1, <1>4 DEF CacheInv, InitAsked
<1>11. MainAsked'
  BY <1>2, <1>3, <1>4, <1>6 DEF CacheInv, MainAsked
<1>12. SeenFirst' /\ DetachedGone'
  BY <1>1, <1>3, <1>4 DEF CacheInv, SeenFirst, DetachedGone
<1>13. RunningTold'
  BY <1>1, <1>5 DEF CacheInv, RunningTold, Told
<1>14. Attached'
  <2>1. Sound' /\ main'.pc \in Watching => auto /\ NoneTold
    BY <1>1, <1>3, <1>5 DEF CacheInv, Attached
  <2>2. main'.pc = "start_attached" => \A m \in In(inbox) : m.who # "main"
    BY <1>6
  <2>3. main'.pc = "start_attached" => reply'["main"] # "ok"
    <3>1. CASE StartAttach
      BY <3>1, <1>4, AskFacts, CommandKinds DEF StartAttach, Threads, CacheInv, OfAll
    <3>2. CASE ~StartAttach
      <4>1. main.pc # "start"
        BY <3>2 DEF OtherMain, MainAt, StartList, StartListed, StartWait, CheckAsk, CheckWait, CoveragePasses,
                    CoverageRaises, GiveUp, Close, CloseRun
      <4> QED
        BY <4>1, <1>3
    <3> QED
      BY <3>1, <3>2
  <2> QED
    BY <1>1, <2>1, <2>2, <2>3 DEF Attached, NoneTold, AfterReply, In
<1>15. CacheOff'
  <2>1. \A c \in In(wire') \ In(wire) : Sound' => c.does # "run"
    BY <1>4 DEF Sound, Open, Watching, Starting, InUse
  <2>2. Sound' => \A c \in In(wire') : c.does = "run" => c \in In(wire)
    BY <2>1
  <2> QED
    BY <1>1, <1>4, <1>5, <2>2 DEF CacheInv, CacheOff, Off, Gone
<1>16. Bare'
  BY <1>1, <1>3, <1>5, PassedIsOff DEF CacheInv, Bare
<1>17. RuleCommands'
  BY <1>1, <1>2, <1>4, <1>5 DEF CacheInv, RuleCommands, Gone
<1>18. RulesByInit'
  BY <1>1, <1>4, <1>5 DEF CacheInv, RulesByInit, Gone
<1>19. RulesKept'
  BY <1>1, <1>2, <1>5 DEF CacheInv, RulesKept, Gone
<1> QED
  BY <1>7, <1>8, <1>9, <1>10, <1>11, <1>12, <1>13, <1>14, <1>15, <1>16, <1>17, <1>18, <1>19 DEF CacheInv

\* set_blocked_urls keeps the invariant: the initialized pages are those to do.
LEMMA SetRulesKeeps ==
    ASSUME CacheInv, SetRules
    PROVE  CacheInv'
<1> USE DEF Goto, MainAt
<1>1. /\ UNCHANGED <<life, applied, rules, auto, held,
                     inbox, wire, reply, known, work, init, connected, closing, cacheErrors>>
      /\ main.pc = "ready" /\ lock = "free" /\ lock' = "main" /\ blocked' = ~blocked
      /\ main' = [pc |-> "rules", todo |-> {t \in Pages : known[t].initialized /\ ~known[t].detached}]
  BY DEF SetRules, MainOnly
<1>2. /\ main'.pc = "rules" /\ main'.todo = {t \in Pages : known[t].initialized /\ ~known[t].detached}
      /\ main' \in [pc : MainPcs, todo : SUBSET Targets]
  BY <1>1, CachePolicyAssumption DEF MainPcs
<1>3. init.pc \notin Locked
  BY <1>1 DEF CacheInv, LockHeld
<1>4. Sound' => Sound
  BY <1>1 DEF Sound, Open, Watching, InUse
<1>5. CacheTyped'
  BY <1>1, <1>2 DEF CacheInv, CacheTyped
<1>6. Conn' /\ LockHeld' /\ InitAt' /\ MainTodo'
  BY <1>1, <1>2, <1>3 DEF CacheInv, Conn, LockHeld, InitAt, MainTodo, Locked
<1>7. Asked' /\ InitAsked' /\ MainAsked'
  BY <1>1, <1>2 DEF CacheInv, Asked, InitAsked, MainAsked, MainAsks
<1>8. SeenFirst' /\ DetachedGone'
  BY <1>1, <1>2, CachePolicyAssumption DEF CacheInv, SeenFirst, DetachedGone
<1>9. RunningTold'
  BY <1>1, <1>4 DEF CacheInv, RunningTold, Told
<1>10. Attached'
  BY <1>1, <1>2, <1>4 DEF CacheInv, Attached, NoneTold, Watching, InUse
<1>11. CacheOff' /\ Bare'
  BY <1>1, <1>4 DEF CacheInv, CacheOff, Bare, Off, Gone, InUse
<1>12. RuleCommands'
  BY <1>1, <1>2, <1>3, <1>4 DEF CacheInv, RuleCommands, Gone, Locked, Ending
<1>13. RulesByInit'
  BY <1>1, <1>3, <1>4 DEF CacheInv, RulesByInit, Gone, Locked, Ending
<1>14. RulesKept'
  <2> SUFFICES ASSUME NEW t \in Pages, known[t].initialized, ~Gone(t)
               PROVE  t \in main'.todo
    BY <1>1, <1>2 DEF RulesKept, Gone
  <2>1. ~known[t].detached
    BY CachePolicyAssumption DEF CacheInv, DetachedGone, Gone
  <2> QED
    BY <1>2, <2>1
<1> QED
  BY <1>5, <1>6, <1>7, <1>8, <1>9, <1>10, <1>11, <1>12, <1>13, <1>14 DEF CacheInv

\* What nobody waits for is on no wire.
LEMMA NotWaiting ==
    ASSUME CacheInv, NEW w \in Threads, reply[w] # "waiting"
    PROVE  (\A c \in In(wire) : c.who # w) /\ (\A m \in In(inbox) : m.who # w)
BY DEF CacheInv, Asked, Threads

\* Every command and message is of a thread or of nobody.
LEMMA Whose ==
    ASSUME CacheInv
    PROVE  (\A c \in In(wire) : c.who \in {"main", "init", "nobody"})
           /\ (\A m \in In(inbox) : m.who \in {"main", "init", "nobody"})
BY Fields DEF CacheInv, Senders, Threads

\* The next page of set_blocked_urls: its command is of the main thread, which has the
\* lock.
LEMMA SetRuleKeeps ==
    ASSUME CacheInv, SetRule
    PROVE  CacheInv'
<1> USE DEF Goto, MainAt
<1> DEFINE d == IF blocked THEN "rules" ELSE "no_rules"
<1>1. PICK t \in main.todo : Ask("main", d, t) /\ main' = [main EXCEPT !.todo = @ \ {t}]
  BY DEF SetRule
<1>2. /\ UNCHANGED <<life, applied, rules, auto, held,
                     inbox, known, work, init, connected, closing, blocked, lock, cacheErrors>>
      /\ main.pc = "rules" /\ reply["main"] = "none"
  BY DEF SetRule, MainOnly, Keep
<1>3. main.todo \subseteq Targets /\ main \in [pc : MainPcs, todo : SUBSET Targets]
  BY DEF CacheInv, CacheTyped
<1>4. /\ main' \in [pc : MainPcs, todo : SUBSET Targets]
      /\ main'.pc = "rules" /\ main'.todo = main.todo \ {t}
      /\ t \in Targets /\ t \in Pages /\ known[t].initialized /\ known[t].seen
  BY <1>1, <1>2, <1>3, CachePolicyAssumption DEF CacheInv, MainTodo, SeenFirst
<1> DEFINE new == Command("main", d, t)
<1>5. /\ new \in Commands /\ new.who = "main" /\ new.target = t /\ new.does = d
      /\ d \in {"rules", "no_rules"} /\ (d = "rules" <=> blocked)
  BY <1>4, CommandKinds DEF Command, OfTarget, Threads
<1>6. /\ wire' \in Seq(Commands) /\ reply' \in [Threads -> {"none", "waiting", "ok", "error"}]
      /\ reply'["main"] \in {"waiting", "error"} /\ reply'["init"] = reply["init"]
      /\ In(wire') \subseteq In(wire) \cup {new} /\ In(wire) \subseteq In(wire')
      /\ reply'["main"] = "waiting" => new \in In(wire')
      /\ reply'["main"] = "error" => wire' = wire
  BY <1>1, <1>5, AskFacts DEF CacheInv, Threads
<1>7. /\ \A c \in In(wire) : c.who # "main"
      /\ \A m \in In(inbox) : m.who # "main"
  BY <1>2, NotWaiting DEF Threads
<1>8. Sound' => Sound
  BY <1>2, <1>4 DEF Sound, Open, Watching, InUse
<1>9. \A c \in In(wire') : c \in In(wire) \/ (c = new /\ reply'["main"] = "waiting")
  BY <1>6
<1>10. CacheTyped'
  BY <1>2, <1>4, <1>6 DEF CacheInv, CacheTyped
<1>11. Conn' /\ LockHeld' /\ InitAt' /\ MainTodo'
  BY <1>2, <1>4, <1>5, <1>9 DEF CacheInv, Conn, LockHeld, InitAt, MainTodo
<1>12. Asked'
  BY <1>2, <1>4, <1>5, <1>6, <1>7, <1>9, Whose DEF CacheInv, Asked, MainAsks
<1>13. InitAsked' /\ MainAsked'
  BY <1>2, <1>4, <1>5, <1>9 DEF CacheInv, InitAsked, MainAsked
<1>14. SeenFirst' /\ DetachedGone'
  BY <1>2, <1>4, <1>5, <1>9 DEF CacheInv, SeenFirst, DetachedGone
<1>15. RunningTold' /\ Attached'
  BY <1>2, <1>4, <1>8 DEF CacheInv, RunningTold, Told, Attached, NoneTold, Watching, InUse
<1>16. CacheOff' /\ Bare'
  BY <1>2, <1>4, <1>5, <1>6, <1>8, <1>9 DEF CacheInv, CacheOff, Bare, Off, Gone, InUse
<1>17. RuleCommands'
  BY <1>2, <1>4, <1>5, <1>6, <1>7, <1>8, <1>9 DEF CacheInv, RuleCommands, Gone
<1>18. RulesByInit'
  BY <1>2, <1>6, <1>8 DEF CacheInv, RulesByInit, Gone
<1>19. RulesKept'
  <2> SUFFICES ASSUME Sound', NEW u \in Pages, known[u].initialized, ~Gone(u)
               PROVE  \/ u \in rules <=> blocked
                      \/ u \in main'.todo \/ RulePending(u)'
    BY <1>2, <1>4 DEF RulesKept, Gone
  <2>1. (u \in rules <=> blocked) \/ u \in main.todo
    BY <1>2, <1>7, <1>8 DEF CacheInv, RulesKept, RulePending
  <2>2. RulePending(t)'
    BY <1>5, <1>6 DEF RulePending
  <2> QED
    BY <2>1, <2>2, <1>4
<1> QED
  BY <1>10, <1>11, <1>12, <1>13, <1>14, <1>15, <1>16, <1>17, <1>18, <1>19 DEF CacheInv

\* The reply for a page, and the end of set_blocked_urls.
LEMMA RuleSetKeeps ==
    ASSUME CacheInv, RuleSet \/ RulesDone
    PROVE  CacheInv'
<1> USE DEF Goto, MainAt
<1>1. /\ UNCHANGED <<life, applied, rules, auto, held,
                     inbox, wire, known, work, init, connected, closing, blocked>>
      /\ main.pc = "rules" /\ reply["main"] # "waiting" /\ reply'["main"] = "none" /\ reply'["init"] = reply["init"]
      /\ reply' \in [Threads -> {"none", "waiting", "ok", "error"}]
  BY AskNothingFacts DEF RuleSet, RulesDone, AskNothing, MainOnly, CacheInv, CacheTyped, Threads, Replied
<1>2. \/ /\ UNCHANGED <<main, cacheErrors, lock>>
         /\ reply["main"] # "error"
      \/ /\ main' = [pc |-> "failed", todo |-> {}] /\ cacheErrors' = TRUE /\ lock' = "free"
      \/ /\ main' = [pc |-> "ready", todo |-> {}] /\ lock' = "free" /\ cacheErrors' = cacheErrors
         /\ main.todo = {} /\ reply["main"] # "error"
  BY DEF RuleSet, RulesDone
<1>3. /\ \A c \in In(wire) : c.who # "main"
      /\ \A m \in In(inbox) : m.who # "main"
  BY <1>1, NotWaiting DEF Threads
<1>4. lock = "main" /\ init.pc \notin Locked
  BY <1>1 DEF CacheInv, LockHeld
<1>5. main' \in [pc : MainPcs, todo : SUBSET Targets] /\ main'.todo \subseteq main.todo
  BY <1>2 DEF CacheInv, CacheTyped, MainPcs
<1>6. CacheTyped'
  BY <1>1, <1>2, <1>5 DEF CacheInv, CacheTyped
<1>7. Conn' /\ LockHeld' /\ InitAt' /\ MainTodo'
  BY <1>1, <1>2, <1>4 DEF CacheInv, Conn, LockHeld, InitAt, MainTodo
<1>8. Asked' /\ InitAsked' /\ MainAsked'
  BY <1>1, <1>2, <1>3, Whose DEF CacheInv, Asked, InitAsked, MainAsked
<1>9. SeenFirst' /\ DetachedGone'
  BY <1>1, <1>2 DEF CacheInv, SeenFirst, DetachedGone
<1>10. Sound' => Sound /\ reply["main"] # "error" /\ main'.pc \in {"rules", "ready"}
  BY <1>1, <1>2 DEF Sound, Open, Watching, Starting, InUse
<1>11. RunningTold' /\ Attached'
  BY <1>1, <1>10 DEF CacheInv, RunningTold, Told, Attached, NoneTold, Watching, InUse
<1>12. CacheOff' /\ Bare'
  BY <1>1, <1>10 DEF CacheInv, CacheOff, Bare, Off, Gone, InUse
<1>13. RuleCommands'
  BY <1>1, <1>3, <1>4, <1>10 DEF CacheInv, RuleCommands, Gone, Locked, Ending
<1>14. RulesByInit'
  BY <1>1, <1>10 DEF CacheInv, RulesByInit, Gone
<1>15. RulesKept'
  <2>1. Sound' => \A t \in Pages : ~RulePending(t)
    BY <1>3, <1>10 DEF RulePending
  <2>2. Sound' => \A t \in Pages : known[t].initialized /\ ~Gone(t) => (t \in rules <=> blocked) \/ t \in main.todo
    BY <1>10, <2>1 DEF CacheInv, RulesKept
  <2>3. Sound' => main' = main \/ main.todo = {}
    BY <1>2 DEF Sound
  <2> QED
    BY <1>1, <2>2, <2>3 DEF RulesKept, Gone
<1> QED
  BY <1>6, <1>7, <1>8, <1>9, <1>11, <1>12, <1>13, <1>14, <1>15 DEF CacheInv

\* The connection ends, by the browser or by close: the sessions end with it.
LEMMA CutKeeps ==
    ASSUME CacheInv, CloseSocket \/ Lose
    PROVE  CacheInv'
<1>1. /\ wire' = <<>> /\ inbox' = <<>> /\ In(wire') = {} /\ In(inbox') = {}
      /\ UNCHANGED <<known, blocked, lock, work, init>> /\ connected' = FALSE
      /\ life' = Running(Targets) /\ held' = LetGo(Pages) /\ applied' = {} /\ rules' = {} /\ auto' = FALSE
  BY DEF CloseSocket, Lose, EndSessions, In
<1>2. \/ /\ main' = [pc |-> "closed", todo |-> {}] /\ closing' = TRUE /\ cacheErrors' = cacheErrors
         /\ main.pc = "close_socket"
      \/ UNCHANGED <<main, closing>> /\ cacheErrors' = TRUE
  BY DEF CloseSocket, Lose, Goto, MainAt
<1>3. /\ reply' \in [Threads -> {"none", "waiting", "ok", "error"}]
      /\ reply["init"] = "none" => reply'["init"] = "none"
      /\ main' = main /\ reply["main"] = "none" => reply'["main"] = "none"
      /\ main' # main => reply'["main"] = "none"
  BY <1>2 DEF CloseSocket, Lose, CacheInv, CacheTyped, Threads, Goto, MainAt
<1>4. /\ life' \in [Targets -> {"none", "paused", "running", "gone"}]
      /\ held' \in [Pages -> {"none", "held", "answered"}]
      /\ \A t \in Targets : Gone(t) => life'[t] = "gone"
  BY <1>1 DEF CacheInv, CacheTyped, Running, LetGo, Gone
<1>5. ~Sound'
  BY <1>2 DEF Sound, Open, Watching, Starting, InUse
<1>6. main' \in [pc : MainPcs, todo : SUBSET Targets]
  BY <1>2 DEF CacheInv, CacheTyped, MainPcs
<1>7. CacheTyped'
  <2>1. CacheTyped /\ wire' \in Seq(Commands) /\ inbox' \in Seq(Messages)
    BY <1>1 DEF CacheInv
  <2>2. cacheErrors' \in BOOLEAN /\ closing' \in BOOLEAN
    BY <1>2, <2>1 DEF CacheTyped
  <2> QED
    BY <1>1, <1>3, <1>4, <1>6, <2>1, <2>2 DEF CacheTyped
<1>8. Conn' /\ LockHeld' /\ InitAt' /\ MainTodo'
  BY <1>1, <1>2 DEF CacheInv, Conn, LockHeld, InitAt, MainTodo
<1>9. Asked' /\ InitAsked' /\ MainAsked'
  BY <1>1, <1>2, <1>3 DEF CacheInv, Asked, InitAsked, MainAsked
<1>10. SeenFirst' /\ DetachedGone'
  BY <1>1, <1>2, <1>4 DEF CacheInv, SeenFirst, DetachedGone, Gone
<1>11. RunningTold' /\ Attached' /\ CacheOff' /\ Bare' /\ RuleCommands' /\ RulesByInit' /\ RulesKept'
  <2>1. Sound' => main'.pc \in Watching \/ main'.pc = "start_attached" \/ main'.pc = "start"
    BY DEF Sound, Open
  <2>2. main'.pc \in Open /\ ~cacheErrors' => FALSE
    BY <1>5 DEF Sound
  <2> QED
    BY <1>5 DEF RunningTold, Attached, CacheOff, Bare, RuleCommands, RulesByInit, RulesKept
<1> QED
  BY <1>7, <1>8, <1>9, <1>10, <1>11 DEF CacheInv

\* A message behind the others that is no report of a target.
LEMMA AfterReplyAppend ==
    ASSUME NEW s \in Seq(Messages), NEW x \in Messages, AfterReply(s), x.tells # "running"
    PROVE  AfterReply(Append(s, x))
<1>1. /\ DOMAIN Append(s, x) = 1 .. Len(s) + 1 /\ Len(s) \in Nat /\ DOMAIN s = 1 .. Len(s)
      /\ \A i \in 1 .. Len(s) : Append(s, x)[i] = s[i]
      /\ Append(s, x)[Len(s) + 1] = x
  OBVIOUS
<1> SUFFICES ASSUME NEW i \in 1 .. Len(s) + 1, Append(s, x)[i].who = "main" /\ Append(s, x)[i].ok,
                    NEW j \in 1 .. Len(s) + 1, j > i
             PROVE  Append(s, x)[j].tells # "running"
  BY <1>1 DEF AfterReply
<1>2. CASE j = Len(s) + 1
  BY <1>1, <1>2
<1>3. CASE j # Len(s) + 1
  <2>1. i \in 1 .. Len(s) /\ j \in 1 .. Len(s)
    BY <1>1, <1>3
  <2> QED
    BY <1>1, <2>1 DEF AfterReply
<1> QED
  BY <1>2, <1>3

\* What the browser does of itself: targets come and go, requests are stopped.
LEMMA BrowserKeeps ==
    ASSUME CacheInv, NEW t \in Targets, Create(t) \/ Destroy(t) \/ (t \in Pages /\ Hold(t))
    PROVE  CacheInv'
<1>1. UNCHANGED <<applied, rules, auto, wire, faults, stateVars, reply, main, init>>
  BY DEF Create, Destroy, Hold, BrowserOnly
<1>2. \/ inbox' = inbox
      \/ \E x \in Events : inbox' = Append(inbox, x) /\ x.tells # "running" /\ x.who = "nobody"
                           /\ (x.tells = "detached" => life'[x.target] = "gone")
  <2>1. /\ Event("paused", t) \in Events /\ Event("paused", t).tells = "paused"
        /\ Event("detached", t) \in Events /\ Event("detached", t).tells = "detached"
        /\ Event("held", t) \in Events /\ Event("held", t).tells = "held"
        /\ \A e \in {"paused", "detached", "held"} : Event(e, t).target = t /\ Event(e, t).who = "nobody"
    BY DEF Event, Events
  <2>2. CASE Create(t)
    BY <2>1, <2>2 DEF Create
  <2>3. CASE Destroy(t)
    <3>1. life'[t] = "gone"
      BY <2>3 DEF Destroy, CacheInv, CacheTyped
    <3> QED
      BY <2>1, <2>3, <3>1 DEF Destroy
  <2>4. CASE Hold(t)
    BY <2>1, <2>4 DEF Hold
  <2> QED
    BY <2>2, <2>3, <2>4
<1>3. /\ life' \in [Targets -> {"none", "paused", "running", "gone"}]
      /\ held' \in [Pages -> {"none", "held", "answered"}]
  BY DEF Create, Destroy, Hold, CacheInv, CacheTyped
<1>4. /\ \A u \in Targets : Gone(u) => life'[u] = "gone"
      /\ auto => \A u \in Targets : life'[u] = "running" => life[u] = "running"
  BY DEF Create, Destroy, Hold, CacheInv, CacheTyped, Gone
<1>5. /\ inbox' \in Seq(Messages) /\ In(inbox) \subseteq In(inbox')
      /\ \A m \in In(inbox') \ In(inbox) : m.tells # "running" /\ m.who = "nobody"
                                           /\ (m.tells = "detached" => life'[m.target] = "gone")
      /\ AfterReply(inbox) => AfterReply(inbox')
  <2>1. CASE inbox' = inbox
    BY <2>1 DEF CacheInv, CacheTyped
  <2>2. ASSUME NEW x \in Events, inbox' = Append(inbox, x), x.tells # "running", x.who = "nobody",
               x.tells = "detached" => life'[x.target] = "gone"
        PROVE  <1>5!1 /\ <1>5!2 /\ <1>5!3
    <3>1. inbox \in Seq(Messages) /\ x \in Messages
      BY DEF CacheInv, CacheTyped, Messages
    <3>2. inbox' \in Seq(Messages) /\ In(inbox') = In(inbox) \cup {x}
      BY <2>2, <3>1, InAppend
    <3>3. AfterReply(inbox) => AfterReply(inbox')
      BY <2>2, <3>1, AfterReplyAppend
    <3> QED
      BY <2>2, <3>2, <3>3
  <2> QED
    BY <1>2, <2>1, <2>2
<1>6. Sound' <=> Sound
  BY <1>1 DEF Sound
<1>7. CacheTyped'
  BY <1>1, <1>3, <1>5 DEF CacheInv, CacheTyped
<1>8. Conn' /\ LockHeld' /\ InitAt' /\ MainTodo' /\ InitAsked' /\ MainAsked' /\ SeenFirst'
  BY <1>1 DEF CacheInv, Conn, LockHeld, InitAt, MainTodo, InitAsked, MainAsked, SeenFirst
<1>9. Asked'
  BY <1>1, <1>5 DEF CacheInv, Asked
<1>10. DetachedGone'
  BY <1>1, <1>3, <1>4, <1>5, CachePolicyAssumption, Fields DEF CacheInv, DetachedGone, Gone
<1>11. RunningTold'
  BY <1>1, <1>4, <1>5, <1>6 DEF CacheInv, RunningTold, Told
<1>12. Attached'
  <2>1. Sound /\ main.pc = "start_attached" => AfterReply(inbox) /\ \A m \in In(inbox) : m.who = "main" /\ m.ok => auto
    BY DEF CacheInv, Attached
  <2>2. NoneTold => NoneTold'
    BY <1>5 DEF NoneTold
  <2>3. Sound' /\ main'.pc = "start_attached" => AfterReply(inbox') /\ \A m \in In(inbox') : m.who = "main" /\ m.ok => auto'
    BY <1>1, <1>5, <1>6, <2>1
  <2>4. /\ Sound' /\ main'.pc = "start_attached" /\ reply'["main"] = "ok" => auto' /\ NoneTold'
        /\ Sound' /\ main'.pc \in Watching => auto' /\ NoneTold'
    BY <1>1, <1>6, <2>2 DEF CacheInv, Attached
  <2> QED
    BY <2>3, <2>4 DEF Attached
<1>13. CacheOff'
  BY <1>1, <1>4, <1>5, <1>6, Fields DEF CacheInv, CacheOff, Off, Gone, OfTarget
<1>14. Bare'
  <2>1. Sound /\ main.pc \in InUse => auto
    BY DEF CacheInv, Attached, Watching
  <2> QED
    BY <1>1, <1>4, <1>6, <2>1 DEF CacheInv, Bare
<1>15. RuleCommands'
  BY <1>1, <1>4, <1>6, Fields DEF CacheInv, RuleCommands, SeenFirst, Gone, OfTarget
<1>16. RulesByInit'
  <2>1. rules \subseteq Targets
    BY CachePolicyAssumption DEF CacheInv, CacheTyped
  <2> QED
    BY <1>1, <1>4, <1>5, <1>6, <2>1, CachePolicyAssumption DEF CacheInv, RulesByInit, Gone
<1>17. RulesKept'
  BY <1>1, <1>4, <1>5, <1>6, CachePolicyAssumption DEF CacheInv, RulesKept, Gone, RulePending
<1> QED
  BY <1>7, <1>8, <1>9, <1>10, <1>11, <1>12, <1>13, <1>14, <1>15, <1>16, <1>17 DEF CacheInv

\* The reply to the main thread behind all reports.
LEMMA AfterReplyLast ==
    ASSUME NEW s \in Seq(Messages), NEW x \in Messages, \A m \in In(s) : ~(m.who = "main" /\ m.ok)
    PROVE  AfterReply(Append(s, x))
<1>1. /\ DOMAIN Append(s, x) = 1 .. Len(s) + 1 /\ Len(s) \in Nat /\ DOMAIN s = 1 .. Len(s)
      /\ \A i \in 1 .. Len(s) : Append(s, x)[i] = s[i]
  OBVIOUS
<1> SUFFICES ASSUME NEW i \in 1 .. Len(s) + 1, Append(s, x)[i].who = "main" /\ Append(s, x)[i].ok,
                    NEW j \in 1 .. Len(s) + 1, j > i
             PROVE  FALSE
  BY <1>1 DEF AfterReply
<1>2. i \in 1 .. Len(s)
  BY <1>1
<1> QED
  BY <1>1, <1>2 DEF In

Answer(c, good) == [tells |-> "reply", target |-> c.target, who |-> c.who, ok |-> good]

\* The command that is served, and the answer it gets.
LEMMA ServeFacts ==
    ASSUME CacheInv, Serve
    PROVE  /\ Head(wire) \in In(wire) /\ Head(wire) \in Commands
           /\ wire' \in Seq(Commands) /\ In(wire') \subseteq In(wire) /\ In(wire) \subseteq In(wire') \cup {Head(wire)}
           /\ UNCHANGED <<known, blocked, cacheErrors, connected, closing, lock, work, reply, main, init>>
           /\ \/ /\ inbox' = Append(inbox, Answer(Head(wire), FALSE)) /\ UNCHANGED <<life, applied, rules, auto, held>>
              \/ /\ Head(wire).does = "auto_off" /\ EndSessions
                 /\ inbox' = inbox \o Reported(Head(wire)) \o <<Answer(Head(wire), TRUE)>>
              \/ /\ Head(wire).does # "auto_off" /\ Effect(Head(wire))
                 /\ inbox' = inbox \o Reported(Head(wire)) \o <<Answer(Head(wire), TRUE)>>
                 /\ Head(wire).target # NoTarget => ~Gone(Head(wire).target)
           /\ \A good \in BOOLEAN :
                 /\ Answer(Head(wire), good) \in Messages /\ Answer(Head(wire), good).tells = "reply"
                 /\ Answer(Head(wire), good).who = Head(wire).who /\ Answer(Head(wire), good).ok = good
                 /\ Answer(Head(wire), good).target = Head(wire).target
<1>1. wire \in Seq(Commands) /\ wire # <<>> /\ wire' = Tail(wire)
  BY DEF Serve, CacheInv, CacheTyped
<1>2. /\ Head(wire) \in In(wire) /\ Head(wire) \in Commands
      /\ wire' \in Seq(Commands) /\ In(wire') \subseteq In(wire) /\ In(wire) \subseteq In(wire') \cup {Head(wire)}
  BY <1>1, InHead
<1>3. UNCHANGED <<known, blocked, cacheErrors, connected, closing, lock, work, reply, main, init>>
  BY DEF Serve, BrowserOnly
<1>4. Head(wire).who \in Senders /\ Head(wire).target \in Targets \cup {NoTarget}
  BY <1>2, Fields DEF CacheInv
<1>5. ASSUME NEW good \in BOOLEAN
      PROVE /\ Answer(Head(wire), good) \in Messages /\ Answer(Head(wire), good).tells = "reply"
            /\ Answer(Head(wire), good).who = Head(wire).who /\ Answer(Head(wire), good).ok = good
            /\ Answer(Head(wire), good).target = Head(wire).target
  BY <1>4 DEF Answer, Messages, Replies
<1> QED
  BY <1>2, <1>3, <1>5 DEF Serve, Answer, Gone

\* A message behind the inbox.
LEMMA InboxAppended ==
    ASSUME CacheTyped, NEW x \in Messages, inbox' = Append(inbox, x)
    PROVE  inbox' \in Seq(Messages) /\ In(inbox') = In(inbox) \cup {x}
<1>1. inbox \in Seq(Messages)
  BY DEF CacheTyped
<1>2. Append(inbox, x) \in Seq(Messages) /\ In(Append(inbox, x)) = In(inbox) \cup {x}
  BY <1>1, InAppend
<1> QED
  BY <1>2

\* A command the browser refuses.
LEMMA RefusedKeeps ==
    ASSUME CacheInv, Serve, NEW c, c = Head(wire), NEW x, x = Answer(Head(wire), FALSE),
           inbox' = Append(inbox, x), UNCHANGED <<life, applied, rules, auto, held>>
    PROVE  CacheInv'
<1>1. /\ c \in In(wire) /\ wire' \in Seq(Commands) /\ In(wire') \subseteq In(wire) /\ In(wire) \subseteq In(wire') \cup {c}
      /\ UNCHANGED <<known, blocked, cacheErrors, connected, closing, lock, work, reply, main, init>>
      /\ UNCHANGED <<life, applied, rules, auto, held>>
      /\ x \in Messages /\ x.tells = "reply" /\ x.who = c.who /\ ~x.ok
  BY ServeFacts
<1>2. inbox' \in Seq(Messages) /\ In(inbox') = In(inbox) \cup {x}
  <2>1. CacheTyped /\ x \in Messages
    BY <1>1 DEF CacheInv
  <2> QED
    BY <2>1, InboxAppended
<1>3. Sound' <=> Sound
  BY <1>1 DEF Sound
<1>4. CacheTyped'
  BY <1>1, <1>2 DEF CacheInv, CacheTyped
<1>5. Conn' /\ LockHeld' /\ InitAt' /\ MainTodo' /\ InitAsked' /\ MainAsked' /\ SeenFirst'
  BY <1>1 DEF CacheInv, Conn, LockHeld, InitAt, MainTodo, InitAsked, MainAsked, SeenFirst
<1>6. Asked' /\ DetachedGone' /\ RunningTold'
  <2>1. Asked'
    BY <1>1, <1>2 DEF CacheInv, Asked
  <2>2. DetachedGone'
    BY <1>1, <1>2 DEF CacheInv, DetachedGone
  <2>3. RunningTold'
    <3>1. ASSUME NEW t, Told(t) PROVE Told(t)'
      BY <1>2, <3>1 DEF Told
    <3> QED
      BY <1>1, <1>3, <3>1 DEF CacheInv, RunningTold
  <2> QED
    BY <2>1, <2>2, <2>3
<1>7. Attached'
  <2>1. AfterReply(inbox) => AfterReply(inbox')
    BY <1>1, AfterReplyAppend DEF CacheInv, CacheTyped
  <2> QED
    <3>1. NoneTold => NoneTold'
      BY <1>1, <1>2 DEF NoneTold
    <3>2. Sound /\ main.pc = "start_attached" => \A m \in In(inbox') : m.who = "main" /\ m.ok => auto
      BY <1>1, <1>2 DEF CacheInv, Attached
    <3>3. /\ Sound /\ main.pc = "start_attached" /\ reply["main"] = "ok" => auto /\ NoneTold
          /\ Sound /\ main.pc \in Watching => auto /\ NoneTold
          /\ Sound /\ main.pc = "start_attached" => AfterReply(inbox)
      BY DEF CacheInv, Attached
    <3>4. main' = main /\ reply' = reply /\ auto' = auto
      BY <1>1
    <3>5. Sound' /\ main'.pc = "start_attached" => AfterReply(inbox')
      BY <1>3, <2>1, <3>3, <3>4
    <3>6. Sound' /\ main'.pc = "start_attached" => \A m \in In(inbox') : m.who = "main" /\ m.ok => auto'
      <4>1. main'.pc = main.pc /\ (auto => auto')
        BY <3>4
      <4> QED
        BY <1>3, <3>2, <4>1
    <3>7. /\ Sound' /\ main'.pc = "start_attached" /\ reply'["main"] = "ok" => auto' /\ NoneTold'
          /\ Sound' /\ main'.pc \in Watching => auto' /\ NoneTold'
      BY <1>3, <3>1, <3>3, <3>4
    <3> QED
      BY <3>5, <3>6, <3>7 DEF Attached
<1>8. CacheOff' /\ Bare'
  BY <1>1, <1>2, <1>3 DEF CacheInv, CacheOff, Off, Gone, Bare
<1>9. RuleCommands' /\ RulesByInit'
  BY <1>1, <1>2, <1>3 DEF CacheInv, RuleCommands, RulesByInit, Gone
<1>10. RulesKept'
  <2>1. ASSUME NEW t, RulePending(t) PROVE RulePending(t)'
    BY <1>1, <1>2, <2>1 DEF RulePending
  <2> QED
    BY <1>1, <1>3, <2>1 DEF CacheInv, RulesKept, Gone
<1> QED
  BY <1>4, <1>5, <1>6, <1>7, <1>8, <1>9, <1>10 DEF CacheInv

\* The command of close that switches automatic attachment off.
LEMMA AutoOffKeeps ==
    ASSUME CacheInv, Serve, NEW c, c = Head(wire), NEW x, x = Answer(Head(wire), TRUE),
           c.does = "auto_off", EndSessions, inbox' = inbox \o Reported(c) \o <<x>>
    PROVE  CacheInv'
<1>1. /\ c \in In(wire) /\ c \in Commands /\ wire' \in Seq(Commands) /\ In(wire') \subseteq In(wire)
      /\ UNCHANGED <<known, blocked, cacheErrors, connected, closing, lock, work, reply, main, init>>
      /\ x \in Messages /\ x.tells = "reply" /\ x.who = c.who
  BY ServeFacts
<1>2. Reported(c) = <<>>
  BY DEF Reported
<1>3. inbox \in Seq(Messages)
  BY DEF CacheInv, CacheTyped
<1>4. inbox' = Append(inbox, x)
  <2>1. inbox \o <<>> = inbox
    BY <1>3
  <2>2. inbox \o <<x>> = Append(inbox, x)
    BY <1>1, <1>3, ConcatOne
  <2> QED
    BY <1>2, <2>1, <2>2
<1>5. inbox' \in Seq(Messages) /\ In(inbox') = In(inbox) \cup {x}
  <2>1. CacheTyped /\ x \in Messages
    BY <1>1 DEF CacheInv
  <2> QED
    BY <1>4, <2>1, InboxAppended
<1>6. main.pc \in {"close_socket", "closed"}
  BY <1>1 DEF CacheInv, Conn
<1>7. ~Sound' /\ main'.pc \notin Watching
  BY <1>1, <1>6 DEF Sound, Open, Watching, Starting, InUse
<1>8. /\ life' \in [Targets -> {"none", "paused", "running", "gone"}]
      /\ held' \in [Pages -> {"none", "held", "answered"}] /\ applied' = {} /\ rules' = {} /\ auto' = FALSE
      /\ \A t \in Targets : Gone(t) => life'[t] = "gone"
  BY DEF EndSessions, Running, LetGo, CacheInv, CacheTyped, Gone
<1>9. CacheTyped'
  BY <1>1, <1>5, <1>8 DEF CacheInv, CacheTyped
<1>10. Conn' /\ LockHeld' /\ InitAt' /\ MainTodo' /\ InitAsked' /\ MainAsked' /\ SeenFirst'
  BY <1>1 DEF CacheInv, Conn, LockHeld, InitAt, MainTodo, InitAsked, MainAsked, SeenFirst
<1>11. Asked'
  BY <1>1, <1>5 DEF CacheInv, Asked
<1>12. DetachedGone'
  BY <1>1, <1>5, <1>8, Fields DEF CacheInv, DetachedGone, Gone
<1>13. RunningTold' /\ Attached' /\ CacheOff' /\ Bare' /\ RuleCommands' /\ RulesByInit' /\ RulesKept'
  BY <1>7 DEF RunningTold, Attached, CacheOff, Bare, RuleCommands, RulesByInit, RulesKept
<1> QED
  BY <1>9, <1>10, <1>11, <1>12, <1>13 DEF CacheInv

\* Reports and then a reply behind the inbox.
LEMMA InboxExtended ==
    ASSUME CacheTyped, NEW r \in Seq(Events), NEW x \in Messages
    PROVE  /\ inbox \in Seq(Messages) /\ inbox \o r \in Seq(Messages)
           /\ In(inbox \o r) = In(inbox) \cup In(r)
           /\ inbox \o r \o <<x>> = Append(inbox \o r, x)
           /\ inbox \o r \o <<x>> \in Seq(Messages)
           /\ In(inbox \o r \o <<x>>) = In(inbox) \cup In(r) \cup {x}
<1>1. inbox \in Seq(Messages)
  BY DEF CacheTyped
<1>2. r \in Seq(Messages)
  BY DEF Messages
<1>3. inbox \o r \in Seq(Messages) /\ In(inbox \o r) = In(inbox) \cup In(r)
  BY <1>1, <1>2, InConcat
<1>4. inbox \o r \o <<x>> = Append(inbox \o r, x)
  BY <1>1, <1>2, InExtended
<1>5. inbox \o r \o <<x>> \in Seq(Messages) /\ In(inbox \o r \o <<x>>) = In(inbox) \cup In(r) \cup {x}
  BY <1>1, <1>2, InExtended
<1> QED
  BY <1>1, <1>3, <1>4, <1>5

\* A command the browser carries out: what it does, what it reports, and then its reply.
LEMMA ServedKeeps ==
    ASSUME CacheInv, Serve, NEW c, c = Head(wire), NEW x, x = Answer(Head(wire), TRUE),
           c.does # "auto_off", Effect(c), inbox' = inbox \o Reported(c) \o <<x>>,
           c.target # NoTarget => ~Gone(c.target)
    PROVE  CacheInv'
<1>1. /\ c \in In(wire) /\ c \in Commands
      /\ wire' \in Seq(Commands) /\ In(wire') \subseteq In(wire) /\ In(wire) \subseteq In(wire') \cup {c}
      /\ UNCHANGED <<known, blocked, cacheErrors, connected, closing, lock, work, reply, main, init>>
  BY ServeFacts
<1>2. x \in Messages /\ x.tells = "reply" /\ x.who = c.who /\ x.ok /\ x.target = c.target
  BY ServeFacts
<1>3. /\ c.who \in {"main", "init", "nobody"}
      /\ c.who # "nobody" => reply[c.who] = "waiting"
      /\ c.does \in OfTarget => c.target \in Targets /\ ~Gone(c.target)
      /\ c.does \in {"policy", "policy_run", "run", "rules", "no_rules"} => known[c.target].seen
      /\ c.does \in {"rules", "no_rules"} => c.target \in Pages
  BY <1>1, Whose, Fields, CachePolicyAssumption DEF CacheInv, Asked, SeenFirst
<1>4. /\ Reported(c) \in Seq(Events)
      /\ \A m \in In(Reported(c)) : m \in Events /\ m.tells = "running" /\ m.who = "nobody" /\ c.does = "auto_on" /\ ~auto
      /\ c.does = "auto_on" /\ ~auto =>
            \A t \in Targets : life[t] = "running" =>
               \E m \in In(Reported(c)) : m.tells = "running" /\ m.target = t
  <2>1. Reported(c) \in Seq(Events)
    BY <1>1, ReportedFacts DEF CacheInv
  <2>2. \A m \in In(Reported(c)) : m \in Events
    BY <2>1 DEF In
  <2>3. \A m \in Events : m.who = "nobody"
    BY DEF Events
  <2> QED
    BY <1>1, <2>1, <2>2, <2>3, ReportedFacts DEF CacheInv
<1>5. /\ inbox \in Seq(Messages) /\ inbox \o Reported(c) \in Seq(Messages)
      /\ In(inbox \o Reported(c)) = In(inbox) \cup In(Reported(c))
      /\ inbox' = Append(inbox \o Reported(c), x) /\ inbox' \in Seq(Messages)
      /\ In(inbox') = In(inbox) \cup In(Reported(c)) \cup {x}
  <2>1. x \in Messages /\ Reported(c) \in Seq(Events)
    BY <1>2, <1>4
  <2> QED
    BY <2>1, InboxExtended DEF CacheInv
<1>6. /\ life' \in [Targets -> {"none", "paused", "running", "gone"}]
      /\ held' \in [Pages -> {"none", "held", "answered"}]
      /\ \A t \in Targets : life'[t] = "gone" <=> life[t] = "gone"
      /\ \A t \in Targets : life'[t] = "running" =>
            life[t] = "running" \/ (t = c.target /\ c.does \in {"run", "policy_run"})
  BY DEF Effect, Running, LetGo, CacheInv, CacheTyped
<1>7. /\ applied \subseteq applied'
      /\ c.does \in {"policy", "policy_run"} => c.target \in applied'
      /\ rules \subseteq rules' \/ c.does = "no_rules"
      /\ rules' \subseteq rules \/ c.does = "rules"
      /\ c.does = "rules" => rules' = rules \cup {c.target}
      /\ c.does = "no_rules" => rules' = rules \ {c.target}
      /\ c.does = "auto_on" => auto'
      /\ auto => auto'
      /\ auto' => auto \/ c.does = "auto_on"
      /\ auto' \in BOOLEAN
  BY DEF Effect, CacheInv, CacheTyped
<1>8. applied' \subseteq Targets /\ rules' \subseteq Pages
  BY <1>3 DEF Effect, CacheInv, CacheTyped, OfTarget
<1>9. Sound' <=> Sound
  BY <1>1 DEF Sound
<1>10. CacheTyped'
  BY <1>1, <1>5, <1>6, <1>7, <1>8 DEF CacheInv, CacheTyped
<1>11. Conn' /\ LockHeld' /\ InitAt' /\ MainTodo' /\ InitAsked' /\ MainAsked' /\ SeenFirst'
  BY <1>1 DEF CacheInv, Conn, LockHeld, InitAt, MainTodo, InitAsked, MainAsked, SeenFirst
<1>12. Asked'
  <2>1. \A m \in In(inbox') : m.who # "nobody" => reply[m.who] = "waiting"
    <3>1. \A m \in In(inbox) : m.who # "nobody" => reply[m.who] = "waiting"
      BY DEF CacheInv, Asked
    <3>2. x.who # "nobody" => reply[x.who] = "waiting"
      BY <1>2, <1>3
    <3>3. \A m \in In(Reported(c)) : m.who = "nobody"
      BY <1>4
    <3>4. In(inbox') = In(inbox) \cup In(Reported(c)) \cup {x}
      BY <1>5
    <3> QED
      BY <3>1, <3>2, <3>3, <3>4
  <2> QED
    BY <1>1, <2>1 DEF CacheInv, Asked
<1>13. DetachedGone'
  <2>1. \A t \in Targets : known'[t].detached => life'[t] = "gone"
    BY <1>1, <1>6 DEF CacheInv, DetachedGone
  <2>2. ASSUME NEW m \in In(inbox), m.tells = "detached" PROVE life'[m.target] = "gone"
    <3>1. life[m.target] = "gone" /\ m.target \in Targets
      BY <2>2, Fields DEF CacheInv, DetachedGone
    <3> QED
      BY <1>6, <3>1
  <2>3. \A m \in In(Reported(c)) : m.tells # "detached"
    BY <1>4
  <2>4. x.tells # "detached"
    BY <1>2
  <2> QED
    BY <1>5, <2>1, <2>2, <2>3, <2>4 DEF DetachedGone
<1>14. RunningTold'
  <2> SUFFICES ASSUME Sound, auto', NEW t \in Targets, life'[t] = "running", ~known[t].seen
               PROVE  Told(t)'
    BY <1>1, <1>9 DEF RunningTold
  <2>1. life[t] = "running"
    BY <1>3, <1>6
  <2>2. CASE auto
    <3>1. Told(t)
      BY <2>1, <2>2 DEF CacheInv, RunningTold
    <3> QED
      BY <1>5, <3>1 DEF Told
  <2>3. CASE ~auto
    <3>1. c.does = "auto_on"
      BY <1>7, <2>3
    <3>2. PICK m \in In(Reported(c)) : m.tells = "running" /\ m.target = t
      BY <1>4, <2>1, <2>3, <3>1
    <3>3. m \in In(inbox')
      BY <1>5
    <3> QED
      BY <3>2, <3>3 DEF Told
  <2> QED
    BY <2>2, <2>3
<1>15. Attached'
  <2>1. auto => In(inbox') = In(inbox) \cup {x}
    BY <1>4, <1>5
  <2>2. Sound /\ main.pc = "start_attached" => AfterReply(inbox')
    <3> SUFFICES ASSUME Sound, main.pc = "start_attached" PROVE AfterReply(inbox')
      OBVIOUS
    <3>1. CASE auto \/ c.does # "auto_on"
      <4>1. Reported(c) = <<>>
        BY <3>1 DEF Reported
      <4>2. inbox \o Reported(c) = inbox
        BY <1>5, <4>1
      <4>3. AfterReply(inbox)
        BY DEF CacheInv, Attached
      <4>4. AfterReply(Append(inbox, x))
        BY <1>2, <1>5, <4>3, AfterReplyAppend
      <4> QED
        BY <1>5, <4>2, <4>4
    <3>2. CASE ~auto
      <4>1. \A m \in In(inbox) : ~(m.who = "main" /\ m.ok)
        BY <3>2 DEF CacheInv, Attached
      <4>2. \A m \in In(inbox \o Reported(c)) : ~(m.who = "main" /\ m.ok)
        BY <1>4, <1>5, <4>1
      <4>3. AfterReply(Append(inbox \o Reported(c), x))
        BY <1>2, <1>5, <4>2, AfterReplyLast
      <4> QED
        BY <1>5, <4>3
    <3> QED
      BY <3>1, <3>2
  <2>3. Sound /\ main.pc = "start_attached" => \A m \in In(inbox') : m.who = "main" /\ m.ok => auto'
    <3>1. Sound /\ main.pc = "start_attached" => \A m \in In(inbox) : m.who = "main" /\ m.ok => auto
      BY DEF CacheInv, Attached
    <3>2. main.pc = "start_attached" /\ x.who = "main" => auto'
      BY <1>1, <1>2, <1>7 DEF CacheInv, MainAsked
    <3>3. \A m \in In(Reported(c)) : m.who # "main"
      BY <1>4
    <3> QED
      BY <1>5, <1>7, <3>1, <3>2, <3>3
  <2>4. auto /\ NoneTold => auto' /\ NoneTold'
    BY <1>2, <1>7, <2>1 DEF NoneTold
  <2>5. /\ Sound /\ main.pc = "start_attached" /\ reply["main"] = "ok" => auto' /\ NoneTold'
        /\ Sound /\ main.pc \in Watching => auto' /\ NoneTold'
    BY <2>4 DEF CacheInv, Attached
  <2>6. main'.pc = main.pc /\ reply'["main"] = reply["main"]
    BY <1>1
  <2>7. Sound' /\ main'.pc = "start_attached" => AfterReply(inbox')
    BY <1>9, <2>2, <2>6
  <2>8. Sound' /\ main'.pc = "start_attached" => \A m \in In(inbox') : m.who = "main" /\ m.ok => auto'
    BY <1>9, <2>3, <2>6
  <2>9. /\ Sound' /\ main'.pc = "start_attached" /\ reply'["main"] = "ok" => auto' /\ NoneTold'
        /\ Sound' /\ main'.pc \in Watching => auto' /\ NoneTold'
    BY <1>9, <2>5, <2>6
  <2> QED
    BY <2>7, <2>8, <2>9 DEF Attached


<1>16. CacheOff'
  <2> SUFFICES ASSUME Sound PROVE CacheOff'
    BY <1>9 DEF CacheOff
  <2>1. \A t \in Targets : Off(t) => Off(t)'
    BY <1>6, <1>7 DEF Off, Gone
  <2>2. x.who = "init" /\ init.pc \in {"policy", "policy_run"} => init.target \in applied'
    BY <1>1, <1>2, <1>7 DEF CacheInv, InitAsked
  <2>3. \A m \in In(inbox') : m.who = "init" /\ m.ok /\ init.pc \in {"policy", "policy_run"} => init.target \in applied'
    <3>1. \A m \in In(inbox) : m.who = "init" /\ m.ok /\ init.pc \in {"policy", "policy_run"} => init.target \in applied
      BY DEF CacheInv, CacheOff
    <3>2. \A m \in In(Reported(c)) : m.who # "init"
      BY <1>4
    <3> QED
      BY <1>5, <1>7, <2>2, <3>1, <3>2
  <2>4. \A d \in In(wire') : d.does = "run" =>
           Off(d.target)' \/ (init.target = d.target /\ init.pc \in {"released", "record"} /\ init.failed)
    <3>1. \A d \in In(wire) : d.does = "run" => d.target \in Targets
      BY Fields DEF CacheInv, OfTarget
    <3> QED
      BY <1>1, <2>1, <3>1 DEF CacheInv, CacheOff
  <2> QED
    BY <1>1, <1>7, <2>3, <2>4 DEF CacheInv, CacheOff
<1>17. Bare'
  <2> SUFFICES ASSUME Sound, main.pc \in InUse, NEW t \in Targets, life'[t] = "running", t \notin applied'
               PROVE  init.target = t
    BY <1>1, <1>9 DEF Bare
  <2>1. t \notin applied
    BY <1>7
  <2>2. CASE life[t] = "running"
    BY <2>1, <2>2 DEF CacheInv, Bare
  <2>3. CASE life[t] # "running"
    <3>1. t = c.target /\ c.does = "run"
      BY <1>6, <1>7, <2>3
    <3>2. ~Off(t)
      BY <1>3, <2>1, <3>1 DEF Off, OfTarget
    <3> QED
      BY <1>1, <3>1, <3>2 DEF CacheInv, CacheOff
  <2> QED
    BY <2>2, <2>3
<1>18. RuleCommands'
  <2>1. \A d \in In(wire') : d \in In(wire) /\ (d.does \in {"rules", "no_rules"} => d.target \in Targets)
    BY <1>1, Fields DEF CacheInv, OfTarget
  <2> QED
    BY <1>1, <1>6, <1>9, <2>1 DEF CacheInv, RuleCommands, Gone
<1>19. init.pc \in Locked => main.pc # "rules"
  BY DEF CacheInv, LockHeld
<1>20. Sound /\ c.does = "rules" =>
          \/ init.target = c.target /\ (init.pc = "rules" \/ (init.pc \in Ending /\ init.failed))
          \/ main.pc = "rules" /\ blocked /\ known[c.target].initialized
  BY <1>1, <1>3 DEF CacheInv, RuleCommands, OfTarget
<1>21. Sound /\ c.does = "no_rules" => main.pc = "rules" /\ ~blocked /\ known[c.target].initialized
  BY <1>1, <1>3 DEF CacheInv, RuleCommands, OfTarget
<1>22. \A t \in Pages : Gone(t)' <=> Gone(t)
  BY <1>6, CachePolicyAssumption DEF Gone
<1>23. RulesByInit'
  <2> SUFFICES ASSUME Sound PROVE RulesByInit'
    BY <1>9 DEF RulesByInit
  <2>1. \A t \in rules' : known[t].initialized \/ Gone(t)' \/ (init.target = t /\ init.pc \in {"rules"} \cup Ending)
    <3>1. \A t \in rules : known[t].initialized \/ Gone(t)' \/ (init.target = t /\ init.pc \in {"rules"} \cup Ending)
      BY <1>22 DEF CacheInv, RulesByInit, CacheTyped
    <3>2. c.does = "rules" =>
             known[c.target].initialized \/ (init.target = c.target /\ init.pc \in {"rules"} \cup Ending)
      BY <1>20
    <3> QED
      BY <1>7, <3>1, <3>2
  <2>2. init.pc = "rules" =>
          /\ reply["init"] = "ok" => init.target \in rules'
          /\ \A m \in In(inbox') : m.who = "init" /\ m.ok => init.target \in rules'
    <3> SUFFICES ASSUME init.pc = "rules" PROVE <2>2!2
      OBVIOUS
    <3>1. rules \subseteq rules'
      BY <1>7, <1>19, <1>21 DEF Locked
    <3>2. x.who = "init" => init.target \in rules'
      BY <1>1, <1>2, <1>7 DEF CacheInv, InitAsked
    <3>3. /\ reply["init"] = "ok" => init.target \in rules
          /\ \A m \in In(inbox) : m.who = "init" /\ m.ok => init.target \in rules
      BY DEF CacheInv, RulesByInit
    <3>4. \A m \in In(Reported(c)) : m.who # "init"
      BY <1>4
    <3> QED
      BY <1>5, <3>1, <3>2, <3>3, <3>4
  <2>3. init.pc \in Ending /\ ~init.failed /\ init.target \in Pages =>
          Gone(init.target)' \/ (init.target \in rules' <=> blocked)
    <3> SUFFICES ASSUME init.pc \in Ending, ~init.failed, init.target \in Pages
                 PROVE  Gone(init.target)' \/ (init.target \in rules' <=> blocked)
      OBVIOUS
    <3>1. main.pc # "rules"
      BY <1>19 DEF Ending, Locked
    <3>2. rules' = rules
      BY <1>7, <1>20, <1>21, <3>1 DEF Ending
    <3>3. Gone(init.target) \/ (init.target \in rules <=> blocked)
      BY DEF CacheInv, RulesByInit
    <3>4. Gone(init.target) => Gone(init.target)'
      BY <1>1, <1>22 DEF Gone
    <3> QED
      BY <3>2, <3>3, <3>4
  <2> QED
    BY <1>1, <2>1, <2>2, <2>3 DEF RulesByInit
<1>24. RulesKept'
  <2> SUFFICES ASSUME Sound, NEW t \in Pages, known[t].initialized, ~Gone(t)
               PROVE  \/ t \in rules' <=> blocked
                      \/ main.pc = "rules" /\ (t \in main.todo \/ RulePending(t)')
    BY <1>1, <1>9, <1>22 DEF RulesKept
  <2>1. t \in Targets /\ init.target # t
    BY CachePolicyAssumption DEF CacheInv, SeenFirst
  <2>2. CASE c.does \in {"rules", "no_rules"} /\ c.target = t
    BY <1>7, <1>20, <1>21, <2>1, <2>2
  <2>3. CASE ~(c.does \in {"rules", "no_rules"} /\ c.target = t)
    <3>1. t \in rules' <=> t \in rules
      BY <1>7, <2>3
    <3>2. main.pc = "rules" /\ RulePending(t) => RulePending(t)'
      <4> SUFFICES ASSUME main.pc = "rules", RulePending(t) PROVE RulePending(t)'
        OBVIOUS
      <4>1. CASE reply["main"] = "error"
        BY <1>1, <4>1 DEF RulePending
      <4>2. CASE \E d \in In(wire) : d.who = "main" /\ d.target = t
        <5>1. PICK d \in In(wire) : d.who = "main" /\ d.target = t
          BY <4>2
        <5>2. d # c
          BY <2>3, <5>1 DEF CacheInv, MainAsked
        <5>3. d \in In(wire')
          BY <1>1, <5>1, <5>2
        <5> QED
          BY <5>1, <5>3 DEF RulePending
      <4>3. CASE \E m \in In(inbox) : m.who = "main" /\ ~m.ok
        BY <1>5, <4>3 DEF RulePending
      <4> QED
        BY <4>1, <4>2, <4>3 DEF RulePending
    <3> QED
      BY <3>1, <3>2 DEF CacheInv, RulesKept
  <2> QED
    BY <2>2, <2>3
<1> QED
  BY <1>10, <1>11, <1>12, <1>13, <1>14, <1>15, <1>16, <1>17, <1>18, <1>23, <1>24 DEF CacheInv

\* A request that is given up is nobody's any more; all else is as it was.
Dropped(s, w) == [i \in DOMAIN s |-> IF s[i].who = w THEN [s[i] EXCEPT !.who = "nobody"] ELSE s[i]]

\* The commands of a thread that gave up are nobody's.
LEMMA DroppedCommands ==
    ASSUME NEW s \in Seq(Commands), NEW w \in Threads
    PROVE  /\ Dropped(s, w) \in Seq(Commands)
           /\ \A d \in In(Dropped(s, w)) : \E c \in In(s) :
                 d.does = c.does /\ d.target = c.target /\ d.who # w
                 /\ (c.who # w => d.who = c.who) /\ (c.who = w => d.who = "nobody")
           /\ \A c \in In(s) : c.who # w => c \in In(Dropped(s, w))
<1>1. Len(s) \in Nat /\ DOMAIN s = 1 .. Len(s) /\ \A i \in 1 .. Len(s) : s[i] \in Commands
  OBVIOUS
<1>2. \A c \in Commands :
         /\ [c EXCEPT !.who = "nobody"] \in Commands
         /\ [c EXCEPT !.who = "nobody"].who = "nobody"
         /\ [c EXCEPT !.who = "nobody"].does = c.does /\ [c EXCEPT !.who = "nobody"].target = c.target
  BY DEF Commands, Senders
<1>3. Dropped(s, w) \in [1 .. Len(s) -> Commands]
  BY <1>1, <1>2 DEF Dropped
<1>4. Dropped(s, w) \in Seq(Commands)
  BY <1>1, <1>3, SeqDef
<1>5. w # "nobody"
  BY DEF Threads
<1>6. ASSUME NEW d \in In(Dropped(s, w))
      PROVE  \E c \in In(s) : d.does = c.does /\ d.target = c.target /\ d.who # w
                 /\ (c.who # w => d.who = c.who) /\ (c.who = w => d.who = "nobody")
  <2>1. PICK i \in 1 .. Len(s) : d = Dropped(s, w)[i]
    BY <1>3 DEF In
  <2>2. s[i] \in In(s) /\ s[i] \in Commands
    BY <1>1 DEF In
  <2>3. d = IF s[i].who = w THEN [s[i] EXCEPT !.who = "nobody"] ELSE s[i]
    BY <1>1, <2>1 DEF Dropped
  <2> QED
    BY <1>2, <1>5, <2>2, <2>3
<1>7. ASSUME NEW c \in In(s), c.who # w PROVE c \in In(Dropped(s, w))
  <2>1. PICK i \in 1 .. Len(s) : c = s[i]
    BY <1>1 DEF In
  <2>2. Dropped(s, w)[i] = c
    BY <1>1, <1>7, <2>1 DEF Dropped
  <2> QED
    BY <1>3, <2>2 DEF In
<1> QED
  BY <1>4, <1>6, <1>7

\* The messages to a thread that gave up are nobody's.
LEMMA DroppedMessages ==
    ASSUME NEW s \in Seq(Messages), NEW w \in Threads
    PROVE  /\ Dropped(s, w) \in Seq(Messages)
           /\ \A n \in In(Dropped(s, w)) : \E m \in In(s) :
                 n.tells = m.tells /\ n.target = m.target /\ n.ok = m.ok /\ n.who # w
                 /\ (m.who # w => n.who = m.who) /\ (m.who = w => n.who = "nobody")
           /\ \A m \in In(s) : m.who # w => m \in In(Dropped(s, w))
           /\ AfterReply(s) => AfterReply(Dropped(s, w))
<1>1. Len(s) \in Nat /\ DOMAIN s = 1 .. Len(s) /\ \A i \in 1 .. Len(s) : s[i] \in Messages
  OBVIOUS
<1>2. \A m \in Messages :
         /\ [m EXCEPT !.who = "nobody"] \in Messages
         /\ [m EXCEPT !.who = "nobody"].who = "nobody" /\ [m EXCEPT !.who = "nobody"].ok = m.ok
         /\ [m EXCEPT !.who = "nobody"].tells = m.tells /\ [m EXCEPT !.who = "nobody"].target = m.target
  BY DEF Messages, Events, Replies, Senders
<1>3. Dropped(s, w) \in [1 .. Len(s) -> Messages]
  BY <1>1, <1>2 DEF Dropped
<1>4. Dropped(s, w) \in Seq(Messages)
  BY <1>1, <1>3, SeqDef
<1>5. w # "nobody"
  BY DEF Threads
<1>6. ASSUME NEW i \in 1 .. Len(s)
      PROVE  /\ Dropped(s, w)[i].tells = s[i].tells /\ Dropped(s, w)[i].target = s[i].target
             /\ Dropped(s, w)[i].ok = s[i].ok /\ Dropped(s, w)[i].who # w
             /\ (s[i].who # w => Dropped(s, w)[i] = s[i]) /\ (s[i].who = w => Dropped(s, w)[i].who = "nobody")
  <2>1. Dropped(s, w)[i] = IF s[i].who = w THEN [s[i] EXCEPT !.who = "nobody"] ELSE s[i]
    BY <1>1 DEF Dropped
  <2> QED
    BY <1>1, <1>2, <1>5, <2>1
<1>7. ASSUME NEW n \in In(Dropped(s, w))
      PROVE  \E m \in In(s) : n.tells = m.tells /\ n.target = m.target /\ n.ok = m.ok /\ n.who # w
                 /\ (m.who # w => n.who = m.who) /\ (m.who = w => n.who = "nobody")
  <2>1. PICK i \in 1 .. Len(s) : n = Dropped(s, w)[i]
    BY <1>3 DEF In
  <2>2. s[i] \in In(s)
    BY <1>1 DEF In
  <2> QED
    BY <1>6, <2>1, <2>2
<1>8. ASSUME NEW m \in In(s), m.who # w PROVE m \in In(Dropped(s, w))
  <2>1. PICK i \in 1 .. Len(s) : m = s[i]
    BY <1>1 DEF In
  <2>2. Dropped(s, w)[i] = m
    BY <1>6, <1>8, <2>1
  <2> QED
    BY <1>3, <2>2 DEF In
<1>9. ASSUME AfterReply(s) PROVE AfterReply(Dropped(s, w))
  <2> SUFFICES ASSUME NEW i \in 1 .. Len(s), Dropped(s, w)[i].who = "main", Dropped(s, w)[i].ok,
                      NEW j \in 1 .. Len(s), j > i
               PROVE  Dropped(s, w)[j].tells # "running"
    BY <1>3 DEF AfterReply
  <2>1. s[i].who = "main" /\ s[i].ok
    BY <1>6
  <2>2. s[j].tells # "running"
    BY <1>1, <1>9, <2>1 DEF AfterReply
  <2> QED
    BY <1>6, <2>2
<1> QED
  BY <1>4, <1>7, <1>8, <1>9

\* A thread that gives up its request keeps the invariant: an initializer that gives up
\* has failed, and its command may still be carried out.
LEMMA TimeoutKeeps ==
    ASSUME CacheInv, NEW w \in Threads, Timeout(w)
    PROVE  CacheInv'
<1>1. /\ UNCHANGED <<life, applied, rules, auto, held,
                     known, blocked, cacheErrors, connected, closing, lock, work, main, init>>
      /\ reply[w] = "waiting" /\ wire' = Dropped(wire, w) /\ inbox' = Dropped(inbox, w)
      /\ reply' = [reply EXCEPT ![w] = "error"]
  BY DEF Timeout, Dropped
<1>2. /\ reply' \in [Threads -> {"none", "waiting", "ok", "error"}]
      /\ reply'[w] = "error" /\ \A v \in Threads \ {w} : reply'[v] = reply[v]
  BY <1>1 DEF CacheInv, CacheTyped
<1>3. wire \in Seq(Commands) /\ inbox \in Seq(Messages)
  BY DEF CacheInv, CacheTyped
<1>4. /\ wire' \in Seq(Commands)
      /\ \A d \in In(wire') : \E c \in In(wire) :
            d.does = c.does /\ d.target = c.target /\ d.who # w
            /\ (c.who # w => d.who = c.who) /\ (c.who = w => d.who = "nobody")
      /\ \A c \in In(wire) : c.who # w => c \in In(wire')
  BY <1>1, <1>3, DroppedCommands
<1>5. /\ inbox' \in Seq(Messages)
      /\ \A n \in In(inbox') : \E m \in In(inbox) :
            n.tells = m.tells /\ n.target = m.target /\ n.ok = m.ok /\ n.who # w
            /\ (m.who # w => n.who = m.who) /\ (m.who = w => n.who = "nobody")
      /\ \A m \in In(inbox) : m.who # w => m \in In(inbox')
      /\ AfterReply(inbox) => AfterReply(inbox')
  BY <1>1, <1>3, DroppedMessages
<1>6. /\ w = "main" \/ w = "init"
      /\ w = "main" => main.pc \in MainAsks /\ reply'["init"] = reply["init"]
      /\ w = "init" => init.pc \in Asking /\ reply'["main"] = reply["main"]
  BY <1>1, <1>2 DEF CacheInv, Asked, Threads
<1>7. Sound' <=> Sound
  BY <1>1 DEF Sound
<1>8. CacheTyped'
  BY <1>1, <1>2, <1>4, <1>5 DEF CacheInv, CacheTyped
<1>9. LockHeld' /\ InitAt' /\ MainTodo'
  BY <1>1 DEF CacheInv, LockHeld, InitAt, MainTodo
<1>10. Conn'
  BY <1>1, <1>4 DEF CacheInv, Conn
<1>11. Asked'
  <2>1. \A c \in In(wire') : c.who # "nobody" => reply'[c.who] = "waiting"
    <3> SUFFICES ASSUME NEW d \in In(wire'), d.who # "nobody" PROVE reply'[d.who] = "waiting"
      OBVIOUS
    <3>1. PICK c \in In(wire) : d.who # w /\ d.who = c.who
      BY <1>4
    <3>2. c.who \in Threads \ {w}
      BY <3>1, Whose DEF Threads
    <3> QED
      BY <1>2, <3>1, <3>2 DEF CacheInv, Asked
  <2>2. \A m \in In(inbox') : m.who # "nobody" => reply'[m.who] = "waiting"
    <3> SUFFICES ASSUME NEW n \in In(inbox'), n.who # "nobody" PROVE reply'[n.who] = "waiting"
      OBVIOUS
    <3>1. PICK m \in In(inbox) : n.who # w /\ n.who = m.who
      BY <1>5
    <3>2. m.who \in Threads \ {w}
      BY <3>1, Whose DEF Threads
    <3> QED
      BY <1>2, <3>1, <3>2 DEF CacheInv, Asked
  <2>3. /\ main.pc \notin MainAsks => reply'["main"] = "none"
        /\ init.pc \notin Asking => reply'["init"] = "none"
    BY <1>6 DEF CacheInv, Asked
  <2> QED
    BY <1>1, <2>1, <2>2, <2>3 DEF Asked
<1>12. InitAsked' /\ MainAsked'
  <2>1. \A d \in In(wire') : d.who # "nobody" =>
           \E c \in In(wire) : d.does = c.does /\ d.target = c.target /\ d.who = c.who
    BY <1>4
  <2>2. InitAsked'
    BY <1>1, <2>1 DEF CacheInv, InitAsked
  <2>3. MainAsked'
    BY <1>1, <2>1 DEF CacheInv, MainAsked
  <2> QED
    BY <2>2, <2>3
<1>13. SeenFirst'
  BY <1>1, <1>4 DEF CacheInv, SeenFirst
<1>14. DetachedGone'
  BY <1>1, <1>5 DEF CacheInv, DetachedGone
<1>15. RunningTold'
  <2>1. \A m \in In(inbox) : m.tells = "running" => m \in In(inbox')
    BY <1>5, <1>6, Fields DEF CacheInv
  <2>2. ASSUME NEW t, Told(t) PROVE Told(t)'
    BY <2>1, <2>2 DEF Told
  <2> QED
    BY <1>1, <1>7, <2>2 DEF CacheInv, RunningTold
<1>16. Attached'
  <2>1. Sound /\ main.pc = "start_attached" => AfterReply(inbox')
    BY <1>5 DEF CacheInv, Attached
  <2>2. Sound /\ main.pc = "start_attached" => \A m \in In(inbox') : m.who = "main" /\ m.ok => auto
    <3> SUFFICES ASSUME Sound, main.pc = "start_attached", NEW n \in In(inbox'), n.who = "main", n.ok
                 PROVE  auto
      OBVIOUS
    <3>1. PICK m \in In(inbox) : m.who = "main" /\ m.ok
      BY <1>5
    <3> QED
      BY <3>1 DEF CacheInv, Attached
  <2>3. reply'["main"] = "ok" => reply["main"] = "ok"
    BY <1>2, <1>6
  <2>4. NoneTold => NoneTold'
    BY <1>5 DEF NoneTold
  <2>5. /\ Sound /\ main.pc = "start_attached" /\ reply'["main"] = "ok" => auto /\ NoneTold'
        /\ Sound /\ main.pc \in Watching => auto /\ NoneTold'
    BY <2>3, <2>4 DEF CacheInv, Attached
  <2>6. main'.pc = main.pc /\ auto' = auto
    BY <1>1
  <2>7. Sound' /\ main'.pc = "start_attached" => \A m \in In(inbox') : m.who = "main" /\ m.ok => auto'
    BY <1>7, <2>2, <2>6
  <2>8. /\ Sound' /\ main'.pc = "start_attached" => AfterReply(inbox')
        /\ Sound' /\ main'.pc = "start_attached" /\ reply'["main"] = "ok" => auto' /\ NoneTold'
        /\ Sound' /\ main'.pc \in Watching => auto' /\ NoneTold'
    BY <1>7, <2>1, <2>5, <2>6
  <2> QED
    BY <2>7, <2>8 DEF Attached
<1>17. CacheOff'
  <2> SUFFICES ASSUME Sound PROVE CacheOff'
    BY <1>7 DEF CacheOff
  <2>1. \A n \in In(inbox') : n.who = "init" /\ n.ok /\ init.pc \in {"policy", "policy_run"} => init.target \in applied
    <3> SUFFICES ASSUME NEW n \in In(inbox'), n.who = "init", n.ok, init.pc \in {"policy", "policy_run"}
                 PROVE  init.target \in applied
      OBVIOUS
    <3>1. PICK m \in In(inbox) : m.who = "init" /\ m.ok
      BY <1>5
    <3> QED
      BY <3>1 DEF CacheInv, CacheOff
  <2>2. reply'["init"] = "ok" => reply["init"] = "ok"
    BY <1>2, <1>6
  <2>3. \A d \in In(wire') : d.does = "run" =>
           Off(d.target) \/ (init.target = d.target /\ init.pc \in {"released", "record"} /\ init.failed)
    BY <1>4 DEF CacheInv, CacheOff
  <2> QED
    BY <1>1, <2>1, <2>2, <2>3 DEF CacheInv, CacheOff, Off, Gone
<1>18. Bare'
  BY <1>1, <1>7 DEF CacheInv, Bare
<1>19. RuleCommands'
  <2> SUFFICES ASSUME Sound, NEW d \in In(wire')
      PROVE /\ d.does = "rules" =>
                 \/ Gone(d.target)
                 \/ init.target = d.target /\ init.pc = "rules" /\ (d.who = "init" \/ reply'["init"] = "error")
                 \/ init.target = d.target /\ init.pc \in Ending /\ init.failed
                 \/ main.pc = "rules" /\ blocked /\ known[d.target].initialized /\ (d.who = "main" \/ reply'["main"] = "error")
            /\ d.does = "no_rules" =>
                 \/ Gone(d.target)
                 \/ main.pc = "rules" /\ ~blocked /\ known[d.target].initialized /\ (d.who = "main" \/ reply'["main"] = "error")
    BY <1>1, <1>7 DEF RuleCommands, Gone
  <2>1. PICK c \in In(wire) : d.does = c.does /\ d.target = c.target /\ (c.who # w => d.who = c.who)
    BY <1>4
  <2>2. /\ c.who = "init" => d.who = "init" \/ reply'["init"] = "error"
        /\ c.who = "main" => d.who = "main" \/ reply'["main"] = "error"
        /\ reply["init"] = "error" => reply'["init"] = "error"
        /\ reply["main"] = "error" => reply'["main"] = "error"
    BY <1>2, <1>6, <2>1
  <2> QED
    BY <2>1, <2>2 DEF CacheInv, RuleCommands
<1>20. RulesByInit'
  <2> SUFFICES ASSUME Sound PROVE RulesByInit'
    BY <1>7 DEF RulesByInit
  <2>1. init.pc = "rules" => \A n \in In(inbox') : n.who = "init" /\ n.ok => init.target \in rules
    <3> SUFFICES ASSUME NEW n \in In(inbox'), n.who = "init", n.ok, init.pc = "rules"
                 PROVE  init.target \in rules
      OBVIOUS
    <3>1. PICK m \in In(inbox) : m.who = "init" /\ m.ok
      BY <1>5
    <3> QED
      BY <3>1 DEF CacheInv, RulesByInit
  <2>2. reply'["init"] = "ok" => reply["init"] = "ok"
    BY <1>2, <1>6
  <2> QED
    BY <1>1, <2>1, <2>2 DEF CacheInv, RulesByInit, Gone
<1>21. RulesKept'
  <2>1. ASSUME NEW t, RulePending(t) PROVE RulePending(t)'
    <3>1. CASE w = "main"
      BY <1>2, <3>1 DEF RulePending
    <3>2. CASE w = "init"
      BY <1>4, <1>5, <1>6, <2>1, <3>2 DEF RulePending
    <3> QED
      BY <1>6, <3>1, <3>2
  <2> QED
    BY <1>1, <1>7, <2>1 DEF CacheInv, RulesKept, Gone
<1> QED
  BY <1>8, <1>9, <1>10, <1>11, <1>12, <1>13, <1>14, <1>15, <1>16, <1>17, <1>18, <1>19, <1>20, <1>21 DEF CacheInv

\* A thread waits for one reply at a time: one command or one message is its own.
Single(s) == \A i, j \in DOMAIN s : s[i].who = s[j].who /\ s[i].who # "nobody" => i = j
Once ==
    /\ Single(wire) /\ Single(inbox)
    /\ \A c \in In(wire), m \in In(inbox) : c.who # "nobody" => c.who # m.who

\* A message of a thread that has none.
LEMMA SingleAppend ==
    ASSUME NEW T, NEW s \in Seq(T), NEW x \in T, Single(s), x.who # "nobody" => \A c \in In(s) : c.who # x.who
    PROVE  Single(Append(s, x))
<1>1. /\ DOMAIN Append(s, x) = 1 .. Len(s) + 1 /\ Len(s) \in Nat /\ DOMAIN s = 1 .. Len(s)
      /\ \A i \in 1 .. Len(s) : Append(s, x)[i] = s[i]
      /\ Append(s, x)[Len(s) + 1] = x
  OBVIOUS
<1> SUFFICES ASSUME NEW i \in 1 .. Len(s) + 1, NEW j \in 1 .. Len(s) + 1,
                    Append(s, x)[i].who = Append(s, x)[j].who, Append(s, x)[i].who # "nobody"
             PROVE  i = j
  BY <1>1 DEF Single
<1>2. \A k \in 1 .. Len(s) : s[k] \in In(s)
  BY <1>1 DEF In
<1>3. CASE i \in 1 .. Len(s) /\ j \in 1 .. Len(s)
  BY <1>1, <1>3 DEF Single
<1>4. CASE i = Len(s) + 1 /\ j \in 1 .. Len(s)
  BY <1>1, <1>2, <1>4
<1>5. CASE j = Len(s) + 1 /\ i \in 1 .. Len(s)
  BY <1>1, <1>2, <1>5
<1> QED
  BY <1>1, <1>3, <1>4, <1>5

\* The first message is the only one of its thread.
LEMMA SingleTail ==
    ASSUME NEW T, NEW s \in Seq(T), s # <<>>, Single(s)
    PROVE  /\ Single(Tail(s))
           /\ Head(s).who # "nobody" => \A c \in In(Tail(s)) : c.who # Head(s).who
<1>1. /\ Len(s) \in Nat \ {0} /\ DOMAIN s = 1 .. Len(s) /\ Head(s) = s[1]
      /\ DOMAIN Tail(s) = 1 .. Len(s) - 1 /\ \A i \in 1 .. Len(s) - 1 : Tail(s)[i] = s[i + 1]
  OBVIOUS
<1>2. ASSUME NEW i \in 1 .. Len(s) - 1, NEW j \in 1 .. Len(s) - 1,
             Tail(s)[i].who = Tail(s)[j].who, Tail(s)[i].who # "nobody"
      PROVE  i = j
  <2>1. i + 1 \in 1 .. Len(s) /\ j + 1 \in 1 .. Len(s)
    BY <1>1
  <2>2. i + 1 = j + 1
    BY <1>1, <1>2, <2>1 DEF Single
  <2> QED
    BY <2>2
<1>3. ASSUME Head(s).who # "nobody", NEW i \in 1 .. Len(s) - 1 PROVE Tail(s)[i].who # Head(s).who
  <2>1. i + 1 \in 1 .. Len(s) /\ 1 \in 1 .. Len(s) /\ i + 1 # 1
    BY <1>1
  <2> QED
    BY <1>1, <1>3, <2>1 DEF Single
<1> QED
  BY <1>1, <1>2, <1>3 DEF Single, In

\* Messages of nobody behind the others.
LEMMA SingleConcat ==
    ASSUME NEW T, NEW s \in Seq(T), NEW u \in Seq(T), Single(s), \A m \in In(u) : m.who = "nobody"
    PROVE  Single(s \o u)
<1>1. /\ Len(s) \in Nat /\ Len(u) \in Nat /\ DOMAIN (s \o u) = 1 .. Len(s) + Len(u)
      /\ DOMAIN s = 1 .. Len(s) /\ DOMAIN u = 1 .. Len(u)
      /\ \A i \in 1 .. Len(s) : (s \o u)[i] = s[i]
      /\ \A i \in 1 .. Len(u) : (s \o u)[Len(s) + i] = u[i]
  OBVIOUS
<1>2. ASSUME NEW i \in 1 .. Len(s) + Len(u), (s \o u)[i].who # "nobody" PROVE i \in 1 .. Len(s)
  <2> SUFFICES ASSUME i > Len(s) PROVE FALSE
    BY <1>1
  <2>1. i - Len(s) \in 1 .. Len(u) /\ Len(s) + (i - Len(s)) = i
    BY <1>1
  <2>2. (s \o u)[i] = u[i - Len(s)] /\ u[i - Len(s)] \in In(u)
    BY <1>1, <2>1 DEF In
  <2> QED
    BY <1>2, <2>2
<1> SUFFICES ASSUME NEW i \in 1 .. Len(s) + Len(u), NEW j \in 1 .. Len(s) + Len(u),
                    (s \o u)[i].who = (s \o u)[j].who, (s \o u)[i].who # "nobody"
             PROVE  i = j
  BY <1>1 DEF Single
<1>3. i \in 1 .. Len(s) /\ j \in 1 .. Len(s)
  BY <1>2
<1> QED
  BY <1>1, <1>3 DEF Single

\* A thread that gave up has none.
LEMMA SingleDropped ==
    ASSUME NEW s, Single(s), NEW w \in Threads, \A i \in DOMAIN s : [s[i] EXCEPT !.who = "nobody"].who = "nobody"
    PROVE  Single(Dropped(s, w))
<1>1. DOMAIN Dropped(s, w) = DOMAIN s
  BY DEF Dropped
<1>2. \A i \in DOMAIN s : Dropped(s, w)[i].who # "nobody" => Dropped(s, w)[i] = s[i]
  BY DEF Dropped
<1> QED
  BY <1>1, <1>2 DEF Single

\* A thread that sends a command waits for nothing.
LEMMA AskOnce ==
    ASSUME CacheInv, Once, NEW w \in Threads, reply[w] # "waiting", NEW d, NEW t, Ask(w, d, t), inbox' = inbox
    PROVE  Once'
<1>1. CASE ~connected
  BY <1>1 DEF Ask, Once
<1>2. CASE connected
  <2> DEFINE x == Command(w, d, t)
             U == Commands \cup {x}
  <2>1. wire' = Append(wire, x) /\ wire \in Seq(U) /\ x \in U /\ x.who = w
    BY <1>2 DEF Ask, Command, CacheInv, CacheTyped
  <2>2. (\A c \in In(wire) : c.who # w) /\ (\A m \in In(inbox) : m.who # w)
    BY NotWaiting
  <2> HIDE DEF x, U
  <2>3. Single(Append(wire, x)) /\ In(Append(wire, x)) = In(wire) \cup {x}
    BY <2>1, <2>2, SingleAppend, InAppend DEF Once
  <2> QED
    BY <2>1, <2>2, <2>3 DEF Once
<1> QED
  BY <1>1, <1>2

\* The steps of the main thread.
LEMMA MainOnce ==
    ASSUME CacheInv, Once, Main \/ GiveUp
    PROVE  Once'
<1>1. CASE OtherMain
  <2>1. inbox' = inbox /\ reply["main"] # "waiting" /\ "main" \in Threads
    BY <1>1, OtherFrame DEF Alone, Threads
  <2>2. wire' = wire \/ \E d, t : Ask("main", d, t)
    BY <1>1 DEF OtherMain, StartAttach, StartList, StartListed, StartWait, CheckAsk, CheckWait, CoveragePasses,
                CoverageRaises, GiveUp, Close, CloseRun, AskNothing
  <2> QED
    BY <2>1, <2>2, AskOnce DEF Once
<1>2. CASE SetRules \/ RuleSet \/ RulesDone
  BY <1>2 DEF SetRules, RuleSet, RulesDone, MainOnly, AskNothing, Once
<1>3. CASE SetRule
  <2>1. inbox' = inbox /\ reply["main"] # "waiting" /\ "main" \in Threads /\ \E d, t : Ask("main", d, t)
    BY <1>3 DEF SetRule, MainOnly, Threads
  <2> QED
    BY <2>1, AskOnce
<1>4. CASE CloseSocket
  BY <1>4 DEF CloseSocket, Once, Single, In
<1> QED
  BY <1>1, <1>2, <1>3, <1>4 DEF Main, OtherMain

\* The initializer does not go on while it waits.
LEMMA InitializerWaits ==
    ASSUME CacheInv, Initializer
    PROVE  reply["init"] # "waiting"
<1>1. init.pc \notin Asking => reply["init"] = "none"
  BY DEF CacheInv, Asked
<1> QED
  BY <1>1 DEF Initializer, TakeTarget, BeginTarget, Configured, RulesSet, WorkerConfigured, Release, Released,
              Record, TakeRequest, Answered, Replied, Asking

\* The steps of the initializer.
LEMMA InitializerOnce ==
    ASSUME CacheInv, Once, Initializer
    PROVE  Once'
<1>1. inbox' = inbox /\ "init" \in Threads
  BY DEF Initializer, TakeTarget, BeginTarget, Configured, RulesSet, WorkerConfigured, Release, Released,
              Record, TakeRequest, Answered, InitOnly, Threads
<1>2. wire' = wire \/ \E d, t : Ask("init", d, t)
  BY DEF Initializer, TakeTarget, BeginTarget, Configured, RulesSet, WorkerConfigured, Release, Released,
              Record, TakeRequest, Answered, AskNothing
<1> QED
  BY <1>1, <1>2, InitializerWaits, AskOnce DEF Once

\* The steps of the browser and the receiver.
LEMMA OthersOnce ==
    ASSUME CacheInv, Once,
           \/ \E t \in Targets : Create(t) \/ Destroy(t)
           \/ \E t \in Pages : Hold(t)
           \/ Serve \/ Lose \/ Receive \/ \E w \in Threads : Timeout(w)
    PROVE  Once'
<1>1. wire \in Seq(Commands) /\ inbox \in Seq(Messages)
  BY DEF CacheInv, CacheTyped
<1>2. ASSUME NEW t \in Targets, Create(t) \/ Destroy(t) \/ Hold(t) PROVE Once'
  <2>1. /\ Event("paused", t) \in Messages /\ Event("detached", t) \in Messages /\ Event("held", t) \in Messages
        /\ \A e : Event(e, t).who = "nobody"
    BY DEF Event, Messages, Events
  <2>2. wire' = wire /\ (inbox' = inbox \/ \E x \in Messages : x.who = "nobody" /\ inbox' = Append(inbox, x))
    BY <1>2, <2>1 DEF Create, Destroy, Hold
  <2>3. ASSUME NEW x \in Messages, x.who = "nobody", inbox' = Append(inbox, x) PROVE Once'
    <3>1. Single(Append(inbox, x)) /\ In(Append(inbox, x)) = In(inbox) \cup {x}
      BY <1>1, <2>3, SingleAppend, InAppend DEF Once
    <3> QED
      BY <2>2, <2>3, <3>1 DEF Once
  <2> QED
    BY <2>2, <2>3 DEF Once
<1>3. ASSUME NEW w \in Threads, Timeout(w) PROVE Once'
  <2>1. wire' = Dropped(wire, w) /\ inbox' = Dropped(inbox, w)
    BY <1>3 DEF Timeout, Dropped
  <2>2. /\ \A c \in Commands : [c EXCEPT !.who = "nobody"].who = "nobody"
        /\ \A m \in Messages : [m EXCEPT !.who = "nobody"].who = "nobody"
    BY DEF Commands, Messages, Events, Replies
  <2>3. Single(wire') /\ Single(inbox')
    BY <1>1, <2>1, <2>2, SingleDropped DEF Once
  <2>4. ASSUME NEW d \in In(wire'), NEW n \in In(inbox'), d.who # "nobody" PROVE d.who # n.who
    <3>1. PICK c \in In(wire) : (c.who # w => d.who = c.who) /\ (c.who = w => d.who = "nobody")
      <4>1. d \in In(Dropped(wire, w))
        BY <2>1
      <4> QED
        BY <1>1, <4>1, DroppedCommands
    <3>2. PICK m \in In(inbox) : (m.who # w => n.who = m.who) /\ (m.who = w => n.who = "nobody")
      <4>1. n \in In(Dropped(inbox, w))
        BY <2>1
      <4> QED
        BY <1>1, <4>1, DroppedMessages
    <3> QED
      BY <2>4, <3>1, <3>2 DEF Once
  <2> QED
    BY <2>3, <2>4 DEF Once
<1>4. CASE Lose
  BY <1>4 DEF Lose, Once, Single, In
<1>5. CASE Receive
  <2>1. inbox # <<>> /\ inbox' = Tail(inbox) /\ wire' = wire
    BY <1>5 DEF Receive
  <2>2. Single(Tail(inbox)) /\ In(Tail(inbox)) \subseteq In(inbox)
    BY <1>1, <2>1, SingleTail, InHead DEF Once
  <2> QED
    BY <2>1, <2>2 DEF Once
<1>6. CASE Serve
  <2>1. wire # <<>> /\ wire' = Tail(wire)
    BY <1>6 DEF Serve
  <2>2. /\ Single(Tail(wire)) /\ In(Tail(wire)) \subseteq In(wire) /\ Head(wire) \in In(wire) /\ Head(wire) \in Commands
        /\ Head(wire).who # "nobody" => \A c \in In(Tail(wire)) : c.who # Head(wire).who
    BY <1>1, <2>1, SingleTail, InHead DEF Once
  <2>3. ASSUME NEW s \in Seq(Messages), Single(s), NEW x \in Messages, x.who = Head(wire).who, inbox' = Append(s, x),
               \A m \in In(s) : m \in In(inbox) \/ m.who = "nobody"
        PROVE  Once'
    <3>1. x.who # "nobody" => \A m \in In(s) : m.who # x.who
      BY <2>2, <2>3 DEF Once
    <3>2. Single(Append(s, x)) /\ In(Append(s, x)) = In(s) \cup {x}
      BY <2>3, <3>1, SingleAppend, InAppend
    <3>3. ASSUME NEW c \in In(wire'), NEW m \in In(inbox'), c.who # "nobody" PROVE c.who # m.who
      BY <2>1, <2>2, <2>3, <3>2, <3>3 DEF Once
    <3> QED
      BY <2>1, <2>2, <2>3, <3>2, <3>3 DEF Once
  <2>4. Answer(Head(wire), TRUE) \in Messages /\ Answer(Head(wire), TRUE).who = Head(wire).who
    BY <1>6, ServeFacts
  <2>5. Answer(Head(wire), FALSE) \in Messages /\ Answer(Head(wire), FALSE).who = Head(wire).who
    BY <1>6, ServeFacts
  <2>6. CASE inbox' = Append(inbox, Answer(Head(wire), FALSE))
    BY <1>1, <2>3, <2>5, <2>6 DEF Once
  <2>7. CASE inbox' = inbox \o Reported(Head(wire)) \o <<Answer(Head(wire), TRUE)>>
    <3>1. /\ Reported(Head(wire)) \in Seq(Events)
          /\ \A m \in In(Reported(Head(wire))) : m.who = "nobody"
      <4>1. Reported(Head(wire)) \in Seq(Events)
        BY <2>2, ReportedFacts DEF CacheInv
      <4>2. \A m \in Events : m.who = "nobody"
        BY DEF Events
      <4> QED
        BY <4>1, <4>2 DEF In
    <3>2. \A r \in Seq(Events) : r \in Seq(Messages)
      BY DEF Messages
    <3>3. Single(inbox \o Reported(Head(wire)))
      BY <1>1, <3>1, <3>2, SingleConcat DEF Once
    <3>4. /\ inbox \o Reported(Head(wire)) \in Seq(Messages)
          /\ In(inbox \o Reported(Head(wire))) = In(inbox) \cup In(Reported(Head(wire)))
          /\ inbox' = Append(inbox \o Reported(Head(wire)), Answer(Head(wire), TRUE))
      BY <2>4, <2>7, <3>1, InboxExtended DEF CacheInv
    <3> QED
      BY <2>3, <2>4, <3>1, <3>3, <3>4
  <2> QED
    BY <1>6, <2>6, <2>7, ServeFacts
<1> QED
  BY <1>2, <1>3, <1>4, <1>5, <1>6, CachePolicyAssumption

\* The first message of the inbox is taken.
LEMMA AfterReplyTail ==
    ASSUME NEW s \in Seq(Messages), s # <<>>, AfterReply(s)
    PROVE  /\ AfterReply(Tail(s))
           /\ Head(s).who = "main" /\ Head(s).ok => \A n \in In(Tail(s)) : n.tells # "running"
<1>1. /\ Len(s) \in Nat \ {0} /\ DOMAIN s = 1 .. Len(s) /\ Head(s) = s[1]
      /\ DOMAIN Tail(s) = 1 .. Len(s) - 1 /\ \A i \in 1 .. Len(s) - 1 : Tail(s)[i] = s[i + 1]
  OBVIOUS
<1>2. ASSUME NEW i \in 1 .. Len(s) - 1, Tail(s)[i].who = "main", Tail(s)[i].ok, NEW j \in 1 .. Len(s) - 1, j > i
      PROVE  Tail(s)[j].tells # "running"
  <2>1. i + 1 \in 1 .. Len(s) /\ j + 1 \in 1 .. Len(s) /\ j + 1 > i + 1
    BY <1>1, <1>2
  <2> QED
    BY <1>1, <1>2, <2>1 DEF AfterReply
<1>3. ASSUME Head(s).who = "main", Head(s).ok, NEW j \in 1 .. Len(s) - 1 PROVE Tail(s)[j].tells # "running"
  <2>1. 1 \in 1 .. Len(s) /\ j + 1 \in 1 .. Len(s) /\ j + 1 > 1
    BY <1>1
  <2> QED
    BY <1>1, <1>3, <2>1 DEF AfterReply
<1> QED
  BY <1>1, <1>2, <1>3 DEF AfterReply, In

\* What the receiver makes of the message it takes.
LEMMA ReceiveFacts ==
    ASSUME CacheInv, Once, Receive, NEW m, m = Head(inbox)
    PROVE  /\ UNCHANGED <<life, applied, rules, auto, held,
                          wire, blocked, cacheErrors, connected, closing, lock, main, init>>
           /\ m \in In(inbox) /\ m \in Messages
           /\ inbox' \in Seq(Messages) /\ In(inbox') \subseteq In(inbox) /\ In(inbox) \subseteq In(inbox') \cup {m}
           /\ AfterReply(inbox) =>
                 /\ AfterReply(inbox')
                 /\ m.who = "main" /\ m.ok => \A n \in In(inbox') : n.tells # "running"
           /\ m.who # "nobody" => (\A c \in In(wire) : c.who # m.who) /\ (\A n \in In(inbox') : n.who # m.who)
           /\ reply' \in [Threads -> {"none", "waiting", "ok", "error"}]
           /\ \A w \in Threads : reply'[w] = IF m.who = w THEN (IF m.ok THEN "ok" ELSE "error") ELSE reply[w]
<1>1. inbox \in Seq(Messages) /\ inbox # <<>> /\ inbox' = Tail(inbox)
  BY DEF Receive, CacheInv, CacheTyped
<1>2. UNCHANGED <<life, applied, rules, auto, held,
                  wire, blocked, cacheErrors, connected, closing, lock, main, init>>
  BY DEF Receive
<1>3. /\ m \in In(inbox) /\ m \in Messages
      /\ inbox' \in Seq(Messages) /\ In(inbox') \subseteq In(inbox) /\ In(inbox) \subseteq In(inbox') \cup {m}
  BY <1>1, InHead
<1>4. AfterReply(inbox) =>
         /\ AfterReply(inbox')
         /\ m.who = "main" /\ m.ok => \A n \in In(inbox') : n.tells # "running"
  BY <1>1, AfterReplyTail
<1>5. m.who # "nobody" => (\A c \in In(wire) : c.who # m.who) /\ (\A n \in In(inbox') : n.who # m.who)
  BY <1>1, <1>3, SingleTail DEF Once
<1>6. m.who # "nobody" => m.tells = "reply"
  BY <1>3, Fields DEF CacheInv
<1>7. /\ reply' = IF m.tells = "reply" /\ m.who # "nobody"
                  THEN [reply EXCEPT ![m.who] = IF m.ok THEN "ok" ELSE "error"] ELSE reply
  BY DEF Receive
<1>8. m.who \in Threads \cup {"nobody"} /\ reply \in [Threads -> {"none", "waiting", "ok", "error"}]
      /\ "nobody" \notin Threads
  BY <1>3, Fields DEF CacheInv, CacheTyped, Senders, Threads
<1>9. /\ reply' \in [Threads -> {"none", "waiting", "ok", "error"}]
      /\ \A w \in Threads : reply'[w] = IF m.who = w THEN (IF m.ok THEN "ok" ELSE "error") ELSE reply[w]
  BY <1>6, <1>7, <1>8
<1> QED
  BY <1>2, <1>3, <1>4, <1>5, <1>9

\* What it learns of the targets.
\* What is put down of a target: that it is seen, that it is gone, that it is configured.
LEMMA KnownUpdates ==
    ASSUME known \in [Targets -> TargetFacts], NEW t \in Targets, NEW b \in BOOLEAN,
           \/ known' = [known EXCEPT ![t].seen = TRUE, ![t].paused = b]
           \/ known' = [known EXCEPT ![t].detached = TRUE, ![t].paused = FALSE]
           \/ known' = [known EXCEPT ![t].paused = FALSE, ![t].initialized = b]
    PROVE  known' \in [Targets -> TargetFacts]
<1>1. known[t] \in TargetFacts
  OBVIOUS
<1>2. /\ [known[t] EXCEPT !.seen = TRUE, !.paused = b] \in TargetFacts
      /\ [known[t] EXCEPT !.detached = TRUE, !.paused = FALSE] \in TargetFacts
      /\ [known[t] EXCEPT !.paused = FALSE, !.initialized = b] \in TargetFacts
  BY <1>1 DEF TargetFacts
<1>3. \/ known' = [known EXCEPT ![t] = [known[t] EXCEPT !.seen = TRUE, !.paused = b]]
      \/ known' = [known EXCEPT ![t] = [known[t] EXCEPT !.detached = TRUE, !.paused = FALSE]]
      \/ known' = [known EXCEPT ![t] = [known[t] EXCEPT !.paused = FALSE, !.initialized = b]]
  OBVIOUS
<1>4. ASSUME NEW r \in TargetFacts, known' = [known EXCEPT ![t] = r] PROVE known' \in [Targets -> TargetFacts]
  BY <1>4
<1> QED
  BY <1>2, <1>3, <1>4

LEMMA LearnFacts ==
    ASSUME CacheInv, Receive, NEW m, m = Head(inbox), m \in Messages
    PROVE  /\ known' \in [Targets -> TargetFacts] /\ work' \in Seq(Work)
           /\ \A u \in Targets :
                 /\ known'[u].initialized = known[u].initialized
                 /\ known[u].seen => known'[u].seen
                 /\ known'[u].detached => known[u].detached \/ (u = m.target /\ m.tells = "detached")
                 /\ known'[u].initialized \/ known'[u].detached \/ known'[u].paused => known'[u].seen
           /\ m.tells = "running" => known'[m.target].seen
           /\ \/ In(work') \subseteq In(work) \cup {<<"request", m.target>>}
                 /\ \A i, j \in DOMAIN work' : work'[i] = work'[j] /\ work'[i][1] = "target" => i = j
              \/ /\ In(work') \subseteq In(work) \cup {<<"target", m.target>>} /\ m.target \in Targets
                 /\ ~known[m.target].seen /\ known'[m.target].seen
                 /\ \A i, j \in DOMAIN work' : work'[i] = work'[j] /\ work'[i][1] = "target" => i = j
<1> DEFINE t == m.target
           attaches == m.tells \in {"paused", "running"} /\ ~known[t].seen
<1>1. m.tells # "reply" => t \in Targets
  BY DEF Messages, Events, Replies
<1>2. known \in [Targets -> TargetFacts] /\ work \in Seq(Work)
  BY DEF CacheInv, CacheTyped
<1>3. /\ known' = CASE attaches ->
                         [known EXCEPT ![t].seen = TRUE, ![t].paused = (m.tells = "paused")]
                    [] m.tells = "detached" /\ known[t].seen ->
                         [known EXCEPT ![t].detached = TRUE, ![t].paused = FALSE]
                    [] OTHER -> known
      /\ work' = CASE attaches         -> Append(work, <<"target", t>>)
                   [] m.tells = "held" -> Append(work, <<"request", t>>)
                   [] OTHER            -> work
  BY DEF Receive
<1>4. /\ \A u \in Targets : known[u].initialized \/ known[u].detached \/ known[u].paused => known[u].seen
      /\ \A u \in Targets : <<"target", u>> \in In(work) => known[u].seen
      /\ \A i, j \in DOMAIN work : work[i] = work[j] /\ work[i][1] = "target" => i = j
  BY DEF CacheInv, SeenFirst
<1>5. ASSUME NEW x \in Work, work' = Append(work, x), x[1] = "target" => x \notin In(work)
      PROVE  /\ work' \in Seq(Work) /\ In(work') = In(work) \cup {x}
             /\ \A i, j \in DOMAIN work' : work'[i] = work'[j] /\ work'[i][1] = "target" => i = j
  <2>1. /\ work' \in Seq(Work) /\ In(work') = In(work) \cup {x}
    BY <1>2, <1>5, InAppend
  <2>2. /\ DOMAIN work' = 1 .. Len(work) + 1 /\ Len(work) \in Nat /\ DOMAIN work = 1 .. Len(work)
        /\ \A i \in 1 .. Len(work) : work'[i] = work[i]
        /\ work'[Len(work) + 1] = x
    BY <1>2, <1>5
  <2>3. \A i \in 1 .. Len(work) : work[i] \in In(work)
    BY <2>2 DEF In
  <2>4. ASSUME NEW i \in DOMAIN work', NEW j \in DOMAIN work', work'[i] = work'[j], work'[i][1] = "target"
        PROVE  i = j
    <3>1. CASE i \in 1 .. Len(work) /\ j \in 1 .. Len(work)
      BY <1>4, <2>2, <2>4, <3>1
    <3>2. CASE i = Len(work) + 1 /\ j \in 1 .. Len(work)
      BY <1>5, <2>2, <2>3, <2>4, <3>2
    <3>3. CASE j = Len(work) + 1 /\ i \in 1 .. Len(work)
      BY <1>5, <2>2, <2>3, <2>4, <3>3
    <3> QED
      BY <2>2, <3>1, <3>2, <3>3
  <2> QED
    BY <2>1, <2>4
<1>6. CASE attaches
  <2>1. t \in Targets /\ known' = [known EXCEPT ![t].seen = TRUE, ![t].paused = (m.tells = "paused")]
        /\ work' = Append(work, <<"target", t>>) /\ ~known[t].seen
    BY <1>1, <1>3, <1>6
  <2>2. <<"target", t>> \in Work /\ <<"target", t>> \notin In(work)
    BY <1>4, <2>1 DEF Work
  <2>3. known' \in [Targets -> TargetFacts]
    <3>1. (m.tells = "paused") \in BOOLEAN
      OBVIOUS
    <3> QED
      BY <1>2, <2>1, <3>1, KnownUpdates
  <2>4. /\ \A u \in Targets : u # t => known'[u] = known[u]
        /\ known'[t].seen /\ known'[t].initialized = known[t].initialized /\ known'[t].detached = known[t].detached
    BY <1>2, <2>1 DEF TargetFacts
  <2>5. /\ work' \in Seq(Work) /\ In(work') = In(work) \cup {<<"target", t>>}
        /\ \A i, j \in DOMAIN work' : work'[i] = work'[j] /\ work'[i][1] = "target" => i = j
    BY <1>5, <2>1, <2>2
  <2>6. \A u \in Targets :
                 /\ known'[u].initialized = known[u].initialized
                 /\ known[u].seen => known'[u].seen
                 /\ known'[u].detached => known[u].detached
                 /\ known'[u].initialized \/ known'[u].detached \/ known'[u].paused => known'[u].seen
    BY <1>4, <2>1, <2>4
  <2> QED
    BY <2>1, <2>3, <2>4, <2>5, <2>6
<1>7. CASE ~attaches
  <2>1. m.tells = "running" => known[t].seen
    BY <1>7
  <2>2. \/ known' = known
        \/ m.tells = "detached" /\ known[t].seen /\ known' = [known EXCEPT ![t].detached = TRUE, ![t].paused = FALSE]
    BY <1>3, <1>7
  <2>3. /\ known' \in [Targets -> TargetFacts]
        /\ \A u \in Targets :
              /\ known'[u].initialized = known[u].initialized
              /\ known'[u].seen = known[u].seen
              /\ known'[u].detached => known[u].detached \/ (u = t /\ m.tells = "detached")
              /\ known'[u].initialized \/ known'[u].detached \/ known'[u].paused => known'[u].seen
    <3>1. CASE known' = known
      BY <1>2, <1>4, <3>1
    <3>2. CASE m.tells = "detached" /\ known[t].seen /\ known' = [known EXCEPT ![t].detached = TRUE, ![t].paused = FALSE]
      <4>1. t \in Targets
        BY <1>1, <3>2
      <4>2. known' \in [Targets -> TargetFacts]
        BY <1>2, <3>2, <4>1, KnownUpdates
      <4>3. /\ \A u \in Targets : u # t => known'[u] = known[u]
            /\ known'[t].seen = known[t].seen /\ known'[t].initialized = known[t].initialized
        BY <1>2, <3>2, <4>1 DEF TargetFacts
      <4> QED
        BY <1>4, <3>2, <4>2, <4>3
    <3> QED
      BY <2>2, <3>1, <3>2
  <2>4. m.tells = "running" => t \in Targets
    BY <1>1
  <2>5. \/ work' = work
        \/ work' = Append(work, <<"request", t>>) /\ <<"request", t>> \in Work
    BY <1>1, <1>3, <1>7 DEF Work
  <2>6. /\ work' \in Seq(Work) /\ In(work') \subseteq In(work) \cup {<<"request", t>>}
        /\ \A i, j \in DOMAIN work' : work'[i] = work'[j] /\ work'[i][1] = "target" => i = j
    <3>1. CASE work' = work
      BY <1>2, <1>4, <3>1
    <3>2. CASE work' = Append(work, <<"request", t>>) /\ <<"request", t>> \in Work
      BY <1>5, <3>2
    <3> QED
      BY <2>5, <3>1, <3>2
  <2> QED
    BY <2>1, <2>3, <2>4, <2>6
<1> QED
  BY <1>6, <1>7

\* The receiver keeps the invariant; a reply is the only one its thread waits for.
LEMMA ReceiveKeeps ==
    ASSUME CacheInv, Once, Receive
    PROVE  CacheInv'
<1> SUFFICES ASSUME NEW m, m = Head(inbox) PROVE CacheInv'
  OBVIOUS
<1>1. /\ UNCHANGED <<life, applied, rules, auto, held,
                     wire, blocked, cacheErrors, connected, closing, lock, main, init>>
      /\ m \in In(inbox) /\ m \in Messages
      /\ inbox' \in Seq(Messages) /\ In(inbox') \subseteq In(inbox) /\ In(inbox) \subseteq In(inbox') \cup {m}
      /\ AfterReply(inbox) =>
            /\ AfterReply(inbox')
            /\ m.who = "main" /\ m.ok => \A n \in In(inbox') : n.tells # "running"
      /\ m.who # "nobody" => (\A c \in In(wire) : c.who # m.who) /\ (\A n \in In(inbox') : n.who # m.who)
      /\ reply' \in [Threads -> {"none", "waiting", "ok", "error"}]
      /\ \A w \in Threads : reply'[w] = IF m.who = w THEN (IF m.ok THEN "ok" ELSE "error") ELSE reply[w]
  BY ReceiveFacts
<1>2. /\ known' \in [Targets -> TargetFacts] /\ work' \in Seq(Work)
      /\ \A u \in Targets :
            /\ known'[u].initialized = known[u].initialized
            /\ known[u].seen => known'[u].seen
            /\ known'[u].detached => known[u].detached \/ (u = m.target /\ m.tells = "detached")
            /\ known'[u].initialized \/ known'[u].detached \/ known'[u].paused => known'[u].seen
      /\ m.tells = "running" => known'[m.target].seen
  BY <1>1, LearnFacts
<1>3. \/ In(work') \subseteq In(work) \cup {<<"request", m.target>>}
         /\ \A i, j \in DOMAIN work' : work'[i] = work'[j] /\ work'[i][1] = "target" => i = j
      \/ /\ In(work') \subseteq In(work) \cup {<<"target", m.target>>} /\ m.target \in Targets
         /\ ~known[m.target].seen /\ known'[m.target].seen
         /\ \A i, j \in DOMAIN work' : work'[i] = work'[j] /\ work'[i][1] = "target" => i = j
  BY <1>1, LearnFacts
<1>4. /\ reply'["main"] = IF m.who = "main" THEN (IF m.ok THEN "ok" ELSE "error") ELSE reply["main"]
      /\ reply'["init"] = IF m.who = "init" THEN (IF m.ok THEN "ok" ELSE "error") ELSE reply["init"]
      /\ m.who = "main" => reply["main"] = "waiting"
      /\ m.who = "init" => reply["init"] = "waiting"
  BY <1>1 DEF Threads, CacheInv, Asked
<1>5. Sound' <=> Sound
  BY <1>1 DEF Sound
<1>6. \A c \in In(wire) : c.does \in OfTarget => c.target \in Targets
  BY Fields DEF CacheInv
<1>7. init.target \in Targets \cup {NoTarget} /\ main.todo \subseteq Targets
  BY Fields DEF CacheInv
<1>8. CacheTyped'
  BY <1>1, <1>2 DEF CacheInv, CacheTyped
<1>9. Conn' /\ LockHeld' /\ InitAt' /\ InitAsked' /\ MainAsked'
  BY <1>1 DEF CacheInv, Conn, LockHeld, InitAt, InitAsked, MainAsked
<1>10. MainTodo'
  BY <1>1, <1>2, <1>7 DEF CacheInv, MainTodo
<1>11. Asked'
  <2>1. /\ main.pc \notin MainAsks => reply'["main"] = "none"
        /\ init.pc \notin Asking => reply'["init"] = "none"
    BY <1>4 DEF CacheInv, Asked
  <2>2. \A c \in In(wire) : c.who # "nobody" => reply'[c.who] = "waiting"
    <3> SUFFICES ASSUME NEW c \in In(wire), c.who # "nobody" PROVE reply'[c.who] = "waiting"
      OBVIOUS
    <3>1. c.who \in Threads /\ c.who # m.who /\ reply[c.who] = "waiting"
      BY <1>1, Whose DEF Threads, CacheInv, Asked
    <3> QED
      BY <1>1, <3>1
  <2>3. \A n \in In(inbox') : n.who # "nobody" => reply'[n.who] = "waiting"
    <3> SUFFICES ASSUME NEW n \in In(inbox'), n.who # "nobody" PROVE reply'[n.who] = "waiting"
      OBVIOUS
    <3>1. n.who \in Threads /\ n.who # m.who /\ reply[n.who] = "waiting"
      BY <1>1, Whose DEF Threads, CacheInv, Asked
    <3> QED
      BY <1>1, <3>1
  <2> QED
    BY <1>1, <2>1, <2>2, <2>3 DEF Asked
<1>12. SeenFirst'
  <2>1. \A t \in Targets : <<"target", t>> \in In(work') =>
           known'[t].seen /\ ~known'[t].initialized /\ init.target # t
    <3> SUFFICES ASSUME NEW t \in Targets, <<"target", t>> \in In(work')
                 PROVE  known'[t].seen /\ ~known'[t].initialized /\ init.target # t
      OBVIOUS
    <3>1. CASE <<"target", t>> \in In(work)
      BY <1>2, <3>1 DEF CacheInv, SeenFirst
    <3>2. CASE <<"target", t>> \notin In(work)
      <4>1. t = m.target /\ ~known[t].seen /\ known'[t].seen
        BY <1>3, <3>2
      <4> QED
        BY <1>2, <4>1, CachePolicyAssumption DEF CacheInv, SeenFirst
    <3> QED
      BY <3>1, <3>2
  <2>2. \A i, j \in DOMAIN work' : work'[i] = work'[j] /\ work'[i][1] = "target" => i = j
    BY <1>3
  <2>3. \A c \in In(wire) : c.does \in {"policy", "policy_run", "run", "rules", "no_rules"} => known'[c.target].seen
    BY <1>2, <1>6 DEF CacheInv, SeenFirst, OfTarget
  <2>4. /\ init.target # NoTarget => known'[init.target].seen /\ ~known'[init.target].initialized
        /\ main.todo # {} /\ main.pc # "start_wait" => \A t \in main.todo : known'[t].seen
    BY <1>2, <1>7 DEF CacheInv, SeenFirst
  <2>5. \A c \in In(wire) : c.does \in {"rules", "no_rules"} => c.target \in Pages
    BY DEF CacheInv, SeenFirst
  <2> QED
    BY <1>1, <1>2, <2>1, <2>2, <2>3, <2>4, <2>5 DEF SeenFirst
<1>13. DetachedGone'
  BY <1>1, <1>2 DEF CacheInv, DetachedGone
<1>14. RunningTold'
  <2> SUFFICES ASSUME Sound, auto, NEW t \in Targets, life[t] = "running", ~known'[t].seen
               PROVE  Told(t)'
    BY <1>1, <1>5 DEF RunningTold
  <2>1. PICK n \in In(inbox) : n.tells = "running" /\ n.target = t
    BY <1>2 DEF CacheInv, RunningTold, Told
  <2>2. n # m
    BY <1>2, <2>1
  <2>3. n \in In(inbox')
    BY <1>1, <2>2
  <2> QED
    BY <2>1, <2>3 DEF Told
<1>15. Attached'
  <2>1. Sound /\ main.pc = "start_attached" => AfterReply(inbox') /\ \A n \in In(inbox') : n.who = "main" /\ n.ok => auto
    BY <1>1 DEF CacheInv, Attached
  <2>2. NoneTold => NoneTold'
    BY <1>1 DEF NoneTold
  <2>3. Sound /\ main.pc = "start_attached" /\ reply'["main"] = "ok" => auto /\ NoneTold'
    <3> SUFFICES ASSUME Sound, main.pc = "start_attached", reply'["main"] = "ok" PROVE auto /\ NoneTold'
      OBVIOUS
    <3>1. CASE m.who = "main"
      <4>1. m.ok
        BY <1>4, <3>1
      <4> QED
        BY <1>1, <3>1, <4>1 DEF CacheInv, Attached, NoneTold
    <3>2. CASE m.who # "main"
      BY <1>4, <2>2, <3>2 DEF CacheInv, Attached
    <3> QED
      BY <3>1, <3>2
  <2>4. Sound /\ main.pc \in Watching => auto /\ NoneTold'
    BY <2>2 DEF CacheInv, Attached
  <2>5. main'.pc = main.pc /\ (auto => auto')
    BY <1>1
  <2>6. Sound' /\ main'.pc = "start_attached" => AfterReply(inbox') /\ \A n \in In(inbox') : n.who = "main" /\ n.ok => auto'
    BY <1>5, <2>1, <2>5
  <2>7. /\ Sound' /\ main'.pc = "start_attached" /\ reply'["main"] = "ok" => auto' /\ NoneTold'
        /\ Sound' /\ main'.pc \in Watching => auto' /\ NoneTold'
    BY <1>5, <2>3, <2>4, <2>5
  <2> QED
    BY <2>6, <2>7 DEF Attached
<1>16. CacheOff'
  <2> SUFFICES ASSUME Sound PROVE CacheOff'
    BY <1>5 DEF CacheOff
  <2>1. reply'["init"] = "ok" /\ init.pc \in {"policy", "policy_run"} => init.target \in applied
    BY <1>1, <1>4 DEF CacheInv, CacheOff
  <2> QED
    BY <1>1, <1>2, <2>1 DEF CacheInv, CacheOff, Off, Gone
<1>17. Bare'
  BY <1>1, <1>5 DEF CacheInv, Bare
<1>18. RuleCommands'
  <2>1. /\ reply["init"] = "error" => reply'["init"] = "error"
        /\ reply["main"] = "error" => reply'["main"] = "error"
    BY <1>4
  <2>2. \A c \in In(wire) : c.does \in {"rules", "no_rules"} => known'[c.target].initialized = known[c.target].initialized
    BY <1>2, <1>6 DEF OfTarget
  <2> QED
    BY <1>1, <1>5, <2>1, <2>2 DEF CacheInv, RuleCommands, Gone
<1>19. RulesByInit'
  <2> SUFFICES ASSUME Sound PROVE RulesByInit'
    BY <1>5 DEF RulesByInit
  <2>1. init.pc = "rules" /\ reply'["init"] = "ok" => init.target \in rules
    BY <1>1, <1>4 DEF CacheInv, RulesByInit
  <2>2. \A t \in rules : known'[t].initialized = known[t].initialized
    BY <1>2, CachePolicyAssumption DEF CacheInv, CacheTyped
  <2> QED
    BY <1>1, <2>1, <2>2 DEF CacheInv, RulesByInit, Gone
<1>20. RulesKept'
  <2>1. ASSUME NEW t, RulePending(t) PROVE RulePending(t)'
    <3>1. CASE reply["main"] = "error"
      BY <1>4, <3>1 DEF RulePending
    <3>2. CASE \E c \in In(wire) : c.who = "main" /\ c.target = t
      BY <1>1, <3>2 DEF RulePending
    <3>3. CASE \E n \in In(inbox) : n.who = "main" /\ ~n.ok
      <4>1. PICK n \in In(inbox) : n.who = "main" /\ ~n.ok
        BY <3>3
      <4>2. CASE n = m
        BY <1>4, <4>1, <4>2 DEF RulePending
      <4>3. CASE n # m
        BY <1>1, <4>1, <4>3 DEF RulePending
      <4> QED
        BY <4>2, <4>3
    <3> QED
      BY <2>1, <3>1, <3>2, <3>3 DEF RulePending
  <2> QED
    BY <1>1, <1>2, <1>5, <2>1, CachePolicyAssumption DEF CacheInv, RulesKept, Gone
<1> QED
  BY <1>8, <1>9, <1>10, <1>11, <1>12, <1>13, <1>14, <1>15, <1>16, <1>17, <1>18, <1>19, <1>20 DEF CacheInv

\* What every step of the initializer is like: it leaves the browser and the
\* main thread alone and sends at most one command, which it waits for.
InitStep ==
    /\ UNCHANGED <<life, applied, rules, auto, held, inbox, connected, closing, blocked, main>>
    /\ wire' \in Seq(Commands) /\ reply' \in [Threads -> {"none", "waiting", "ok", "error"}]
    /\ known' \in [Targets -> TargetFacts] /\ work' \in Seq(Work) /\ cacheErrors' \in BOOLEAN
    /\ reply'["main"] = reply["main"]
    /\ init'.pc \notin Asking => reply'["init"] = "none"
    /\ cacheErrors => cacheErrors'
    /\ In(wire) \subseteq In(wire')
    /\ \A c \in In(wire') \ In(wire) :
          /\ c.who = "init" /\ reply'["init"] = "waiting" /\ c.target \in Targets
          /\ \/ c.does \in {"policy", "policy_run", "rules"} /\ c.does = init'.pc /\ c.target = init'.target
             \/ c.does = "run" /\ init'.pc = "released" /\ c.target = init'.target
             \/ c.does = "answer" /\ init'.pc = "answer"
    /\ \A u \in Targets :
          /\ known'[u].seen = known[u].seen /\ known'[u].detached = known[u].detached
          /\ known'[u].paused => known[u].paused
          /\ known'[u].initialized = known[u].initialized \/ (init.pc = "record" /\ u = init.target)

\* The initializer sends a command for a target.
LEMMA InitAsk ==
    ASSUME CacheInv, NEW d \in OfTarget, NEW t \in Targets, Ask("init", d, t)
    PROVE  /\ wire' \in Seq(Commands) /\ reply' \in [Threads -> {"none", "waiting", "ok", "error"}]
           /\ reply'["main"] = reply["main"] /\ reply'["init"] \in {"waiting", "error"}
           /\ In(wire) \subseteq In(wire')
           /\ \A c \in In(wire') \ In(wire) :
                 c.who = "init" /\ c.does = d /\ c.target = t /\ reply'["init"] = "waiting"
<1>1. /\ Command("init", d, t) \in Commands
      /\ Command("init", d, t).who = "init" /\ Command("init", d, t).does = d /\ Command("init", d, t).target = t
      /\ "init" \in Threads /\ "main" \in Threads \ {"init"}
  BY CommandKinds DEF Command, Threads
<1> QED
  BY <1>1, AskFacts DEF CacheInv

\* The initializer sends nothing.
LEMMA InitQuiet ==
    ASSUME CacheInv, AskNothing("init") \/ UNCHANGED <<wire, reply>>
    PROVE  /\ wire' = wire /\ wire' \in Seq(Commands) /\ reply' \in [Threads -> {"none", "waiting", "ok", "error"}]
           /\ reply'["main"] = reply["main"] /\ (AskNothing("init") => reply'["init"] = "none")
           /\ (UNCHANGED <<wire, reply>> => reply'["init"] = reply["init"])
<1>1. "init" \in Threads /\ "main" \in Threads \ {"init"}
  BY DEF Threads
<1> QED
  BY <1>1, AskNothingFacts DEF CacheInv, CacheTyped

\* Every step of the initializer is such a step.
LEMMA InitIsStep ==
    ASSUME CacheInv, Initializer
    PROVE  InitStep
<1>1. UNCHANGED <<life, applied, rules, auto, held, inbox, connected, closing, blocked, main>>
  BY DEF Initializer, TakeTarget, BeginTarget, Configured, RulesSet, WorkerConfigured, Release, Released,
         Record, TakeRequest, Answered, InitOnly
<1>2. /\ known \in [Targets -> TargetFacts] /\ work \in Seq(Work) /\ cacheErrors \in BOOLEAN /\ closing \in BOOLEAN
      /\ init \in [pc : InitPcs, target : Targets \cup {NoTarget}, failed : BOOLEAN]
      /\ init.pc \notin Asking => reply["init"] = "none"
      /\ init.pc \notin {"take", "answer"} => init.target \in Targets
  BY DEF CacheInv, CacheTyped, InitAt, Asked
<1>3. work # <<>> => Tail(work) \in Seq(Work) /\ Head(work) \in Work
  BY <1>2
<1>4. CASE TakeTarget
  <2>1. init' \in [pc : {"take", "lock"}, target : Targets \cup {NoTarget}, failed : BOOLEAN]
        /\ work' \in Seq(Work) /\ UNCHANGED <<wire, reply, known, cacheErrors>> /\ init.pc = "take"
    BY <1>2, <1>3, <1>4 DEF TakeTarget, Work
  <2>2. init.pc \notin Asking
    BY <2>1 DEF Asking
  <2> QED
    BY <1>1, <1>2, <2>1, <2>2, InitQuiet DEF InitStep
<1>5. CASE BeginTarget
  <2>1. UNCHANGED <<known, cacheErrors, work>> /\ init.pc = "lock" /\ init.target \in Targets
    BY <1>2, <1>5 DEF BeginTarget
  <2>2. PICK d \in {"policy", "policy_run"} : Ask("init", d, init.target) /\ init' = [init EXCEPT !.pc = d]
    BY <1>5 DEF BeginTarget
  <2>3. d \in OfTarget /\ init'.pc = d /\ init'.target = init.target /\ init'.pc \in Asking
    BY <1>2, <2>2 DEF OfTarget, Asking
  <2> QED
    BY <1>1, <1>2, <2>1, <2>2, <2>3, InitAsk DEF InitStep
<1>6. CASE Configured
  <2>1. UNCHANGED <<known, cacheErrors, work>> /\ init.pc = "policy" /\ init.target \in Targets
    BY <1>2, <1>6 DEF Configured
  <2>2. CASE Ask("init", "rules", init.target) /\ init' = [init EXCEPT !.pc = "rules"]
    <3>1. "rules" \in OfTarget /\ init'.pc = "rules" /\ init'.target = init.target /\ init'.pc \in Asking
      BY <1>2, <2>2 DEF OfTarget, Asking
    <3> QED
      BY <1>1, <1>2, <2>1, <2>2, <3>1, InitAsk DEF InitStep
  <2>3. CASE AskNothing("init")
    BY <1>1, <1>2, <2>1, <2>3, InitQuiet DEF InitStep
  <2> QED
    BY <1>6, <2>2, <2>3 DEF Configured
<1>7. CASE RulesSet
  BY <1>1, <1>2, <1>7, InitQuiet DEF InitStep, RulesSet
<1>8. CASE WorkerConfigured
  <2>1. init.target \in Targets /\ UNCHANGED <<cacheErrors, work>> /\ AskNothing("init")
    BY <1>2, <1>8 DEF WorkerConfigured
  <2>2. known' \in [Targets -> TargetFacts] /\ \A u \in Targets :
          /\ known'[u].seen = known[u].seen /\ known'[u].detached = known[u].detached
          /\ known'[u].paused => known[u].paused
          /\ known'[u].initialized = known[u].initialized
    <3>1. CASE known' = known
      BY <1>2, <3>1
    <3>2. CASE known' = [known EXCEPT ![init.target].paused = FALSE]
      <4>1. known' \in [Targets -> TargetFacts]
        BY <1>2, <3>2 DEF TargetFacts
      <4>2. ASSUME NEW u \in Targets
            PROVE  /\ known'[u].seen = known[u].seen /\ known'[u].detached = known[u].detached
                   /\ known'[u].paused => known[u].paused
                   /\ known'[u].initialized = known[u].initialized
        <5>1. known[u] \in TargetFacts
          BY <1>2
        <5>2. known'[u] = IF u = init.target THEN [known[u] EXCEPT !.paused = FALSE] ELSE known[u]
          BY <1>2, <3>2
        <5> QED
          BY <5>1, <5>2 DEF TargetFacts
      <4> QED
        BY <4>1, <4>2
    <3> QED
      BY <1>8, <3>1, <3>2 DEF WorkerConfigured
  <2> QED
    BY <1>1, <1>2, <2>1, <2>2, InitQuiet DEF InitStep
<1>9. CASE Release
  <2>1. UNCHANGED <<known, cacheErrors, work>> /\ init.pc = "finally" /\ init.target \in Targets
    BY <1>2, <1>9 DEF Release
  <2>2. CASE Ask("init", "run", init.target) /\ init' = [init EXCEPT !.pc = "released"]
    <3>1. "run" \in OfTarget /\ init'.pc = "released" /\ init'.target = init.target /\ init'.pc \in Asking
      BY <1>2, <2>2 DEF OfTarget, Asking
    <3> QED
      BY <1>1, <1>2, <2>1, <2>2, <3>1, InitAsk DEF InitStep
  <2>3. CASE AskNothing("init")
    BY <1>1, <1>2, <2>1, <2>3, InitQuiet DEF InitStep
  <2> QED
    BY <1>9, <2>2, <2>3 DEF Release
<1>10. CASE Released
  BY <1>1, <1>2, <1>10, InitQuiet DEF InitStep, Released
<1>11. CASE Record
  <2>1. /\ init.target \in Targets /\ init.pc = "record" /\ UNCHANGED <<wire, reply, work>>
        /\ known' = [known EXCEPT ![init.target].paused = FALSE, ![init.target].initialized = ~init.failed]
        /\ cacheErrors' = (cacheErrors \/ (init.failed /\ ~known[init.target].detached /\ ~closing))
        /\ init'.pc = "take"
    BY <1>2, <1>11 DEF Record
  <2>2. known' \in [Targets -> TargetFacts]
    <3>1. (~init.failed) \in BOOLEAN
      OBVIOUS
    <3> QED
      BY <1>2, <2>1, <3>1, KnownUpdates
  <2>3. ASSUME NEW u \in Targets
        PROVE  /\ known'[u].seen = known[u].seen /\ known'[u].detached = known[u].detached
               /\ known'[u].paused => known[u].paused
               /\ known'[u].initialized = known[u].initialized \/ (init.pc = "record" /\ u = init.target)
    <3>1. known[u] \in TargetFacts
      BY <1>2
    <3>2. CASE u = init.target
      <4>1. known'[u] = [known[u] EXCEPT !.paused = FALSE, !.initialized = ~init.failed]
        BY <1>2, <2>1, <3>2
      <4>2. known'[u].seen = known[u].seen /\ known'[u].detached = known[u].detached /\ known'[u].paused = FALSE
        BY <3>1, <4>1 DEF TargetFacts
      <4> QED
        BY <2>1, <3>2, <4>2
    <3>3. CASE u # init.target
      <4>1. known'[u] = known[u]
        BY <1>2, <2>1, <3>3
      <4> QED
        BY <4>1
    <3> QED
      BY <3>2, <3>3
  <2>4. cacheErrors' \in BOOLEAN /\ (cacheErrors => cacheErrors') /\ init.pc \notin Asking
    BY <1>2, <2>1 DEF Asking
  <2> QED
    BY <1>1, <1>2, <2>1, <2>2, <2>3, <2>4, InitQuiet DEF InitStep
<1>12. CASE TakeRequest
  <2>1. UNCHANGED <<known, cacheErrors>> /\ Head(work) \in Work /\ work' \in Seq(Work) /\ Ask("init", "answer", Head(work)[2])
        /\ init' = [init EXCEPT !.pc = "answer"]
    BY <1>2, <1>3, <1>12 DEF TakeRequest
  <2>2. "answer" \in OfTarget /\ init'.pc = "answer" /\ init'.pc \in Asking /\ Head(work)[2] \in Targets
    BY <1>2, <2>1 DEF OfTarget, Asking, Work
  <2> QED
    BY <1>1, <1>2, <2>1, <2>2, InitAsk DEF InitStep
<1>13. CASE Answered
  <2>1. AskNothing("init") /\ UNCHANGED <<known, work>> /\ cacheErrors' = (cacheErrors \/ (reply["init"] = "error" /\ ~closing))
    BY <1>13 DEF Answered
  <2>2. cacheErrors' \in BOOLEAN /\ (cacheErrors => cacheErrors')
    BY <1>2, <2>1
  <2> QED
    BY <1>1, <1>2, <2>1, <2>2, InitQuiet DEF InitStep
<1> QED
  BY <1>4, <1>5, <1>6, <1>7, <1>8, <1>9, <1>10, <1>11, <1>12, <1>13 DEF Initializer

\* Where the initializer is after a step.
LEMMA InitTyped ==
    ASSUME CacheInv, Initializer
    PROVE  /\ init' \in [pc : InitPcs, target : Targets \cup {NoTarget}, failed : BOOLEAN]
           /\ lock' \in {"free", "main", "init"}
           /\ reply["init"] # "waiting" /\ \A c \in In(wire) : c.who # "init"
           /\ \A m \in In(inbox) : m.who # "init"
<1>1. /\ work \in Seq(Work) /\ reply["init"] \in {"none", "waiting", "ok", "error"} /\ lock \in {"free", "main", "init"}
      /\ init \in [pc : InitPcs, target : Targets \cup {NoTarget}, failed : BOOLEAN]
  BY DEF CacheInv, CacheTyped, Threads
<1>2. /\ {"take", "lock", "policy", "rules", "policy_run", "finally", "released", "record", "answer"} = InitPcs
  BY DEF InitPcs
<1>3. work # <<>> => Head(work) \in Work
  BY <1>1
<1>4. init' \in [pc : InitPcs, target : Targets \cup {NoTarget}, failed : BOOLEAN]
  <2>1. CASE TakeTarget
    BY <1>1, <1>2, <1>3, <2>1 DEF TakeTarget, Work
  <2>2. CASE BeginTarget \/ TakeRequest \/ Answered
    BY <1>1, <1>2, <2>2 DEF BeginTarget, TakeRequest, Answered
  <2>3. CASE Configured \/ RulesSet \/ WorkerConfigured
    BY <1>1, <1>2, <2>3 DEF Configured, RulesSet, WorkerConfigured
  <2>4. CASE Release \/ Released
    BY <1>1, <1>2, <2>4 DEF Release, Released
  <2>5. CASE Record
    BY <1>2, <2>5 DEF Record
  <2> QED
    BY <2>1, <2>2, <2>3, <2>4, <2>5 DEF Initializer
<1>5. lock' \in {"free", "main", "init"}
  BY <1>1 DEF Initializer, TakeTarget, BeginTarget, Configured, RulesSet, WorkerConfigured, Release, Released,
              Record, TakeRequest, Answered
<1> QED
  BY <1>4, <1>5, InitializerWaits, NotWaiting DEF Threads

\* The parts of the invariant that every step of the initializer keeps for the
\* same reason.
LEMMA InitStepKeeps ==
    ASSUME CacheInv, Initializer
    PROVE  /\ CacheTyped' /\ Conn' /\ Asked' /\ InitAsked' /\ MainAsked'
           /\ DetachedGone' /\ RunningTold' /\ Attached'
           /\ Sound' => Sound
<1>1. /\ UNCHANGED <<life, applied, rules, auto, held, inbox, connected, closing, blocked, main>>
      /\ wire' \in Seq(Commands) /\ reply' \in [Threads -> {"none", "waiting", "ok", "error"}]
      /\ known' \in [Targets -> TargetFacts] /\ work' \in Seq(Work) /\ cacheErrors' \in BOOLEAN
      /\ reply'["main"] = reply["main"]
      /\ init'.pc \notin Asking => reply'["init"] = "none"
      /\ cacheErrors => cacheErrors'
      /\ In(wire) \subseteq In(wire')
      /\ \A u \in Targets : known'[u].seen = known[u].seen /\ known'[u].detached = known[u].detached
  BY InitIsStep DEF InitStep
<1>2. \A c \in In(wire') \ In(wire) :
          /\ c.who = "init" /\ reply'["init"] = "waiting" /\ c.target \in Targets
          /\ \/ c.does \in {"policy", "policy_run", "rules"} /\ c.does = init'.pc /\ c.target = init'.target
             \/ c.does = "run" /\ init'.pc = "released" /\ c.target = init'.target
             \/ c.does = "answer" /\ init'.pc = "answer"
  BY InitIsStep DEF InitStep
<1>3. /\ init' \in [pc : InitPcs, target : Targets \cup {NoTarget}, failed : BOOLEAN]
      /\ lock' \in {"free", "main", "init"}
      /\ \A c \in In(wire) : c.who # "init"
      /\ \A m \in In(inbox) : m.who # "init"
  BY InitTyped
<1>4. Sound' => Sound
  BY <1>1 DEF Sound
<1>5. CacheTyped'
  BY <1>1, <1>3 DEF CacheInv, CacheTyped
<1>6. Conn'
  BY <1>1, <1>2 DEF CacheInv, Conn
<1>7. Asked'
  <2>1. \A c \in In(wire') : c.who # "nobody" => reply'[c.who] = "waiting"
    <3> SUFFICES ASSUME NEW c \in In(wire'), c.who # "nobody" PROVE reply'[c.who] = "waiting"
      OBVIOUS
    <3>1. CASE c \in In(wire)
      <4>1. c.who = "main" /\ reply["main"] = "waiting"
        BY <1>3, <3>1, Whose DEF CacheInv, Asked
      <4> QED
        BY <1>1, <4>1
    <3>2. CASE c \notin In(wire)
      BY <1>2, <3>2
    <3> QED
      BY <3>1, <3>2
  <2>2. \A m \in In(inbox) : m.who # "nobody" => reply'[m.who] = "waiting"
    BY <1>1, <1>3, Whose DEF CacheInv, Asked
  <2> QED
    BY <1>1, <2>1, <2>2 DEF CacheInv, Asked
<1>8. InitAsked'
  BY <1>2, <1>3 DEF InitAsked
<1>9. MainAsked'
  BY <1>1, <1>2 DEF CacheInv, MainAsked
<1>10. DetachedGone'
  BY <1>1 DEF CacheInv, DetachedGone
<1>11. RunningTold'
  BY <1>1, <1>4 DEF CacheInv, RunningTold, Told
<1>12. Attached'
  BY <1>1, <1>4 DEF CacheInv, Attached, NoneTold
<1> QED
  BY <1>4, <1>5, <1>6, <1>7, <1>8, <1>9, <1>10, <1>11, <1>12

Configuring == BeginTarget \/ Configured \/ RulesSet \/ WorkerConfigured \/ Release \/ Released

\* While a target is being configured.
LEMMA ConfiguringFacts ==
    ASSUME CacheInv, Configuring
    PROVE  /\ init'.target = init.target /\ init.target \in Targets
           /\ init.pc \in {"lock", "policy", "policy_run", "rules", "finally", "released"}
           /\ init'.pc \in Locked /\ lock' = "init" /\ work' = work /\ cacheErrors' = cacheErrors
           /\ main.pc # "rules"
           /\ \A u \in Targets : known'[u].initialized = known[u].initialized
<1>1. /\ init \in [pc : InitPcs, target : Targets \cup {NoTarget}, failed : BOOLEAN]
      /\ init.pc \notin {"take", "answer"} => init.target \in Targets
      /\ init.pc \in Locked => lock = "init"
      /\ lock # "main" => main.pc # "rules"
  BY DEF CacheInv, CacheTyped, InitAt, LockHeld
<1>2. /\ init.pc \in {"lock", "policy", "policy_run", "rules", "finally", "released"}
      /\ work' = work /\ cacheErrors' = cacheErrors
  BY DEF Configuring, BeginTarget, Configured, RulesSet, WorkerConfigured, Release, Released
<1>3. init'.target = init.target /\ init'.pc \in Locked
  BY <1>1 DEF Configuring, BeginTarget, Configured, RulesSet, WorkerConfigured, Release, Released, Locked
<1>4. lock' = "init" /\ lock # "main"
  BY <1>1 DEF Configuring, BeginTarget, Configured, RulesSet, WorkerConfigured, Release, Released, Locked
<1>5. \A u \in Targets : known'[u].initialized = known[u].initialized
  BY <1>2, InitIsStep DEF InitStep, Configuring, Initializer
<1> QED
  BY <1>1, <1>2, <1>3, <1>4, <1>5

\* What of the configuration is settled with each step.
LEMMA ConfiguringSettles ==
    ASSUME CacheInv, Configuring, Sound
    PROVE  /\ init'.pc = "policy_run" => init.target \notin Pages
           /\ init'.pc = "rules" => blocked /\ init.target \in Pages
           /\ init'.pc \in {"policy", "policy_run"} => reply'["init"] # "ok"
           /\ init'.pc = "rules" \/ (init'.pc \in Ending /\ ~init'.failed) => init.target \in applied
           /\ init.pc \in Ending /\ init.failed => init'.pc \in Ending /\ init'.failed
           /\ init.pc \in Ending \cup {"rules"} => init'.pc \in Ending
           /\ init.pc = "rules" /\ reply["init"] = "error" => init'.failed
           /\ init'.pc = "rules" => init.pc = "policy" /\ reply'["init"] # "ok"
           /\ init'.pc \in Ending /\ ~init'.failed =>
                 \/ init.pc \in Ending /\ ~init.failed
                 \/ init.pc = "rules" /\ reply["init"] = "ok"
                 \/ init.pc = "policy" /\ reply["init"] = "ok" /\ ~(blocked /\ init.target \in Pages)
                 \/ init.pc = "policy_run"
           /\ init'.pc \in Ending \cup {"rules"} => init.pc # "lock"
<1>1. /\ init \in [pc : InitPcs, target : Targets \cup {NoTarget}, failed : BOOLEAN]
      /\ init.pc = "rules" \/ (init.pc \in Ending /\ ~init.failed) => init.target \in applied
      /\ reply["init"] = "ok" /\ init.pc \in {"policy", "policy_run"} => init.target \in applied
      /\ reply \in [Threads -> {"none", "waiting", "ok", "error"}] /\ "init" \in Threads
  BY DEF CacheInv, CacheTyped, CacheOff, Threads
<1> USE DEF Ending
<1>2. ASSUME NEW d, NEW t, Ask("init", d, t) PROVE reply'["init"] # "ok"
  BY <1>1, <1>2 DEF Ask
<1>3. CASE BeginTarget
  <2>1. init.pc = "lock" /\ reply'["init"] # "ok" /\ init'.pc \in {"policy", "policy_run"}
        /\ (init'.pc = "policy_run" => init.target \notin Pages)
    BY <1>1, <1>2, <1>3 DEF BeginTarget
  <2> QED
    BY <2>1
<1>4. CASE Configured
  <2>1. CASE reply["init"] = "ok" /\ blocked /\ init.target \in Pages
    <3>1. init.pc = "policy" /\ init'.pc = "rules" /\ reply'["init"] # "ok"
      BY <1>1, <1>2, <1>4, <2>1 DEF Configured
    <3> QED
      BY <1>1, <2>1, <3>1
  <2>2. CASE ~(reply["init"] = "ok" /\ blocked /\ init.target \in Pages)
    <3>1. init.pc = "policy" /\ init'.pc = "finally" /\ init'.failed = (reply["init"] = "error")
          /\ reply["init"] \in {"ok", "error"}
      BY <1>1, <1>4, <2>2 DEF Configured, Replied
    <3> QED
      BY <1>1, <2>2, <3>1
  <2> QED
    BY <2>1, <2>2
<1>5. CASE RulesSet
  <2>1. init.pc = "rules" /\ init'.pc = "finally" /\ init'.failed = (reply["init"] = "error")
        /\ reply["init"] \in {"ok", "error"}
    BY <1>1, <1>5 DEF RulesSet, Replied
  <2> QED
    BY <1>1, <2>1
<1>6. CASE WorkerConfigured
  <2>1. init.pc = "policy_run" /\ init'.pc = "finally" /\ init'.failed = (reply["init"] = "error")
        /\ reply["init"] \in {"ok", "error"}
    BY <1>1, <1>6 DEF WorkerConfigured, Replied
  <2> QED
    BY <1>1, <2>1
<1>7. CASE Release
  <2>1. init.pc = "finally" /\ init'.pc \in {"released", "record"} /\ init'.failed = init.failed
    BY <1>1, <1>7 DEF Release
  <2> QED
    BY <1>1, <2>1
<1>8. CASE Released
  <2>1. init.pc = "released" /\ init'.pc = "record" /\ init'.failed = (init.failed \/ reply["init"] = "error")
    BY <1>1, <1>8 DEF Released
  <2> QED
    BY <1>1, <2>1
<1> QED
  BY <1>3, <1>4, <1>5, <1>6, <1>7, <1>8 DEF Configuring

\* The steps that configure a target keep the invariant.
LEMMA ConfiguringKeeps ==
    ASSUME CacheInv, Configuring
    PROVE  CacheInv'
<1>1. Initializer
  BY DEF Configuring, Initializer
<1>2. /\ UNCHANGED <<life, applied, rules, auto, held, inbox, connected, closing, blocked, main>>
      /\ reply'["main"] = reply["main"]
      /\ In(wire) \subseteq In(wire')
      /\ \A u \in Targets :
            /\ known'[u].seen = known[u].seen /\ known'[u].detached = known[u].detached
            /\ known'[u].paused => known[u].paused
  BY <1>1, InitIsStep DEF InitStep
<1>3. \A c \in In(wire') \ In(wire) :
          /\ c.who = "init" /\ reply'["init"] = "waiting" /\ c.target \in Targets
          /\ \/ c.does \in {"policy", "policy_run", "rules"} /\ c.does = init'.pc /\ c.target = init'.target
             \/ c.does = "run" /\ init'.pc = "released" /\ c.target = init'.target
             \/ c.does = "answer" /\ init'.pc = "answer"
  BY <1>1, InitIsStep DEF InitStep
<1>4. /\ CacheTyped' /\ Conn' /\ Asked' /\ InitAsked' /\ MainAsked'
      /\ DetachedGone' /\ RunningTold' /\ Attached'
      /\ Sound' => Sound
  BY <1>1, InitStepKeeps
<1>5. /\ init'.target = init.target /\ init.target \in Targets
      /\ init.pc \in {"lock", "policy", "policy_run", "rules", "finally", "released"}
      /\ init'.pc \in Locked /\ lock' = "init" /\ work' = work /\ cacheErrors' = cacheErrors
      /\ main.pc # "rules"
      /\ \A u \in Targets : known'[u].initialized = known[u].initialized
  BY ConfiguringFacts
<1>6. Sound =>
           /\ init'.pc \in {"policy", "policy_run"} => reply'["init"] # "ok"
           /\ init'.pc = "rules" \/ (init'.pc \in Ending /\ ~init'.failed) => init.target \in applied
           /\ init.pc \in Ending /\ init.failed => init'.pc \in Ending /\ init'.failed
           /\ init.pc \in Ending \cup {"rules"} => init'.pc \in Ending
           /\ init.pc = "rules" /\ reply["init"] = "error" => init'.failed
           /\ init'.pc = "rules" => init.pc = "policy" /\ reply'["init"] # "ok"
           /\ init'.pc \in Ending /\ ~init'.failed =>
                 \/ init.pc \in Ending /\ ~init.failed
                 \/ init.pc = "rules" /\ reply["init"] = "ok"
                 \/ init.pc = "policy" /\ reply["init"] = "ok" /\ ~(blocked /\ init.target \in Pages)
                 \/ init.pc = "policy_run"
  BY ConfiguringSettles
<1>7. \A c \in In(wire) : c.who # "init" /\ (c.does \in OfTarget => c.target \in Targets)
  BY <1>1, InitTyped, Fields DEF CacheInv
<1>8. \A m \in In(inbox) : m.who # "init"
  BY <1>1, InitTyped
<1>9. init.target # NoTarget
  BY <1>5, CachePolicyAssumption
<1>10. LockHeld' /\ MainTodo'
  BY <1>2, <1>5 DEF LockHeld, MainTodo
<1>11. init'.pc = "policy_run" => init.target \notin Pages
  BY DEF CacheInv, CacheTyped, Configuring, BeginTarget, Configured, RulesSet, WorkerConfigured, Release,
         Released
<1>12. init'.pc = "rules" => blocked /\ init.target \in Pages
  BY DEF CacheInv, CacheTyped, Configuring, BeginTarget, Configured, RulesSet, WorkerConfigured, Release,
         Released
<1>13. InitAt'
  BY <1>2, <1>5, <1>9, <1>11, <1>12 DEF InitAt, Locked
<1>14. SeenFirst'
  <2>1. \A c \in In(wire') \ In(wire) :
           /\ c.target = init.target
           /\ c.does \in {"rules", "no_rules"} => c.target \in Pages
    BY <1>3, <1>5, <1>12 DEF Locked
  <2>2. \A c \in In(wire) : c.does \in {"policy", "policy_run", "run", "rules", "no_rules"} =>
           c.target \in Targets /\ known[c.target].seen
    BY <1>7 DEF CacheInv, SeenFirst, OfTarget
  <2>3. known[init.target].seen /\ ~known[init.target].initialized
    BY <1>9 DEF CacheInv, SeenFirst
  <2>4. /\ \A c \in In(wire') : c.does \in {"policy", "policy_run", "run", "rules", "no_rules"} => known'[c.target].seen
        /\ \A c \in In(wire') : c.does \in {"rules", "no_rules"} => c.target \in Pages
    BY <1>2, <1>5, <2>1, <2>2, <2>3 DEF CacheInv, SeenFirst
  <2>5. main.todo \subseteq Targets
    BY Fields DEF CacheInv
  <2> QED
    BY <1>2, <1>5, <2>3, <2>4, <2>5 DEF CacheInv, SeenFirst
<1>15. CacheOff'
  <2> SUFFICES ASSUME Sound PROVE CacheOff'
    BY <1>4 DEF CacheOff
  <2>1. \A c \in In(wire') : c.does = "run" =>
           Off(c.target) \/ (init.target = c.target /\ init'.pc \in {"released", "record"} /\ init'.failed)
    <3> SUFFICES ASSUME NEW c \in In(wire'), c.does = "run", ~Off(c.target)
                 PROVE  init.target = c.target /\ init'.pc \in {"released", "record"} /\ init'.failed
      OBVIOUS
    <3>1. CASE c \in In(wire)
      <4>1. init.target = c.target /\ init.pc = "released" /\ init.failed
        BY <1>5, <3>1 DEF CacheInv, CacheOff
      <4>2. init'.pc = "record"
        BY <4>1 DEF Configuring, BeginTarget, Configured, RulesSet, WorkerConfigured, Release, Released,
                    CacheInv, CacheTyped
      <4> QED
        BY <1>6, <4>1, <4>2 DEF Ending
    <3>2. CASE c \notin In(wire)
      <4>1. c.target = init.target /\ init'.pc = "released"
        BY <1>3, <1>5, <3>2
      <4>2. init'.failed
        BY <1>6, <4>1 DEF Off, Ending
      <4> QED
        BY <4>1, <4>2
    <3> QED
      BY <3>1, <3>2
  <2>2. \A t \in Targets : known'[t].initialized => t \in applied
    BY <1>5 DEF CacheInv, CacheOff
  <2> QED
    BY <1>2, <1>5, <1>6, <1>8, <2>1, <2>2 DEF CacheOff, Off, Gone
<1>16. Bare'
  BY <1>2, <1>4, <1>5 DEF CacheInv, Bare
<1>17. RuleCommands'
  <2> SUFFICES ASSUME Sound, NEW c \in In(wire')
      PROVE /\ c.does = "rules" =>
                 \/ Gone(c.target)
                 \/ init.target = c.target /\ init'.pc = "rules" /\ c.who = "init"
                 \/ init.target = c.target /\ init'.pc \in Ending /\ init'.failed
            /\ c.does = "no_rules" => Gone(c.target)
    BY <1>2, <1>4, <1>5 DEF RuleCommands, Gone
  <2>1. CASE c \in In(wire)
    BY <1>5, <1>6, <1>7, <2>1 DEF CacheInv, RuleCommands
  <2>2. CASE c \notin In(wire)
    BY <1>3, <1>5, <2>2
  <2> QED
    BY <2>1, <2>2
<1>18. RulesByInit'
  <2> SUFFICES ASSUME Sound PROVE RulesByInit'
    BY <1>4 DEF RulesByInit
  <2>1. \A t \in rules : known[t].initialized \/ Gone(t) \/ (init.target = t /\ init.pc \in {"rules"} \cup Ending)
    BY DEF CacheInv, RulesByInit
  <2>2. \A t \in rules : t \in Targets
    BY CachePolicyAssumption DEF CacheInv, CacheTyped
  <2>3. \A t \in rules : known'[t].initialized \/ Gone(t) \/ (init.target = t /\ init'.pc \in {"rules"} \cup Ending)
    BY <1>5, <1>6, <2>1, <2>2
  <2>4. init'.pc \in Ending /\ ~init'.failed /\ init.target \in Pages =>
          Gone(init.target) \/ (init.target \in rules <=> blocked)
    <3> SUFFICES ASSUME init'.pc \in Ending, ~init'.failed, init.target \in Pages
                 PROVE  Gone(init.target) \/ (init.target \in rules <=> blocked)
      OBVIOUS
    <3>1. CASE init.pc \in Ending /\ ~init.failed
      BY <3>1 DEF CacheInv, RulesByInit
    <3>2. CASE init.pc = "rules" /\ reply["init"] = "ok"
      BY <3>2 DEF CacheInv, RulesByInit, InitAt
    <3>3. CASE init.pc = "policy" /\ reply["init"] = "ok" /\ ~(blocked /\ init.target \in Pages)
      <4>1. ~blocked /\ ~known[init.target].initialized
        BY <1>9, <3>3 DEF CacheInv, SeenFirst
      <4> QED
        BY <2>1, <3>3, <4>1 DEF Ending
    <3>4. init.pc # "policy_run"
      BY DEF CacheInv, InitAt
    <3> QED
      BY <1>6, <3>1, <3>2, <3>3, <3>4
  <2> QED
    BY <1>2, <1>5, <1>6, <1>8, <2>3, <2>4 DEF RulesByInit, Gone
<1>19. RulesKept'
  BY <1>2, <1>4, <1>5, CachePolicyAssumption DEF CacheInv, RulesKept, Gone
<1> QED
  BY <1>4, <1>10, <1>13, <1>14, <1>15, <1>16, <1>17, <1>18, <1>19 DEF CacheInv

\* The work that is left when the first is taken.
LEMMA WorkLeft ==
    ASSUME CacheInv, work # <<>>, work' = Tail(work)
    PROVE  /\ Head(work) \in In(work) /\ Head(work) \in Work /\ In(work') \subseteq In(work)
           /\ \A i, j \in DOMAIN work' : work'[i] = work'[j] /\ work'[i][1] = "target" => i = j
           /\ Head(work)[1] = "target" => Head(work) \notin In(work')
<1>1. work \in Seq(Work) /\ \A i, j \in DOMAIN work : work[i] = work[j] /\ work[i][1] = "target" => i = j
  BY DEF CacheInv, CacheTyped, SeenFirst
<1>2. /\ Len(work) \in Nat \ {0} /\ DOMAIN work = 1 .. Len(work) /\ Head(work) = work[1]
      /\ DOMAIN work' = 1 .. Len(work) - 1 /\ \A i \in 1 .. Len(work) - 1 : work'[i] = work[i + 1]
  BY <1>1
<1>3. ASSUME NEW i \in DOMAIN work', NEW j \in DOMAIN work', work'[i] = work'[j], work'[i][1] = "target"
      PROVE  i = j
  <2>1. i + 1 \in DOMAIN work /\ j + 1 \in DOMAIN work
    BY <1>2
  <2>2. i + 1 = j + 1
    BY <1>1, <1>2, <1>3, <2>1
  <2> QED
    BY <1>2, <2>2
<1>4. ASSUME Head(work)[1] = "target", NEW i \in DOMAIN work', work'[i] = Head(work) PROVE FALSE
  <2>1. i + 1 \in DOMAIN work /\ 1 \in DOMAIN work /\ i + 1 # 1
    BY <1>2
  <2> QED
    BY <1>1, <1>2, <1>4, <2>1
<1>5. Head(work) \in In(work) /\ Head(work) \in Work /\ In(Tail(work)) \subseteq In(work)
  BY <1>1, InHead
<1> QED
  BY <1>3, <1>4, <1>5 DEF In

\* The initializer takes up a target or a request, or is done with a request.
LEMMA TakeKeeps ==
    ASSUME CacheInv, TakeTarget \/ TakeRequest \/ Answered
    PROVE  CacheInv'
<1>1. Initializer
  BY DEF Initializer
<1>2. /\ UNCHANGED <<life, applied, rules, auto, held, inbox, connected, closing, blocked, main>>
      /\ reply'["main"] = reply["main"]
      /\ In(wire) \subseteq In(wire')
  BY <1>1, InitIsStep DEF InitStep
<1>3. \A c \in In(wire') \ In(wire) :
          /\ c.who = "init" /\ reply'["init"] = "waiting" /\ c.target \in Targets
          /\ \/ c.does \in {"policy", "policy_run", "rules"} /\ c.does = init'.pc /\ c.target = init'.target
             \/ c.does = "run" /\ init'.pc = "released" /\ c.target = init'.target
             \/ c.does = "answer" /\ init'.pc = "answer"
  BY <1>1, InitIsStep DEF InitStep
<1>4. /\ CacheTyped' /\ Conn' /\ Asked' /\ InitAsked' /\ MainAsked'
      /\ DetachedGone' /\ RunningTold' /\ Attached'
      /\ Sound' => Sound
  BY <1>1, InitStepKeeps
<1>5. /\ known' = known /\ lock' = lock /\ init.target = NoTarget /\ init.pc \in {"take", "answer"}
  BY DEF TakeTarget, TakeRequest, Answered, CacheInv, InitAt
<1>6. init \in [pc : InitPcs, target : Targets \cup {NoTarget}, failed : BOOLEAN]
  BY DEF CacheInv, CacheTyped
<1>7. \/ init'.pc \in {"take", "answer"} /\ init'.target = NoTarget
      \/ /\ init'.pc = "lock" /\ init'.target \in Targets
         /\ work # <<>> /\ work' = Tail(work) /\ Head(work) = <<"target", init'.target>>
  <2>1. CASE TakeTarget
    <3>1. init' = init \/ init' = [pc |-> "lock", target |-> Head(work)[2], failed |-> FALSE]
      BY <2>1 DEF TakeTarget
    <3>2. work # <<>> /\ work' = Tail(work) /\ Head(work)[1] = "target" /\ Head(work) \in Work
      BY <2>1, WorkLeft DEF TakeTarget
    <3>3. Head(work) = <<"target", Head(work)[2]>> /\ Head(work)[2] \in Targets
      BY <3>2 DEF Work
    <3> QED
      BY <1>5, <3>1, <3>2, <3>3
  <2>2. CASE TakeRequest \/ Answered
    BY <1>5, <1>6, <2>2 DEF TakeRequest, Answered
  <2> QED
    BY <2>1, <2>2
<1>8. work' = work \/ (work # <<>> /\ work' = Tail(work))
  BY DEF TakeTarget, TakeRequest, Answered
<1>9. init'.pc \notin Locked /\ init'.pc \notin Ending /\ init'.pc \notin {"policy", "policy_run", "rules"}
  BY <1>7 DEF Locked, Ending
<1>10. init.pc \notin Locked /\ init.pc \notin Ending /\ init.pc \notin {"policy", "policy_run", "rules"}
  BY <1>5 DEF Locked, Ending
<1>11. \A c \in In(wire') \ In(wire) : c.does = "answer"
  BY <1>3, <1>9 DEF Locked
<1>12. LockHeld' /\ MainTodo' /\ InitAt'
  BY <1>2, <1>5, <1>7, <1>9, <1>10, CachePolicyAssumption DEF CacheInv, LockHeld, MainTodo, InitAt
<1>13. SeenFirst'
  <2>1. \A t \in Targets : <<"target", t>> \in In(work') =>
           known[t].seen /\ ~known[t].initialized /\ init'.target # t
    <3> SUFFICES ASSUME NEW t \in Targets, <<"target", t>> \in In(work')
                 PROVE  known[t].seen /\ ~known[t].initialized /\ init'.target # t
      OBVIOUS
    <3>1. <<"target", t>> \in In(work)
      BY <1>8, WorkLeft
    <3>2. known[t].seen /\ ~known[t].initialized
      BY <3>1 DEF CacheInv, SeenFirst
    <3>3. init'.target # t
      <4>1. CASE init'.target = NoTarget
        BY <4>1, CachePolicyAssumption
      <4>2. CASE init'.target # NoTarget
        <5>1. work # <<>> /\ work' = Tail(work) /\ Head(work) = <<"target", init'.target>>
          BY <1>7, <4>2
        <5>2. Head(work) \notin In(work')
          BY <5>1, WorkLeft
        <5> QED
          BY <5>1, <5>2
      <4> QED
        BY <4>1, <4>2
    <3> QED
      BY <3>2, <3>3
  <2>2. \A i, j \in DOMAIN work' : work'[i] = work'[j] /\ work'[i][1] = "target" => i = j
    BY <1>8, WorkLeft DEF CacheInv, SeenFirst
  <2>3. init'.target # NoTarget => known[init'.target].seen /\ ~known[init'.target].initialized
    <3> SUFFICES ASSUME init'.target # NoTarget
                 PROVE  known[init'.target].seen /\ ~known[init'.target].initialized
      OBVIOUS
    <3>1. init'.target \in Targets /\ work # <<>> /\ work' = Tail(work) /\ Head(work) = <<"target", init'.target>>
      BY <1>7
    <3>2. <<"target", init'.target>> \in In(work)
      BY <3>1, WorkLeft
    <3> QED
      BY <3>1, <3>2 DEF CacheInv, SeenFirst
  <2>4. /\ \A c \in In(wire') : c.does \in {"policy", "policy_run", "run", "rules", "no_rules"} => c \in In(wire)
        /\ \A c \in In(wire') : c.does \in {"rules", "no_rules"} => c \in In(wire)
    BY <1>11
  <2> QED
    BY <1>2, <1>5, <2>1, <2>2, <2>3, <2>4 DEF CacheInv, SeenFirst
<1>14. CacheOff'
  BY <1>2, <1>4, <1>5, <1>9, <1>11 DEF CacheInv, CacheOff, Off, Gone
<1>15. Bare'
  BY <1>2, <1>4, <1>5, CachePolicyAssumption DEF CacheInv, Bare
<1>16. RuleCommands'
  <2>1. \A c \in In(wire') : c.does \in {"rules", "no_rules"} => c \in In(wire)
    BY <1>11
  <2> QED
    BY <1>2, <1>4, <1>5, <1>10, <2>1 DEF CacheInv, RuleCommands, Gone
<1>17. RulesByInit'
  BY <1>2, <1>4, <1>5, <1>9, <1>10 DEF CacheInv, RulesByInit, Gone
<1>18. RulesKept'
  <2>1. ASSUME NEW t, RulePending(t) PROVE RulePending(t)'
    BY <1>2, <2>1 DEF RulePending
  <2> QED
    BY <1>2, <1>4, <1>5, <2>1 DEF CacheInv, RulesKept, Gone
<1> QED
  BY <1>4, <1>12, <1>13, <1>14, <1>15, <1>16, <1>17, <1>18 DEF CacheInv

\* The target is recorded, as initialized or as failed.
LEMMA RecordKeeps ==
    ASSUME CacheInv, Record
    PROVE  CacheInv'
<1> DEFINE t == init.target
<1>1. Initializer
  BY DEF Initializer
<1>2. /\ UNCHANGED <<life, applied, rules, auto, held,
                     inbox, connected, closing, blocked, main, wire, reply, work>>
      /\ init.pc = "record" /\ init' = [pc |-> "take", target |-> NoTarget, failed |-> FALSE] /\ lock' = "free"
  BY DEF Record, InitOnly
<1>3. /\ CacheTyped' /\ Conn' /\ Asked' /\ InitAsked' /\ MainAsked'
      /\ DetachedGone' /\ RunningTold' /\ Attached'
      /\ Sound' => Sound
  BY <1>1, InitStepKeeps
<1>4. t \in Targets /\ known \in [Targets -> TargetFacts] /\ init.failed \in BOOLEAN
  BY <1>2 DEF CacheInv, CacheTyped, InitAt
<1>5. /\ \A u \in Targets : u # t => known'[u] = known[u]
      /\ known'[t].initialized = ~init.failed /\ known'[t].seen = known[t].seen /\ known'[t].detached = known[t].detached
      /\ known'[t].paused = FALSE
  BY <1>4 DEF Record, TargetFacts
<1>6. lock = "init" /\ main.pc # "rules"
  BY <1>2 DEF CacheInv, LockHeld, Locked
<1>7. Sound' /\ init.failed => Gone(t)
  <2> SUFFICES ASSUME Sound', init.failed PROVE Gone(t)
    OBVIOUS
  <2>1. ~(init.failed /\ ~known[t].detached /\ ~closing)
    BY DEF Record, Sound
  <2>2. ~closing
    BY <1>3 DEF CacheInv, Conn, Sound, Open, Watching, Starting, InUse
  <2>3. known[t].detached
    BY <2>1, <2>2
  <2> QED
    BY <1>4, <2>3 DEF CacheInv, DetachedGone, Gone
<1>8. known[t].seen /\ ~known[t].initialized
  BY <1>4, CachePolicyAssumption DEF CacheInv, SeenFirst
<1>9. init.pc \in Ending
  BY <1>2 DEF Ending
<1>10. LockHeld' /\ MainTodo' /\ InitAt'
  BY <1>2, <1>6 DEF LockHeld, MainTodo, InitAt, Locked
<1>11. SeenFirst'
  <2>1. \A u \in Targets : known'[u].seen = known[u].seen
    BY <1>5
  <2>2. \A u \in Targets : known'[u].initialized \/ known'[u].detached \/ known'[u].paused => known'[u].seen
    BY <1>5, <1>8 DEF CacheInv, SeenFirst
  <2>3. \A c \in In(wire) : c.does \in {"policy", "policy_run", "run", "rules", "no_rules"} => known'[c.target].seen
    BY <2>1, Fields DEF CacheInv, SeenFirst, OfTarget
  <2>4. \A u \in Targets : <<"target", u>> \in In(work) => known'[u].seen /\ ~known'[u].initialized
    BY <1>5, <2>1 DEF CacheInv, SeenFirst
  <2>5. main.todo # {} /\ main.pc # "start_wait" => \A u \in main.todo : known'[u].seen
    BY <2>1, Fields DEF CacheInv, SeenFirst
  <2> QED
    BY <1>2, <2>2, <2>3, <2>4, <2>5, CachePolicyAssumption DEF CacheInv, SeenFirst
<1>12. CacheOff'
  <2> SUFFICES ASSUME Sound, Sound' PROVE CacheOff'
    BY <1>3 DEF CacheOff
  <2>1. \A u \in Targets : known'[u].initialized => u \in applied
    BY <1>5, <1>9 DEF CacheInv, CacheOff
  <2>2. \A c \in In(wire) : c.does = "run" => Off(c.target)
    BY <1>7 DEF CacheInv, CacheOff, Off
  <2> QED
    BY <1>2, <2>1, <2>2 DEF CacheOff, Off, Gone, Ending
<1>13. Bare'
  <2> SUFFICES ASSUME Sound, Sound', main.pc \in InUse, NEW u \in Targets, life[u] = "running", u \notin applied
               PROVE  FALSE
    BY <1>2, <1>3 DEF Bare
  <2>1. u = t
    BY DEF CacheInv, Bare
  <2>2. init.failed
    BY <1>9, <2>1 DEF CacheInv, CacheOff
  <2> QED
    BY <1>7, <2>1, <2>2 DEF Gone
<1>14. RuleCommands'
  <2> SUFFICES ASSUME Sound, Sound', NEW c \in In(wire), c.does \in {"rules", "no_rules"}
               PROVE  Gone(c.target)
    BY <1>2, <1>3 DEF RuleCommands, Gone
  <2> QED
    BY <1>2, <1>6, <1>7 DEF CacheInv, RuleCommands
<1>15. RulesByInit'
  <2> SUFFICES ASSUME Sound, Sound', NEW u \in rules PROVE known'[u].initialized \/ Gone(u)
    BY <1>2, <1>3 DEF RulesByInit, Gone, Ending
  <2>1. u \in Targets
    BY CachePolicyAssumption DEF CacheInv, CacheTyped
  <2>2. CASE u = t
    BY <1>5, <1>7, <2>2
  <2>3. CASE u # t
    BY <1>5, <2>1, <2>3 DEF CacheInv, RulesByInit
  <2> QED
    BY <2>2, <2>3
<1>16. RulesKept'
  <2> SUFFICES ASSUME Sound, Sound', NEW u \in Pages, known'[u].initialized, ~Gone(u)
               PROVE  u \in rules <=> blocked
    BY <1>2, <1>3 DEF RulesKept, Gone
  <2>1. u \in Targets
    BY CachePolicyAssumption
  <2>2. CASE u = t
    <3>1. ~init.failed
      BY <1>5, <2>2
    <3> QED
      BY <1>9, <2>2, <3>1 DEF CacheInv, RulesByInit
  <2>3. CASE u # t
    BY <1>5, <1>6, <2>1, <2>3 DEF CacheInv, RulesKept
  <2> QED
    BY <2>2, <2>3
<1> QED
  BY <1>3, <1>10, <1>11, <1>12, <1>13, <1>14, <1>15, <1>16 DEF CacheInv

\* Every step keeps the invariant.
LEMMA CacheStep ==
    ASSUME CacheInv, Once, [CacheNext]_cacheVars
    PROVE  CacheInv' /\ Once'
<1>1. ASSUME NEW t \in Targets, Create(t) \/ Destroy(t) PROVE CacheInv' /\ Once'
  BY <1>1, BrowserKeeps, OthersOnce
<1>2. ASSUME NEW t \in Pages, Hold(t) PROVE CacheInv' /\ Once'
  BY <1>2, BrowserKeeps, OthersOnce, CachePolicyAssumption
<1>3. CASE Serve
  <2>1. \/ inbox' = Append(inbox, Answer(Head(wire), FALSE)) /\ UNCHANGED <<life, applied, rules, auto, held>>
        \/ /\ Head(wire).does = "auto_off" /\ EndSessions
           /\ inbox' = inbox \o Reported(Head(wire)) \o <<Answer(Head(wire), TRUE)>>
        \/ /\ Head(wire).does # "auto_off" /\ Effect(Head(wire))
           /\ inbox' = inbox \o Reported(Head(wire)) \o <<Answer(Head(wire), TRUE)>>
           /\ Head(wire).target # NoTarget => ~Gone(Head(wire).target)
    BY <1>3, ServeFacts
  <2>2. CacheInv'
    BY <1>3, <2>1, RefusedKeeps, AutoOffKeeps, ServedKeeps
  <2> QED
    BY <1>3, <2>2, OthersOnce
<1>4. CASE Lose
  BY <1>4, CutKeeps, OthersOnce
<1>5. CASE Receive
  BY <1>5, ReceiveKeeps, OthersOnce
<1>6. CASE GiveUp
  BY <1>6, OtherKeeps, MainOnce DEF OtherMain
<1>7. ASSUME NEW w \in Threads, Timeout(w) PROVE CacheInv' /\ Once'
  BY <1>7, TimeoutKeeps, OthersOnce
<1>8. CASE Initializer
  <2>1. Configuring \/ (TakeTarget \/ TakeRequest \/ Answered) \/ Record
    BY <1>8 DEF Initializer, Configuring
  <2> QED
    BY <1>8, <2>1, ConfiguringKeeps, TakeKeeps, RecordKeeps, InitializerOnce
<1>9. CASE Main
  <2>1. OtherMain \/ SetRules \/ SetRule \/ RuleSet \/ RulesDone \/ CloseSocket
    BY <1>9 DEF Main, OtherMain
  <2> QED
    BY <1>9, <2>1, OtherKeeps, SetRulesKeeps, SetRuleKeeps, RuleSetKeeps, CutKeeps, MainOnce
<1>10. CASE UNCHANGED cacheVars
  BY <1>10, StutterKeeps DEF Once, cacheVars
<1> QED
  BY <1>1, <1>2, <1>3, <1>4, <1>5, <1>6, <1>7, <1>8, <1>9, <1>10 DEF CacheNext

\* BareIsReported: in use, a target that runs with its caches is the one being
\* configured, or an error was recorded.
THEOREM CacheInvariant == CacheSpec => [](CacheTypeOK /\ BareIsReported /\ CacheInv /\ Once)
<1>1. CacheInit => CacheInv /\ Once
  <2>1. CacheInit => Once
    BY DEF CacheInit, Once, Single, In
  <2> QED
    BY <2>1, Start
<1>2. CacheInv /\ Once /\ [CacheNext]_cacheVars => CacheInv' /\ Once'
  BY CacheStep
<1>3. CacheInv => CacheTypeOK
  BY DEF CacheInv, CacheTyped, CacheTypeOK, TargetFacts
<1>4. CacheInv => BareIsReported
  BY DEF CacheInv, Bare, Sound, Open, Watching, InUse, BareIsReported
<1> QED
  BY <1>1, <1>2, <1>3, <1>4, PTL DEF CacheSpec

\* PassedIsCovered: a check that passes (assert_healthy, wait_ready) leaves no target
\* that runs with its caches, and no page without the exclusions that are wanted.
THEOREM ChecksCover == CacheSpec => PassedIsCovered
<1> DEFINE Passed == main'.pc = "ready" /\ main.pc \in {"check_wait", "start_check_wait"} =>
                        \A t \in Targets : life[t] = "running" =>
                           t \in applied /\ (t \in Pages => (t \in rules <=> blocked))
<1>1. CacheInv /\ [CacheNext]_cacheVars => Passed
  <2> SUFFICES ASSUME CacheInv, [CacheNext]_cacheVars,
                      main'.pc = "ready", main.pc \in {"check_wait", "start_check_wait"},
                      NEW t \in Targets, life[t] = "running"
               PROVE  t \in applied /\ (t \in Pages => (t \in rules <=> blocked))
    OBVIOUS
  <2>1. main' # main
    OBVIOUS
  <2>2. Main \/ GiveUp
    BY <2>1 DEF CacheNext, cacheVars, Create, Destroy, Hold, Serve, Lose, Receive, Timeout, BrowserOnly,
                Initializer,
                TakeTarget, BeginTarget, Configured, RulesSet, WorkerConfigured, Release, Released, Record,
                TakeRequest, Answered, InitOnly
  <2>3. CoveragePasses
    BY <2>2 DEF Main, GiveUp, StartAttach, StartList, StartListed, StartWait, CheckAsk, CheckWait,
                CoverageRaises,
                SetRules, SetRule, RuleSet, RulesDone, Close, CloseRun, CloseSocket, MainAt, Goto
  <2>4. t \in applied /\ known[t].initialized /\ Sound /\ main.pc # "rules"
    BY <2>3, PassedIsOff
  <2> QED
    BY <2>4 DEF CacheInv, RulesKept, Gone
<1>2. CacheSpec => []CacheInv /\ [][CacheNext]_cacheVars
  BY CacheInvariant, PTL DEF CacheSpec
<1>3. [](CacheInv) /\ [][CacheNext]_cacheVars => [][Passed]_cacheVars
  BY <1>1, PTL
<1> QED
  BY <1>2, <1>3, PTL DEF PassedIsCovered

=============================================================================
