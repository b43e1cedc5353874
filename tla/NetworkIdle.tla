----------------------------- MODULE NetworkIdle -----------------------------
(***************************************************************************)
(* The wait for a page to be loaded: NetworkIdleTracker and                *)
(* _network_idle_session of browser_loading.py, as _fetch_with uses them.  *)
(* The browser reports what it does on two streams, the log of the driver  *)
(* and the connection of the cache policy.  Every event is on both; the    *)
(* log may come late, so that what one stream has told long ago is told    *)
(* again by the other.  From these events the session keeps a ledger of    *)
(* the requests of the page and decides that the page is loaded.           *)
(*                                                                         *)
(* The requests the browser may make are named for what they are:          *)
(*   doc, doc2   main documents: of the page, of a page it sends on to     *)
(*   img, img2   resources of these documents                              *)
(*   sub         a request of an iframe of the first page                  *)
(*   feed        an event stream                                           *)
(*   old         a request of the page that is being left, which does not  *)
(*               name its document                                         *)
(***************************************************************************)
EXTENDS Integers, Sequences, FiniteSets

CONSTANTS
    Requests,          \* those of the names above that an instance has
    Pages,             \* the sets of them that one page makes
    Redirected,        \* bound: the pages whose documents may be redirected
    IdleSeconds, StallSeconds, ResourceSeconds, NavigationSeconds,
    BusyTime,          \* bound: until when the browser does anything
    MaxTime,           \* bound: the clock
    Waits              \* calls of NetworkIdleTracker.wait

ASSUME NetworkIdleAssumption ==
    /\ "doc" \in Requests
    /\ Requests \subseteq {"doc", "doc2", "img", "img2", "sub", "feed", "old"}
    /\ {IdleSeconds, StallSeconds, ResourceSeconds, NavigationSeconds} \subseteq Nat \ {0}
    /\ \A page \in Pages : "doc" \in page /\ page \subseteq Requests
    /\ Redirected \subseteq Pages
    /\ BusyTime \in Nat /\ MaxTime \in Nat /\ MaxTime >= BusyTime + ResourceSeconds /\ Waits \in Nat \ {0}

Documents == Requests \cap {"doc", "doc2"}
Loader(r) == IF r \in {"doc2", "img2"} THEN "second" ELSE "first"
OfMainFrame(r) == r \in {"doc", "doc2", "img", "img2", "feed"}
Never == -1
-----------------------------------------------------------------------------
VARIABLES
    now,
    \* the browser
    page,      \* the requests of this page
    truth,     \* request -> "no", "run", "done", "failed", "gone"
    answer,    \* main document -> "none", "ok", "bad"
    hops,      \* main document -> redirects so far
    loader,    \* committed document of the main frame
    iframe,    \* "no", "there", "removed"
    active,    \* time of the latest event of a request of the page
    stamp,     \* events so far; the timestamps of the events are their numbers
    log, cdp,  \* events not entered yet
    \* the session
    pc, due,   \* due: how many events of the log the session has got
    book, reason, waits

browserVars == <<page, truth, answer, hops, loader, iframe, active, stamp, log, cdp>>
sessionVars == <<pc, due, book, reason, waits>>
idleVars == <<now, browserVars, sessionVars>>

Over(r) == truth[r] \in {"done", "failed", "gone"}
OfThePage(r) == r # "old" /\ r # "feed"

EmptyBook ==
    [ledger |-> [r \in Requests |-> "unseen"],
     status |-> [d \in Documents |-> "none"],
     finishedAt |-> [r \in Requests |-> Never],
     seen |-> {},          \* <<request, hop>>: seen_request_events
     main |-> "none",      \* loader of the main frame in frames
     initial |-> "none",   \* initial_main_loader
     frame |-> FALSE,      \* the iframe is in frames
     navigation |-> Never, \* navigation_started_at
     last |-> Never,       \* last_activity
     documents |-> <<>>,   \* items of the main documents, those of prior ones too
     target |-> <<>>,      \* target_document
     completedAt |-> Never]

IdleInit ==
    /\ now = 0
    /\ page \in Pages
    /\ truth = [r \in Requests |-> IF r = "old" /\ r \in page THEN "run" ELSE "no"]
    /\ answer = [d \in Documents |-> "none"]
    /\ hops = [d \in Documents |-> 0]
    /\ loader = "none" /\ iframe = "no" /\ active = 0
    /\ stamp = IF "old" \in page THEN 1 ELSE 0
    /\ log = IF "old" \in page
             THEN <<[kind |-> "start", r |-> "old", hop |-> 0, stamp |-> 1, time |-> 0]>>
             ELSE <<>>
    /\ cdp = log
    /\ pc = "navigate" /\ due = 0 /\ book = EmptyBook
    /\ reason = "none" /\ waits = 0
-----------------------------------------------------------------------------
(* The browser                                                             *)

Event(kind, r, hop) == [kind |-> kind, r |-> r, hop |-> hop]

\* Both streams get the events; busy says that a request of the page did
\* something.
Emit(events, busy) ==
    LET stamped == [i \in 1..Len(events) |->
                      [kind |-> events[i].kind, r |-> events[i].r, hop |-> events[i].hop,
                       stamp |-> stamp + i, time |-> now]]
    IN /\ log' = log \o stamped
       /\ cdp' = cdp \o stamped
       /\ stamp' = stamp + Len(events)
       /\ active' = IF busy THEN now ELSE active

MayStart(r) ==
    CASE r = "doc"  -> loader = "none"
      [] r = "doc2" -> loader = "first"
      [] r = "sub"  -> iframe = "there"
      [] r = "old"  -> FALSE
      [] OTHER      -> loader = Loader(r)

RequestStarts(r) ==
    /\ r \in page /\ truth[r] = "no" /\ MayStart(r)
    /\ truth' = [truth EXCEPT ![r] = "run"]
    /\ Emit(<<Event("start", r, 0)>>, OfThePage(r))
    /\ UNCHANGED <<now, answer, hops, loader, iframe, sessionVars>>

\* The server of a document sends the browser on.
Redirect(d) ==
    /\ truth[d] = "run" /\ answer[d] = "none" /\ hops[d] = 0 /\ page \in Redirected
    /\ hops' = [hops EXCEPT ![d] = 1]
    /\ Emit(<<Event("start", d, 1)>>, TRUE)
    /\ UNCHANGED <<now, truth, answer, loader, iframe, sessionVars>>

\* The answer to a document comes: the document is committed, and what the
\* page before it was doing is cancelled.
Commit(d) ==
    /\ truth[d] = "run" /\ answer[d] = "none"
    /\ \E a \in {"ok", "bad"} : answer' = [answer EXCEPT ![d] = a]
    /\ loader' = Loader(d)
    /\ LET left == {r \in Requests : truth[r] = "run" /\ r # d /\ OfMainFrame(r)
                                     /\ Loader(r) # Loader(d)}
           gone == IF iframe = "there" /\ truth["sub"] = "run" THEN {"sub"} ELSE {}
           order == CHOOSE o \in [1..Cardinality(left) -> left] :
                       \A r \in left : \E i \in 1..Cardinality(left) : o[i] = r
           fails == [i \in 1..Cardinality(left) |-> Event("fail", order[i], 0)]
           detach == IF iframe = "there" THEN <<Event("detach", "sub", 0)>> ELSE <<>>
       IN /\ truth' = [r \in Requests |-> IF r \in left THEN "failed"
                                         ELSE IF r \in gone THEN "gone" ELSE truth[r]]
          /\ Emit(detach \o fails \o <<Event(answer'[d], d, 0)>>, TRUE)
    /\ iframe' = IF iframe = "there" THEN "removed" ELSE iframe
    /\ UNCHANGED <<now, hops, sessionVars>>

RequestEnds(r) ==
    /\ truth[r] = "run" /\ (r \in Documents => answer[r] # "none")
    /\ truth' = [truth EXCEPT ![r] = "done"]
    /\ Emit(<<Event("finish", r, 0)>>, OfThePage(r))
    /\ UNCHANGED <<now, answer, hops, loader, iframe, sessionVars>>

RequestFails(r) ==
    /\ truth[r] = "run"
    /\ truth' = [truth EXCEPT ![r] = "failed"]
    /\ Emit(<<Event("fail", r, 0)>>, OfThePage(r))
    /\ UNCHANGED <<now, answer, hops, loader, iframe, sessionVars>>

Attach ==
    /\ "sub" \in page /\ iframe = "no" /\ loader = "first"
    /\ iframe' = "there"
    /\ Emit(<<Event("attach", "sub", 0)>>, FALSE)
    /\ UNCHANGED <<now, truth, answer, hops, loader, sessionVars>>

\* The page removes its iframe; a request of it ends without a word.
Detach ==
    /\ iframe = "there"
    /\ iframe' = "removed"
    /\ truth' = [truth EXCEPT !["sub"] = IF @ = "run" THEN "gone" ELSE @]
    /\ Emit(<<Event("detach", "sub", 0)>>, truth["sub"] = "run")
    /\ UNCHANGED <<now, answer, hops, loader, sessionVars>>

BrowserActs ==
    \/ \E r \in Requests : RequestStarts(r) \/ RequestEnds(r) \/ RequestFails(r)
    \/ \E d \in Documents : Redirect(d) \/ Commit(d)
    \/ Attach \/ Detach

\* bound: what the browser does after the last wait is nobody's concern
SessionOver == pc \in {"failed", "timeout"} \/ (pc = "loaded" /\ waits = Waits)

\* A batch is entered in no time: what happens meanwhile is in the next one.
Entering == pc = "read"

Browser == now <= BusyTime /\ ~SessionOver /\ ~Entering /\ UNCHANGED page /\ BrowserActs

Tick == now < MaxTime /\ ~Entering /\ now' = now + 1 /\ UNCHANGED <<browserVars, sessionVars>>
-----------------------------------------------------------------------------
(* One event in the ledger                                                 *)

Activity(b, e) == [b EXCEPT !.last = IF e.time > @ THEN e.time ELSE @]

\* prior_navigation_reason
BeforeNavigation(b, n) == b.navigation # Never /\ n < b.navigation

\* Mutant: a request that started before the navigation is entered.
OnStartLate(b, e) ==
    LET r == e.r
        known == <<r, e.hop>> \in b.seen
        main == IF r \in Documents THEN Loader(r) ELSE b.main
        prior == FALSE
        belongs == \/ OfMainFrame(r) /\ main = Loader(r)
                   \/ r = "sub" /\ b.frame
                   \/ r = "old"
    IN CASE known -> b
         [] ~known /\ prior ->
              [b EXCEPT !.seen = @ \cup {<<r, e.hop>>}, !.ledger[r] = "prior"]
         [] ~known /\ ~prior /\ ~belongs -> b
         [] ~known /\ ~prior /\ belongs /\ r = "feed" ->
              [b EXCEPT !.ledger[r] = "ignored"]
         [] OTHER ->
              Activity([b EXCEPT
                 !.main = main, !.seen = @ \cup {<<r, e.hop>>},
                 !.ledger[r] = "pending",
                 !.status = [d \in Documents |-> IF d = r THEN "none" ELSE @[d]],
                 !.documents = IF r \in Documents
                               THEN Append(@, [r |-> r, hop |-> e.hop, stamp |-> e.stamp])
                               ELSE @], e)

\* A request starts, or goes on to another address.  It is entered when it
\* belongs to the page: to the main frame and its present document, to the
\* iframe, or to a worker.  A document announces itself this way before it is
\* committed.
OnStart(b, e) ==
    LET r == e.r
        known == <<r, e.hop>> \in b.seen
        main == IF r \in Documents THEN Loader(r) ELSE b.main
        prior == BeforeNavigation(b, e.stamp)
        belongs == \/ OfMainFrame(r) /\ main = Loader(r)
                   \/ r = "sub" /\ b.frame
                   \/ r = "old"
    IN CASE known -> b
         [] ~known /\ prior ->
              [b EXCEPT !.seen = @ \cup {<<r, e.hop>>}, !.ledger[r] = "prior"]
         [] ~known /\ ~prior /\ ~belongs -> b
         [] ~known /\ ~prior /\ belongs /\ r = "feed" ->
              [b EXCEPT !.ledger[r] = "ignored"]
         [] OTHER ->
              Activity([b EXCEPT
                 !.main = main, !.seen = @ \cup {<<r, e.hop>>},
                 !.ledger[r] = "pending",
                 !.status = [d \in Documents |-> IF d = r THEN "none" ELSE @[d]],
                 !.documents = IF r \in Documents
                               THEN Append(@, [r |-> r, hop |-> e.hop, stamp |-> e.stamp])
                               ELSE @], e)

\* Mutant: the end of a request is no activity.
OnEndSilent(b, e, state) ==
    IF b.ledger[e.r] # "pending" THEN b
    ELSE ([b EXCEPT !.ledger[e.r] = state, !.finishedAt[e.r] = e.time])

OnEnd(b, e, state) ==
    IF b.ledger[e.r] # "pending" THEN b
    ELSE Activity([b EXCEPT !.ledger[e.r] = state, !.finishedAt[e.r] = e.time], e)

\* the answer to a document, and the commit that comes with it: a commit that
\* is not of the document in the main frame is an old one
OnAnswer(b, e) ==
    IF b.ledger[e.r] # "pending" THEN b
    ELSE Activity([b EXCEPT !.status[e.r] = e.kind], e)

OnDetach(b, e) ==
    LET removed == [b EXCEPT !.frame = FALSE]
    IN IF "sub" \in Requests /\ b.ledger["sub"] = "pending"
       THEN Activity([removed EXCEPT !.ledger["sub"] = "detached"], e) ELSE removed

Enter(b, e) ==
    CASE e.kind = "start"  -> OnStart(b, e)
      [] e.kind = "finish" -> OnEnd(b, e, "finished")
      [] e.kind = "fail"   -> OnEnd(b, e, "failed")
      [] e.kind = "attach" -> [b EXCEPT !.frame = TRUE]
      [] e.kind = "detach" -> OnDetach(b, e)
      [] OTHER             -> OnAnswer(b, e)

\* The first batch that tells of the document the session began with says when
\* the navigation began; what was entered before that is taken out again.
FindNavigation(b, events) ==
    LET starts == {e.stamp : e \in {f \in events :
                     f.kind = "start" /\ f.r \in Documents /\ Loader(f.r) = b.initial}}
        first == CHOOSE n \in starts : \A m \in starts : n <= m
        outside(r) == \/ r = "old" /\ b.ledger[r] # "unseen"
                      \/ \E i \in DOMAIN b.documents :
                           b.documents[i].r = r /\ b.documents[i].stamp < first
    IN IF b.navigation # Never \/ starts = {} THEN b
       ELSE [b EXCEPT !.navigation = first,
               !.ledger = [r \in Requests |-> IF outside(r) THEN "prior" ELSE b.ledger[r]]]
-----------------------------------------------------------------------------
(* The session                                                             *)

\* The navigation has returned: the session takes the tree of frames.
Begin ==
    /\ pc = "navigate" /\ loader # "none"
    /\ pc' = "log" /\ waits' = 1
    /\ book' = [EmptyBook EXCEPT !.main = loader, !.initial = loader,
                                 !.frame = (iframe = "there")]
    /\ UNCHANGED <<now, browserVars, due, reason>>

\* get_log: the log of the driver may be behind, here by all it has or by its
\* latest event.
ReadLog ==
    /\ pc = "log"
    /\ \E n \in {0, Len(log) - 1, Len(log)} \cap (0..Len(log)) : due' = n
    /\ pc' = "cdp"
    /\ UNCHANGED <<now, browserVars, book, reason, waits>>

\* The events of the policy connection are complete up to now.
GatherEvents ==
    /\ pc = "cdp"
    /\ book' = FindNavigation(book, {log[i] : i \in 1..due} \cup {cdp[i] : i \in 1..Len(cdp)})
    /\ pc' = "read"
    /\ UNCHANGED <<now, browserVars, due, reason, waits>>

\* for message in messages: those of the log first.
EnterLog ==
    /\ pc = "read" /\ due > 0
    /\ book' = Enter(book, Head(log))
    /\ log' = Tail(log) /\ due' = due - 1
    /\ UNCHANGED <<now, page, truth, answer, hops, loader, iframe, active, stamp,
                   cdp, pc, reason, waits>>

EnterCdp ==
    /\ pc = "read" /\ due = 0 /\ cdp # <<>>
    /\ book' = Enter(book, Head(cdp))
    /\ cdp' = Tail(cdp)
    /\ UNCHANGED <<now, page, truth, answer, hops, loader, iframe, active, stamp,
                   log, pc, due, reason, waits>>

Pending(b) == {r \in Requests : b.ledger[r] = "pending"}

\* Main documents of this navigation: items of documents.
InForce(b) == {i \in 1..Len(b.documents) : ~BeforeNavigation(b, b.documents[i].stamp)}

\* Mutant: the first main document decides.
TargetFirst(b) ==
    LET first == CHOOSE i \in InForce(b) : \A j \in InForce(b) : i <= j
        target == IF InForce(b) = {} THEN <<>> ELSE <<b.documents[first]>>
        at == IF target = b.target THEN b.completedAt ELSE Never
        d == target[1].r
        complete == target # <<>> /\ b.ledger[d] = "finished" /\ b.status[d] = "ok"
    IN [b EXCEPT !.target = target,
                 !.completedAt = IF complete /\ at = Never THEN b.finishedAt[d] ELSE at]

\* what the latest main document is, with the time it was complete
Target(b) ==
    LET latest == CHOOSE i \in InForce(b) : \A j \in InForce(b) : j <= i
        target == IF InForce(b) = {} THEN <<>> ELSE <<b.documents[latest]>>
        at == IF target = b.target THEN b.completedAt ELSE Never
        d == target[1].r
        complete == target # <<>> /\ b.ledger[d] = "finished" /\ b.status[d] = "ok"
    IN [b EXCEPT !.target = target,
                 !.completedAt = IF complete /\ at = Never THEN b.finishedAt[d] ELSE at]

Failed(b) == /\ b.target # <<>>
             /\ \/ b.ledger[b.target[1].r] = "failed"
                \/ b.status[b.target[1].r] = "bad"

Complete(b) == /\ b.target # <<>>
               /\ b.ledger[b.target[1].r] = "finished"
               /\ b.status[b.target[1].r] = "ok"

Reason(b) ==
    CASE Pending(b) = {} /\ now - b.last >= IdleSeconds -> "network_idle"
      [] now - b.last >= StallSeconds                    -> "resource_stall"
      [] now - b.completedAt >= ResourceSeconds          -> "resource_timeout"
      [] OTHER                                           -> "none"

Stop(why) ==
    /\ pc' = why /\ reason' = "none"

\* All is entered: the session decides.
Decide ==
    /\ pc = "read" /\ due = 0 /\ cdp = <<>>
    /\ book' = Target([book EXCEPT !.last = IF @ = Never THEN now ELSE @])
    /\ IF Failed(book') THEN Stop("failed")
       ELSE IF Complete(book') /\ Reason(book') # "none"
       THEN pc' = "loaded" /\ reason' = Reason(book')
       ELSE IF book'.completedAt = Never /\ now >= NavigationSeconds
       THEN Stop("timeout")
       ELSE pc' = "log" /\ UNCHANGED reason
    /\ UNCHANGED <<now, browserVars, due, waits>>

\* NetworkIdleTracker.wait once more, before the capture is stopped: the same
\* session goes on.
Recheck ==
    /\ pc = "loaded" /\ waits < Waits
    /\ waits' = waits + 1
    /\ pc' = "log" /\ reason' = "none"
    /\ UNCHANGED <<now, browserVars, due, book>>

Session == Begin \/ ReadLog \/ GatherEvents \/ EnterLog \/ EnterCdp \/ Decide \/ Recheck
IdleNext == Browser \/ Tick \/ Session

IdleSpec == IdleInit /\ [][IdleNext]_idleVars
-----------------------------------------------------------------------------
(* Properties                                                              *)

States == {"unseen", "pending", "finished", "failed", "detached", "prior", "ignored"}

IdleTypeOK ==
    /\ now \in 0..MaxTime /\ active \in 0..MaxTime
    /\ truth \in [Requests -> {"no", "run", "done", "failed", "gone"}]
    /\ answer \in [Documents -> {"none", "ok", "bad"}]
    /\ hops \in [Documents -> 0..1]
    /\ loader \in {"none", "first", "second"}
    /\ iframe \in {"no", "there", "removed"}
    /\ pc \in {"navigate", "log", "cdp", "read", "loaded", "failed", "timeout"}
    /\ due \in 0..Len(log)
    /\ reason \in {"none", "network_idle", "resource_stall", "resource_timeout"}
    /\ waits \in 0..Waits
    /\ book.ledger \in [Requests -> States]
    /\ book.status \in [Documents -> {"none", "ok", "bad"}]
    /\ book.last \in Never..MaxTime
    /\ book.completedAt \in Never..MaxTime

Loads == pc # "loaded" /\ pc' = "loaded"

\* When the wait ends for network idle, no request of the page is in flight,
\* and none did anything for IdleSeconds: however the two streams were
\* interleaved, whichever iframe came and went, and wherever the page sent the
\* browser on to.
IdleIsQuiet ==
    [][Loads /\ reason' = "network_idle" =>
         /\ \A r \in Requests : OfThePage(r) => truth[r] # "run"
         /\ now - active >= IdleSeconds]_idleVars

\* When the wait ends, for any of its reasons, the document the browser was
\* last sent to is there: started, answered with success and complete.
LoadedIsComplete ==
    [][Loads => \E d \in Documents :
         /\ truth[d] = "done" /\ answer[d] = "ok"
         /\ \A e \in Documents \ {d} : e = "doc" \/ truth[e] = "no"]_idleVars

\* A request of the page that was left neither counts for the new page nor
\* holds its capture up.
OldPageLeftOut ==
    "old" \in Requests /\ book.navigation # Never =>
        book.ledger["old"] \in {"unseen", "prior"}

\* A request the session takes to be in flight is, unless the policy
\* connection still holds the event that ends it: that the log tells of a
\* request once more brings none back that is over.
PendingIsReal ==
    \A r \in Requests : book.ledger[r] = "pending" /\ Over(r) =>
        \E i \in DOMAIN cdp : cdp[i].kind \in {"finish", "fail", "detach"} /\ cdp[i].r = r

\* The book of requests is true.
BookIsTrue == IdleTypeOK /\ OldPageLeftOut /\ PendingIsReal

=============================================================================
