----------------------------- MODULE CachePolicy -----------------------------
(***************************************************************************)
(* ChromiumCachePolicy of browser_cache.py: every target of the browser    *)
(* (page, iframe, worker) is stopped by the browser when it is created,    *)
(* until a session has switched its caches off, installed the exclusions   *)
(* of the page and let it go.                                              *)
(*                                                                         *)
(* Three threads share the state: the main thread (start, set_blocked_urls,*)
(* check, close), the receiver, which reads the messages of the browser,   *)
(* and the initializer, which configures new targets one after the other.  *)
(* A request is sent on the connection and its sender waits for the reply, *)
(* which only the receiver can bring.  The commands of one target that     *)
(* switch its caches off are one command here, and so are the rules.       *)
(***************************************************************************)
EXTENDS Integers, Sequences, FiniteSets

CONSTANTS
    Targets,
    Pages,       \* those of them that are pages or iframes; the others are
                 \* service workers
    FirstPage,   \* the page the browser starts with
    MaxTargets,  \* bound: targets there ever are
    MaxFaults,   \* bound: errors, timeouts, a lost connection
    MaxCalls     \* bound: calls of set_blocked_urls and check

NoTarget == "none"

ASSUME CachePolicyAssumption ==
    /\ IsFiniteSet(Targets) /\ NoTarget \notin Targets
    /\ FirstPage \in Pages /\ Pages \subseteq Targets
    /\ MaxTargets \in Nat /\ MaxFaults \in Nat /\ MaxCalls \in Nat

Threads == {"main", "init"}
-----------------------------------------------------------------------------
VARIABLES
    \* the browser
    life,        \* target -> "none", "paused", "running", "gone"
    applied,     \* targets whose caches are off
    rules,       \* targets that have the exclusions
    auto,        \* auto-attach is on
    held,        \* requests stopped by the exclusions: target -> "none", "held", "answered"
    wire, inbox, \* commands and messages on the connection
    \* the policy
    known,       \* _targets: target -> [seen, initialized, detached, paused]
    blocked,     \* _blocked_urls is not empty
    cacheErrors, \* _errors is not empty
    connected, closing,
    lock,        \* _block_config_lock
    work,        \* _initializations
    reply,       \* thread -> "none", "waiting", "ok", "error"
    main,        \* [pc, todo]
    init,        \* [pc, target, failed] of the initializer
    faults, calls

browserVars == <<life, applied, rules, auto, held>>
connVars == <<wire, inbox, reply>>
stateVars == <<known, blocked, cacheErrors, connected, closing, lock, work>>
countVars == <<faults, calls>>
cacheVars == <<browserVars, connVars, stateVars, main, init, countVars>>

Unknown == [seen |-> FALSE, initialized |-> FALSE, detached |-> FALSE, paused |-> FALSE]

CacheInit ==
    /\ life = [t \in Targets |-> IF t = FirstPage THEN "running" ELSE "none"]
    /\ applied = {} /\ rules = {} /\ auto = FALSE
    /\ held = [t \in Pages |-> "none"]
    /\ wire = <<>> /\ inbox = <<>>
    /\ known = [t \in Targets |-> Unknown]
    /\ blocked = FALSE /\ cacheErrors = FALSE /\ connected = TRUE /\ closing = FALSE
    /\ lock = "free" /\ work = <<>>
    /\ reply = [w \in Threads |-> "none"]
    /\ main = [pc |-> "start", todo |-> {}]
    /\ init = [pc |-> "take", target |-> NoTarget, failed |-> FALSE]
    /\ faults = 0 /\ calls = 0

Fault == faults < MaxFaults /\ faults' = faults + 1
Command(who, does, t) == [who |-> who, does |-> does, target |-> t]
Event(tells, t) == [tells |-> tells, target |-> t, who |-> "nobody", ok |-> TRUE]
-----------------------------------------------------------------------------
(* The browser                                                             *)

BrowserOnly == UNCHANGED <<stateVars, reply, main, init, calls>>

\* A page, an iframe or a worker is created; with auto-attach it is stopped
\* and reported.
Create(t) ==
    /\ life[t] = "none" /\ Cardinality({u \in Targets : life[u] # "none"}) < MaxTargets
    /\ life' = [life EXCEPT ![t] = IF auto THEN "paused" ELSE "running"]
    /\ inbox' = IF auto THEN Append(inbox, Event("paused", t)) ELSE inbox
    /\ UNCHANGED <<applied, rules, auto, held, wire, faults>> /\ BrowserOnly

Destroy(t) ==
    /\ life[t] \in {"paused", "running"} /\ t # FirstPage
    /\ life' = [life EXCEPT ![t] = "gone"]
    /\ inbox' = IF auto THEN Append(inbox, Event("detached", t)) ELSE inbox
    /\ UNCHANGED <<applied, rules, auto, held, wire, faults>> /\ BrowserOnly

\* A request that the exclusions may concern is stopped.
Hold(t) ==
    /\ t \in rules /\ life[t] = "running" /\ held[t] = "none" /\ auto
    /\ held' = [held EXCEPT ![t] = "held"]
    /\ inbox' = Append(inbox, Event("held", t))
    /\ UNCHANGED <<life, applied, rules, auto, wire, faults>> /\ BrowserOnly

Running(ts) == [t \in Targets |-> IF t \in ts /\ life[t] = "paused" THEN "running" ELSE life[t]]

LetGo(ts) == [t \in Pages |-> IF t \in ts /\ held[t] = "held" THEN "answered" ELSE held[t]]

\* The browser ends the sessions, and with them all they have set and stopped.
EndSessions ==
    /\ life' = Running(Targets) /\ held' = LetGo(Pages)
    /\ applied' = {} /\ rules' = {} /\ auto' = FALSE

\* what a command does
Effect(c) ==
    /\ life' = IF c.does \in {"run", "policy_run"} THEN Running({c.target}) ELSE life
    /\ applied' = IF c.does \in {"policy", "policy_run"} THEN applied \cup {c.target} ELSE applied
    /\ rules' = CASE c.does = "rules"    -> rules \cup {c.target}
                  [] c.does = "no_rules" -> rules \ {c.target}
                  [] OTHER               -> rules
    /\ auto' = (auto \/ c.does = "auto_on")
    /\ held' = IF c.does \in {"answer", "no_rules"} THEN LetGo({c.target}) ELSE held

\* the running targets that are reported when auto-attach is switched on
Reported(c) ==
    LET existing == {t \in Targets : life[t] = "running"}
    IN IF c.does = "auto_on" /\ ~auto
       THEN CHOOSE s \in [1..Cardinality(existing) -> {Event("running", t) : t \in existing}] :
              \A i, j \in DOMAIN s : s[i] = s[j] => i = j
       ELSE <<>>

\* The browser takes one command and replies; a target that is gone makes it
\* an error, and so may anything else.
Serve ==
    /\ wire # <<>> /\ connected
    /\ LET c == Head(wire)
           answer(ok) == [tells |-> "reply", target |-> c.target, who |-> c.who, ok |-> ok]
           gone == c.target # NoTarget /\ life[c.target] = "gone"
       IN \/ /\ ~gone /\ UNCHANGED faults
             /\ IF c.does = "auto_off" THEN EndSessions ELSE Effect(c)
             /\ inbox' = inbox \o Reported(c) \o <<answer(TRUE)>>
          \/ /\ IF gone THEN UNCHANGED faults ELSE Fault
             /\ inbox' = Append(inbox, answer(FALSE)) /\ UNCHANGED browserVars
    /\ wire' = Tail(wire)
    /\ BrowserOnly

\* The connection breaks: the receiver fails every request that waits.
Lose ==
    /\ connected /\ ~closing /\ Fault
    /\ connected' = FALSE /\ cacheErrors' = TRUE
    /\ reply' = [w \in Threads |-> IF reply[w] = "waiting" THEN "error" ELSE reply[w]]
    /\ wire' = <<>> /\ inbox' = <<>> /\ EndSessions
    /\ UNCHANGED <<known, blocked, closing, lock, work, main, init, calls>>

\* _request: what waits too long is given up; the command may still be served.
Timeout(w) ==
    /\ reply[w] = "waiting" /\ Fault
    /\ reply' = [reply EXCEPT ![w] = "error"]
    /\ wire' = [i \in DOMAIN wire |->
                  IF wire[i].who = w THEN [wire[i] EXCEPT !.who = "nobody"] ELSE wire[i]]
    /\ inbox' = [i \in DOMAIN inbox |->
                  IF inbox[i].who = w THEN [inbox[i] EXCEPT !.who = "nobody"] ELSE inbox[i]]
    /\ UNCHANGED <<browserVars, stateVars, main, init, calls>>
-----------------------------------------------------------------------------
(* The receiver: _receive_loop, _handle_event                              *)

\* Mutant: a stopped request of a target that is not initialized yet is overlooked.
ReceiveKnown ==
    /\ inbox # <<>> /\ connected
    /\ LET m == Head(inbox)
           t == m.target
           attaches == m.tells \in {"paused", "running"} /\ ~known[t].seen
       IN /\ known' = CASE attaches ->
                             [known EXCEPT ![t].seen = TRUE, ![t].paused = (m.tells = "paused")]
                        [] m.tells = "detached" /\ known[t].seen ->
                             [known EXCEPT ![t].detached = TRUE, ![t].paused = FALSE]
                        [] OTHER -> known
          /\ work' = CASE attaches         -> Append(work, <<"target", t>>)
                       [] m.tells = "held" /\ known[t].initialized -> Append(work, <<"request", t>>)
                       [] OTHER            -> work
          /\ reply' = IF m.tells = "reply" /\ m.who # "nobody"
                      THEN [reply EXCEPT ![m.who] = IF m.ok THEN "ok" ELSE "error"] ELSE reply
    /\ inbox' = Tail(inbox)
    /\ UNCHANGED <<browserVars, wire, blocked, cacheErrors, connected, closing, lock, main, init,
                   countVars>>

Receive ==
    /\ inbox # <<>> /\ connected
    /\ LET m == Head(inbox)
           t == m.target
           attaches == m.tells \in {"paused", "running"} /\ ~known[t].seen
       IN /\ known' = CASE attaches ->
                             [known EXCEPT ![t].seen = TRUE, ![t].paused = (m.tells = "paused")]
                        [] m.tells = "detached" /\ known[t].seen ->
                             [known EXCEPT ![t].detached = TRUE, ![t].paused = FALSE]
                        [] OTHER -> known
          /\ work' = CASE attaches         -> Append(work, <<"target", t>>)
                       [] m.tells = "held" -> Append(work, <<"request", t>>)
                       [] OTHER            -> work
          /\ reply' = IF m.tells = "reply" /\ m.who # "nobody"
                      THEN [reply EXCEPT ![m.who] = IF m.ok THEN "ok" ELSE "error"] ELSE reply
    /\ inbox' = Tail(inbox)
    /\ UNCHANGED <<browserVars, wire, blocked, cacheErrors, connected, closing, lock, main, init,
                   countVars>>

\* _request, up to the wait
Ask(w, does, t) ==
    /\ wire' = IF connected THEN Append(wire, Command(w, does, t)) ELSE wire
    /\ reply' = [reply EXCEPT ![w] = IF connected THEN "waiting" ELSE "error"]

AskNothing(w) == reply' = [reply EXCEPT ![w] = "none"] /\ UNCHANGED wire

Replied(w) == reply[w] \in {"ok", "error"}
-----------------------------------------------------------------------------
(* The initializer: _initialize_loop                                       *)

InitOnly == UNCHANGED <<browserVars, inbox, connected, closing, blocked, main, countVars>>

TakeTarget ==
    /\ init.pc = "take" /\ work # <<>> /\ Head(work)[1] = "target"
    /\ LET t == Head(work)[2]
       IN init' = IF known[t].detached \/ closing THEN init
                  ELSE [pc |-> "lock", target |-> t, failed |-> FALSE]
    /\ work' = Tail(work)
    /\ UNCHANGED <<wire, reply, known, cacheErrors, lock>> /\ InitOnly

\* the first commands of a target, under the lock
BeginTarget ==
    /\ init.pc = "lock" /\ lock = "free"
    /\ lock' = "init"
    /\ LET t == init.target
           waits == t \in Pages \/ ~known[t].paused
       IN /\ Ask("init", IF waits THEN "policy" ELSE "policy_run", t)
          /\ init' = [init EXCEPT !.pc = IF waits THEN "policy" ELSE "policy_run"]
    /\ UNCHANGED <<known, cacheErrors, work>> /\ InitOnly

\* Mutant: a target whose caches could not be switched off is taken for configured.
ConfiguredAnyway ==
    /\ init.pc = "policy" /\ Replied("init")
    /\ IF reply["init"] = "ok" /\ blocked /\ init.target \in Pages
       THEN Ask("init", "rules", init.target) /\ init' = [init EXCEPT !.pc = "rules"]
       ELSE AskNothing("init") /\ init' = [init EXCEPT !.pc = "finally",
                                                     !.failed = FALSE]
    /\ UNCHANGED <<known, cacheErrors, work, lock>> /\ InitOnly

Configured ==
    /\ init.pc = "policy" /\ Replied("init")
    /\ IF reply["init"] = "ok" /\ blocked /\ init.target \in Pages
       THEN Ask("init", "rules", init.target) /\ init' = [init EXCEPT !.pc = "rules"]
       ELSE AskNothing("init") /\ init' = [init EXCEPT !.pc = "finally",
                                                     !.failed = (reply["init"] = "error")]
    /\ UNCHANGED <<known, cacheErrors, work, lock>> /\ InitOnly

RulesSet ==
    /\ init.pc = "rules" /\ Replied("init")
    /\ AskNothing("init")
    /\ init' = [init EXCEPT !.pc = "finally", !.failed = (reply["init"] = "error")]
    /\ UNCHANGED <<known, cacheErrors, work, lock>> /\ InitOnly

\* A service worker gets its commands and its release in one go.
WorkerConfigured ==
    /\ init.pc = "policy_run" /\ Replied("init")
    /\ AskNothing("init")
    /\ init' = [init EXCEPT !.pc = "finally", !.failed = (reply["init"] = "error")]
    /\ known' = IF reply["init"] = "ok" THEN [known EXCEPT ![init.target].paused = FALSE] ELSE known
    /\ UNCHANGED <<cacheErrors, work, lock>> /\ InitOnly

\* finally: a target that still waits is let go, configured or not.
Release ==
    /\ init.pc = "finally"
    /\ LET k == known[init.target]
       IN IF k.paused /\ ~k.detached /\ connected
          THEN Ask("init", "run", init.target) /\ init' = [init EXCEPT !.pc = "released"]
          ELSE AskNothing("init") /\ init' = [init EXCEPT !.pc = "record"]
    /\ UNCHANGED <<known, cacheErrors, work, lock>> /\ InitOnly

Released ==
    /\ init.pc = "released" /\ Replied("init")
    /\ AskNothing("init")
    /\ init' = [init EXCEPT !.pc = "record", !.failed = @ \/ reply["init"] = "error"]
    /\ UNCHANGED <<known, cacheErrors, work, lock>> /\ InitOnly

Record ==
    /\ init.pc = "record"
    /\ LET t == init.target
       IN /\ known' = [known EXCEPT ![t].paused = FALSE, ![t].initialized = ~init.failed]
          /\ cacheErrors' = (cacheErrors \/ (init.failed /\ ~known[t].detached /\ ~closing))
    /\ init' = [pc |-> "take", target |-> NoTarget, failed |-> FALSE]
    /\ lock' = "free"
    /\ UNCHANGED <<wire, reply, work>> /\ InitOnly

\* a request that was stopped is refused or goes on
TakeRequest ==
    /\ init.pc = "take" /\ work # <<>> /\ Head(work)[1] = "request"
    /\ Ask("init", "answer", Head(work)[2])
    /\ init' = [init EXCEPT !.pc = "answer"]
    /\ work' = Tail(work)
    /\ UNCHANGED <<known, cacheErrors, lock>> /\ InitOnly

Answered ==
    /\ init.pc = "answer" /\ Replied("init")
    /\ AskNothing("init")
    /\ cacheErrors' = (cacheErrors \/ (reply["init"] = "error" /\ ~closing))
    /\ init' = [init EXCEPT !.pc = "take"]
    /\ UNCHANGED <<known, work, lock>> /\ InitOnly

Initializer ==
    \/ TakeTarget \/ BeginTarget \/ Configured \/ RulesSet \/ WorkerConfigured
    \/ Release \/ Released \/ Record \/ TakeRequest \/ Answered
-----------------------------------------------------------------------------
(* The main thread                                                         *)

MainOnly == UNCHANGED <<browserVars, inbox, known, work, init>>
MainAt(pc) == main.pc = pc
Goto(pc) == main' = [pc |-> pc, todo |-> {}]
Keep == UNCHANGED <<cacheErrors, connected, closing, blocked, lock, countVars>>

Covered(ts) == \A t \in ts : known[t].initialized \/ known[t].detached
Seen == {t \in Targets : known[t].seen}

\* start: the sessions, the targets there are, and their coverage
StartAttach ==
    /\ MainAt("start")
    /\ Ask("main", "auto_on", NoTarget) /\ Goto("start_attached")
    /\ Keep /\ MainOnly

StartList ==
    /\ MainAt("start_attached") /\ Replied("main")
    /\ IF reply["main"] = "ok"
       THEN Ask("main", "targets", NoTarget) /\ Goto("start_listed")
       ELSE AskNothing("main") /\ Goto("close")
    /\ Keep /\ MainOnly

StartListed ==
    /\ MainAt("start_listed") /\ Replied("main")
    /\ AskNothing("main")
    /\ IF reply["main"] = "ok"
       THEN main' = [pc |-> "start_wait",
                     todo |-> {t \in Targets : life[t] \in {"running", "paused"}}]
       ELSE Goto("close")
    /\ Keep /\ MainOnly

StartWait ==
    /\ MainAt("start_wait")
    /\ \/ Covered(main.todo) /\ Ask("main", "targets", NoTarget) /\ Goto("start_check")
       \/ ~Covered(main.todo) /\ (cacheErrors \/ ~connected) /\ AskNothing("main") /\ Goto("close")
    /\ Keep /\ MainOnly

\* check: a round trip brings in what the browser has told before; then every
\* session it told of must be initialized
CheckAsk ==
    /\ MainAt("ready") /\ calls < MaxCalls /\ calls' = calls + 1
    /\ Ask("main", "targets", NoTarget) /\ Goto("check")
    /\ UNCHANGED <<cacheErrors, connected, closing, blocked, lock, faults>> /\ MainOnly

CheckWait ==
    /\ main.pc \in {"start_check", "check"} /\ Replied("main")
    /\ AskNothing("main")
    /\ IF reply["main"] = "ok" THEN Goto(IF MainAt("check") THEN "check_wait" ELSE "start_check_wait")
       ELSE Goto(IF MainAt("check") THEN "failed" ELSE "close")
    /\ Keep /\ MainOnly

Passes == ~cacheErrors /\ connected /\ Covered(Seen)

CoveragePasses ==
    /\ main.pc \in {"check_wait", "start_check_wait"} /\ Passes
    /\ Goto("ready")
    /\ Keep /\ UNCHANGED <<wire, reply>> /\ MainOnly

CoverageRaises ==
    /\ main.pc \in {"check_wait", "start_check_wait"} /\ (cacheErrors \/ ~connected)
    /\ Goto(IF MainAt("check_wait") THEN "failed" ELSE "close")
    /\ Keep /\ UNCHANGED <<wire, reply>> /\ MainOnly

\* a wait for initializations is given up
GiveUp ==
    /\ main.pc \in {"start_wait", "start_check_wait", "check_wait"} /\ Fault
    /\ Goto(IF MainAt("check_wait") THEN "failed" ELSE "close")
    /\ UNCHANGED <<cacheErrors, connected, closing, blocked, lock, calls, wire, reply>> /\ MainOnly

\* Mutant: the exclusions change while a target is being configured.
SetRulesBeside ==
    /\ MainAt("ready") /\ calls < MaxCalls /\ calls' = calls + 1
    /\ lock' = "main" /\ blocked' = ~blocked
    /\ main' = [pc |-> "rules",
                todo |-> {t \in Pages : known[t].initialized /\ ~known[t].detached}]
    /\ UNCHANGED <<cacheErrors, connected, closing, faults, wire, reply>> /\ MainOnly

\* set_blocked_urls, for the targets that are initialized when it begins
SetRules ==
    /\ MainAt("ready") /\ lock = "free" /\ calls < MaxCalls /\ calls' = calls + 1
    /\ lock' = "main" /\ blocked' = ~blocked
    /\ main' = [pc |-> "rules",
                todo |-> {t \in Pages : known[t].initialized /\ ~known[t].detached}]
    /\ UNCHANGED <<cacheErrors, connected, closing, faults, wire, reply>> /\ MainOnly

SetRule ==
    /\ MainAt("rules") /\ reply["main"] = "none"
    /\ \E t \in main.todo :
         /\ Ask("main", IF blocked THEN "rules" ELSE "no_rules", t)
         /\ main' = [main EXCEPT !.todo = @ \ {t}]
    /\ Keep /\ MainOnly

RuleSet ==
    /\ MainAt("rules") /\ Replied("main")
    /\ AskNothing("main")
    /\ IF reply["main"] = "ok" THEN UNCHANGED <<main, cacheErrors, lock>>
       ELSE Goto("failed") /\ cacheErrors' = TRUE /\ lock' = "free"
    /\ UNCHANGED <<connected, closing, blocked, countVars>> /\ MainOnly

RulesDone ==
    /\ MainAt("rules") /\ reply["main"] = "none" /\ main.todo = {}
    /\ Goto("ready") /\ lock' = "free"
    /\ UNCHANGED <<cacheErrors, connected, closing, blocked, countVars, wire, reply>> /\ MainOnly

\* close: what waits is let go, then the sessions, then the connection
Close ==
    /\ main.pc \in {"ready", "failed", "close"}
    /\ main' = [pc |-> "close_run",
                todo |-> IF connected
                         THEN {t \in Targets : known[t].paused /\ ~known[t].detached} ELSE {}]
    /\ Keep /\ AskNothing("main") /\ MainOnly

CloseRun ==
    /\ MainAt("close_run") /\ reply["main"] # "waiting"
    /\ \/ \E t \in main.todo :
            /\ Ask("main", "run", t)
            /\ main' = [main EXCEPT !.todo = @ \ {t}]
       \/ main.todo = {} /\ Ask("main", "auto_off", NoTarget) /\ Goto("close_socket")
    /\ Keep /\ MainOnly

CloseSocket ==
    /\ MainAt("close_socket") /\ Replied("main")
    /\ closing' = TRUE /\ connected' = FALSE
    /\ reply' = [main |-> "none",
                 init |-> IF reply["init"] = "waiting" THEN "error" ELSE reply["init"]]
    /\ wire' = <<>> /\ inbox' = <<>> /\ EndSessions
    /\ Goto("closed")
    /\ UNCHANGED <<known, blocked, cacheErrors, lock, work, init, countVars>>

Main ==
    \/ StartAttach \/ StartList \/ StartListed \/ StartWait \/ CheckAsk \/ CheckWait
    \/ CoveragePasses \/ CoverageRaises \/ SetRules \/ SetRule \/ RuleSet \/ RulesDone
    \/ Close \/ CloseRun \/ CloseSocket

CacheNext ==
    \/ \E t \in Targets : Create(t) \/ Destroy(t)
    \/ \E t \in Pages : Hold(t)
    \/ Serve \/ Lose \/ Receive \/ GiveUp
    \/ \E w \in Threads : Timeout(w)
    \/ Initializer \/ Main

\* The main thread goes on with what it has begun; when it closes is open.
Proceed == Main /\ main.pc \notin {"ready", "failed", "close"}
Fairness ==
    WF_cacheVars(Serve) /\ WF_cacheVars(Receive) /\ WF_cacheVars(Initializer) /\ WF_cacheVars(Proceed)

CacheSpec == CacheInit /\ [][CacheNext]_cacheVars /\ Fairness
-----------------------------------------------------------------------------
(* Properties                                                              *)

MainPcs == {"start", "start_attached", "start_listed", "start_wait", "start_check",
            "start_check_wait", "ready", "check", "check_wait", "rules", "failed",
            "close", "close_run", "close_socket", "closed"}
InitPcs == {"take", "lock", "policy", "rules", "policy_run", "finally", "released",
            "record", "answer"}

CacheTypeOK ==
    /\ life \in [Targets -> {"none", "paused", "running", "gone"}]
    /\ applied \subseteq Targets /\ rules \subseteq Pages /\ auto \in BOOLEAN
    /\ held \in [Pages -> {"none", "held", "answered"}]
    /\ known \in [Targets -> [seen : BOOLEAN, initialized : BOOLEAN,
                             detached : BOOLEAN, paused : BOOLEAN]]
    /\ {blocked, cacheErrors, connected, closing} \subseteq BOOLEAN
    /\ lock \in {"free", "main", "init"}
    /\ reply \in [Threads -> {"none", "waiting", "ok", "error"}]
    /\ main.pc \in MainPcs /\ main.todo \subseteq Targets
    /\ init.pc \in InitPcs /\ init.target \in Targets \cup {NoTarget}

\* When start or check returns, every target that runs has its caches switched
\* off, and every page and iframe has the exclusions of the page, those that
\* were created while set_blocked_urls was at work included.
PassedIsCovered ==
    [][main'.pc = "ready" /\ main.pc \in {"check_wait", "start_check_wait"} =>
         \A t \in Targets : life[t] = "running" =>
            t \in applied /\ (t \in Pages => (t \in rules <=> blocked))]_cacheVars

\* While the policy is in use, a target that runs with its caches on is in the
\* hands of the initializer or has made every later check fail.
BareIsReported ==
    \A t \in Targets :
        /\ life[t] = "running" /\ t \notin applied
        /\ main.pc \in {"ready", "check", "check_wait", "rules"}
        => cacheErrors \/ init.target = t

\* What the browser has stopped goes on, a new target and a request alike, or
\* the policy has an error to report: whatever goes wrong, nothing waits for ever
\* for a release that nobody sends (the finally of _initialize_loop, close).
Stopped ==
    \/ \E t \in Targets : life[t] = "paused"
    \/ \E t \in Pages : held[t] = "held" /\ life[t] = "running"
StoppedGoesOn == Stopped ~> ~Stopped \/ cacheErrors
=============================================================================
