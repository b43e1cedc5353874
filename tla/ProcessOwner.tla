---------------------------- MODULE ProcessOwner ----------------------------
(***************************************************************************)
(* LinuxProcessOwner of process_ownership.py: the family of one child of   *)
(* the Worker (a task command) or of the fetcher (a browser driver), and   *)
(* terminate, which looks the family up in /proc and signals it until      *)
(* nothing of it is left.                                                  *)
(*                                                                         *)
(* Around it runs the host: the family forks, leaves its session, retitles *)
(* itself and exits, and a number that is free is given to a new process.  *)
(* Nothing of the owner is atomic with respect to that: it lists /proc,    *)
(* reads the entries one after the other, and signals later.               *)
(***************************************************************************)
EXTENDS Integers, FiniteSets

CONSTANTS
    Pids,        \* process numbers
    Leader,      \* number of the child that was launched
    MaxBorn,     \* bound: processes started, the child included
    MaxCalls     \* bound: calls of terminate

ASSUME ProcessOwnerAssumption ==
    /\ Leader \in Pids
    /\ MaxBorn \in Nat \ {0}
    /\ MaxCalls \in Nat

NoIdentity == 0
NoProcess == [state |-> "free", identity |-> NoIdentity, owned |-> FALSE,
              group |-> FALSE, marked |-> FALSE, sealed |-> FALSE, late |-> FALSE]
-----------------------------------------------------------------------------
VARIABLES
    table,      \* pid -> process; its identity is the start time of stat
    born,       \* processes started so far; the last one has this identity
    binding,    \* [bound, identity]: _binding
    closed,     \* _closed
    call,       \* the call of terminate: see Idle below
    calls,
    hits        \* processes signalled so far, as they were then

vars == <<table, born, binding, closed, call, calls, hits>>

Lives(p) == table[p].state = "run"
Identity(p) == IF Lives(p) THEN table[p].identity ELSE NoIdentity

\* A process: "owned" says that it is of the family, "group" that its session
\* (or group) has the number Leader, "marked" that its environment holds the
\* marker, "sealed" that it is ours and its environment cannot be read, "late"
\* that it was started after the latest lookup had begun.
Process(identity, owned, group, marked, sealed) ==
    [state |-> "run", identity |-> identity, owned |-> owned, group |-> group,
     marked |-> marked, sealed |-> sealed, late |-> TRUE]

Idle == [pc |-> "idle", signal |-> "TERM", listed |-> {}, found |-> {},
         trusted |-> FALSE, sent |-> {}, target |-> <<>>, pinned |-> NoIdentity]

Init ==
    /\ table = [p \in Pids |->
                  IF p = Leader
                  THEN Process(1, TRUE, TRUE, TRUE, FALSE) ELSE NoProcess]
    /\ born = 1
    /\ binding = [bound |-> FALSE, identity |-> NoIdentity]
    /\ closed = FALSE /\ call = Idle /\ calls = 0
    /\ hits = {}

HostOnly == UNCHANGED <<binding, closed, call, calls, hits>>
-----------------------------------------------------------------------------
(* The host                                                                *)

\* The kernel gives out no number that a process or a session still has.
NumberIsFree(q) ==
    /\ table[q] = NoProcess
    /\ q = Leader => \A r \in Pids : ~table[r].group

\* A process of the family starts another one, which inherits its session,
\* environment and seal.
Fork(p) ==
    /\ Lives(p) /\ table[p].owned /\ born < MaxBorn
    /\ \E q \in Pids :
         /\ NumberIsFree(q)
         /\ table' = [table EXCEPT ![q] = Process(born + 1, TRUE,
                                        table[p].group, table[p].marked, table[p].sealed)]
    /\ born' = born + 1
    /\ HostOnly

\* A helper leaves the session, or Chromium writes its title over its
\* environment; no process of the family does both.  A sandboxed one forbids to
\* read its environment.
Disguise(p) ==
    /\ Lives(p) /\ table[p].owned
    /\ \/ /\ table[p].group /\ table[p].marked /\ p # Leader
          /\ table' = [table EXCEPT ![p].group = FALSE]
       \/ /\ table[p].group /\ table[p].marked
          /\ table' = [table EXCEPT ![p].marked = FALSE]
       \/ /\ p # Leader /\ ~table[p].sealed
          /\ table' = [table EXCEPT ![p].sealed = TRUE]
    /\ UNCHANGED born
    /\ HostOnly

\* A process ends, by itself or by a signal it has received; until it is
\* reaped it is a zombie, which keeps its number.
Exit(p) ==
    /\ Lives(p)
    /\ table' = [table EXCEPT ![p].state = "zombie"]
    /\ UNCHANGED born
    /\ HostOnly

\* The child itself is reaped by the process that launched it, which binds
\* before it polls.
Reap(p) ==
    /\ table[p].state = "zombie"
    /\ p = Leader => binding.bound
    /\ table' = [table EXCEPT ![p] = NoProcess]
    /\ UNCHANGED born
    /\ HostOnly

\* A foreign process is started, sealed or not; if it gets the number of the
\* child, it may open a session of that number.
Foreign ==
    /\ born < MaxBorn
    /\ \E q \in Pids, session \in BOOLEAN, sealed \in BOOLEAN :
         /\ session => q = Leader
         /\ NumberIsFree(q)
         /\ table' = [table EXCEPT ![q] =
                        Process(born + 1, FALSE, session, FALSE, sealed)]
    /\ born' = born + 1
    /\ HostOnly
-----------------------------------------------------------------------------
(* The owner                                                               *)

OwnerOnly == UNCHANGED <<table, born>>

\* bind: the child may be gone by now.
Bind ==
    /\ ~binding.bound
    /\ binding' = [bound |-> TRUE, identity |-> Identity(Leader)]
    /\ OwnerOnly
    /\ UNCHANGED <<closed, call, calls, hits>>

\* The lookup begins: the session is trusted unless another process has the
\* number of the child.  A closed owner finds nothing.
Members(c) == [c EXCEPT
    !.pc = IF closed THEN "decide" ELSE "scan",
    !.found = {},
    !.trusted = Identity(Leader) \in {NoIdentity, binding.identity}]

\* What is there when a lookup begins is not late.
LookupBegins == table' = [p \in Pids |->
    IF closed THEN table[p] ELSE [table[p] EXCEPT !.late = FALSE]]

\* terminate
Terminate ==
    /\ binding.bound /\ call.pc = "idle" /\ calls < MaxCalls
    /\ calls' = calls + 1
    /\ call' = Members(Idle)
    /\ LookupBegins
    /\ UNCHANGED <<born, binding, closed, hits>>

\* The names in /proc are read first, the entries afterwards.
List ==
    /\ call.pc = "scan"
    /\ LET listed == {p \in Pids : table[p].state # "free"}
       IN call' = [call EXCEPT !.pc = IF listed = {} THEN "decide" ELSE "read",
                               !.listed = listed]
    /\ OwnerOnly /\ UNCHANGED <<binding, closed, calls, hits>>

\* Mutant: a helper that left the session is not looked for by its marker.
InFamilyBySession(p) == (call.trusted /\ table[p].group)

InFamily(p) == (call.trusted /\ table[p].group) \/ table[p].marked

\* The environment is read unless the session says enough, and the one of a
\* sealed process of ours cannot be: the lookup, and terminate with it, raises.
Unreadable(p) == Lives(p) /\ ~(call.trusted /\ table[p].group) /\ table[p].sealed

Read(p) ==
    /\ call.pc = "read" /\ p \in call.listed /\ ~Unreadable(p)
    /\ call' = [call EXCEPT
         !.listed = @ \ {p},
         !.pc = IF call.listed = {p} THEN "decide" ELSE @,
         !.found = IF Lives(p) /\ InFamily(p)
                   THEN @ \cup {<<p, Identity(p)>>} ELSE @]
    /\ OwnerOnly /\ UNCHANGED <<binding, closed, calls, hits>>

\* terminate raises, and neither reports nor closes anything.
Raise ==
    /\ call' = Idle
    /\ OwnerOnly /\ UNCHANGED <<binding, closed, calls, hits>>

ReadFails(p) ==
    /\ call.pc = "read" /\ p \in call.listed /\ Unreadable(p)
    /\ Raise

\* A descriptor pins the process that has the number now.
Open ==
    /\ call.pc \in {"decide", "signal"}
    /\ \E t \in call.found \ call.sent :
         call' = IF table[t[1]] = NoProcess
                 THEN [call EXCEPT !.sent = @ \cup {t}, !.pc = "signal"]
                 ELSE [call EXCEPT !.sent = @ \cup {t}, !.pc = "check", !.target = t,
                                   !.pinned = table[t[1]].identity]
    /\ OwnerOnly /\ UNCHANGED <<binding, closed, calls, hits>>

\* the descriptor is closed
Signalled == [call EXCEPT !.pc = "signal", !.target = <<>>, !.pinned = NoIdentity]

\* Mutant: the number is signalled whoever has it by now.
CheckNothing ==
    /\ call.pc = "check"
    /\ call' = [call EXCEPT !.pc = "send"]
    /\ OwnerOnly /\ UNCHANGED <<binding, closed, calls, hits>>

\* The number has still the process of the lookup, or nothing is sent.
Check ==
    /\ call.pc = "check"
    /\ call' = IF Identity(call.target[1]) = call.target[2]
               THEN [call EXCEPT !.pc = "send"] ELSE Signalled
    /\ OwnerOnly /\ UNCHANGED <<binding, closed, calls, hits>>

\* What is signalled, as a reader of "hits" needs it: was it of the family, was
\* it the process the lookup had read, was that started after the lookup had
\* begun, has it the number of the child.
Hit(p) == [owned |-> table[p].owned, late |-> table[p].late,
           found |-> <<p, table[p].identity>> \in call.found, leads |-> p = Leader]

\* The signal reaches the pinned process, if it is still there.
Send ==
    /\ call.pc = "send"
    /\ LET p == call.target[1]
       IN hits' = IF Lives(p) /\ table[p].identity = call.pinned
                  THEN hits \cup {Hit(p)} ELSE hits
    /\ call' = Signalled
    /\ OwnerOnly /\ UNCHANGED <<binding, closed, calls>>

\* A foreign process may be somebody else's, who is not ours to signal.
SendFails ==
    /\ call.pc = "send"
    /\ Lives(call.target[1]) /\ ~table[call.target[1]].owned
    /\ Raise

\* All that was found has been signalled: look again.
Again ==
    /\ call.pc \in {"decide", "signal"}
    /\ call.found # {} /\ call.found \subseteq call.sent
    /\ call' = Members(call)
    /\ LookupBegins
    /\ UNCHANGED <<born, binding, closed, calls, hits>>

Return(remaining) ==
    /\ call' = Idle
    /\ closed' = (remaining = {})
    /\ OwnerOnly /\ UNCHANGED <<binding, calls, hits>>

Done ==
    /\ call.pc = "decide" /\ call.found = {}
    /\ Return({})

\* The time of a signal is up when, after a round of it, a lookup still finds
\* something.
Expire ==
    /\ call.pc = "decide" /\ call.found # {} /\ call.sent # {}
    /\ \/ /\ call.signal = "TERM"
          /\ call' = [call EXCEPT !.signal = "KILL", !.sent = {}]
          /\ OwnerOnly /\ UNCHANGED <<binding, closed, calls, hits>>
       \/ call.signal = "KILL" /\ Return(call.found)
-----------------------------------------------------------------------------
Host == Foreign \/ \E p \in Pids : Fork(p) \/ Disguise(p) \/ Exit(p) \/ Reap(p)
Owner ==
    \/ Bind \/ Terminate \/ List \/ Open \/ Check \/ Send \/ SendFails
    \/ Again \/ Done \/ Expire
    \/ \E p \in Pids : Read(p) \/ ReadFails(p)

Next == Host \/ Owner

Spec == Init /\ [][Next]_vars
-----------------------------------------------------------------------------
(* Properties                                                              *)

Processes == [state : {"free", "run", "zombie"}, identity : 0..MaxBorn,
              owned : BOOLEAN, group : BOOLEAN, marked : BOOLEAN, sealed : BOOLEAN,
              late : BOOLEAN]
Hits == [owned : BOOLEAN, late : BOOLEAN, found : BOOLEAN, leads : BOOLEAN]

TypeOK ==
    /\ table \in [Pids -> Processes]
    /\ born \in 1..MaxBorn
    /\ binding \in [bound : BOOLEAN, identity : 0..MaxBorn]
    /\ closed \in BOOLEAN
    /\ call \in [pc : {"idle", "scan", "read", "decide", "signal", "check", "send"},
                 signal : {"TERM", "KILL"}, listed : SUBSET Pids,
                 found : SUBSET (Pids \X (1..MaxBorn)), trusted : BOOLEAN,
                 sent : SUBSET (Pids \X (1..MaxBorn)),
                 target : {<<>>} \cup (Pids \X (1..MaxBorn)),
                 pinned : 0..MaxBorn]
    /\ calls \in 0..MaxCalls
    /\ hits \subseteq Hits

\* No process outside the family is signalled, although the numbers of the
\* family are given out again while terminate is looking and signalling
\* (_signal, members).  The exception is the process the lookup itself has
\* found, because it took the number of the child, and opened a session,
\* between the two reads of that lookup.
SignalsOnlyFamily ==
    \A h \in hits : h.owned \/ (h.found /\ h.late /\ h.leads)

\* When terminate has reported that nothing remains, nothing of the family is
\* left but what was started while that last lookup was reading: a helper whose
\* parent had gone, or which had left the session, or had lost the marker, was
\* found (members, terminate).
ClosedMeansGone ==
    closed => \A p \in Pids : Lives(p) /\ table[p].owned => table[p].late
=============================================================================
