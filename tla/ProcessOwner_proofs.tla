------------------------ MODULE ProcessOwner_proofs ------------------------
(***************************************************************************)
(* Proofs about ProcessOwner: for any numbers, any number of processes and *)
(* of calls, only the family is signalled, and a closed owner has left     *)
(* nothing of it.                                                          *)
(***************************************************************************)
EXTENDS ProcessOwner, TLAPS

-----------------------------------------------------------------------------
(* The inductive invariant.                                                *)

\* A number is free, or has a process with an identity of its own; a marker or
\* the identity of the child means family, and what the family has is one of
\* both signs; a foreign process is in a session of the child's number only
\* with that number.
TableKnown ==
    \A p \in Pids :
        /\ table[p] = NoProcess \/ (table[p].state # "free" /\ table[p].identity \in 1..born)
        /\ (table[p].marked \/ table[p].identity = 1) => table[p].owned
        /\ table[p].owned => (table[p].group \/ table[p].marked)
        /\ table[p].group /\ ~table[p].owned => p = Leader

\* As long as the family has a process in the session, the number of the child
\* is given to nobody else.
SessionHoldsNumber ==
    (\E p \in Pids : table[p].group /\ table[p].owned) =>
        table[Leader] = NoProcess \/ table[Leader].identity = 1

\* The binding is the child, or nothing when it was gone by then.
BindingKnown ==
    /\ ~binding.bound => table[Leader].identity = 1 /\ call.pc = "idle"
    /\ binding.identity \in {NoIdentity, 1}
    /\ binding.bound /\ Lives(Leader) /\ table[Leader].identity = 1 => binding.identity = 1

\* While a lookup reads: in a trusted session a foreign process is a late one,
\* and a session that is not trusted has nobody of the family.
TrustKnown ==
    call.pc \in {"scan", "read"} =>
        \A p \in Pids :
            IF call.trusted
            THEN Lives(p) /\ table[p].group /\ ~table[p].owned => table[p].late
            ELSE ~(table[p].group /\ table[p].owned)

\* What the lookup has not passed over: everybody of the family who is not late
\* is found or still to be read.
NothingMissed ==
    call.pc \in {"read", "decide"} =>
        \A p \in Pids : Lives(p) /\ table[p].owned /\ ~table[p].late =>
            \/ call.pc = "read" /\ p \in call.listed
            \/ \E t \in call.found : t[1] = p

\* What was found is of the family, or it is late and has the number of the
\* child, as long as it is the same process.
FoundKnown ==
    \A t \in call.found :
        /\ t[2] <= born
        /\ Lives(t[1]) /\ table[t[1]].identity = t[2] =>
              table[t[1]].owned \/ (table[t[1]].late /\ t[1] = Leader)

\* The pinned process is the one that was found, or the number has gone to
\* another one before the check.
PinnedKnown ==
    /\ call.pc \in {"check", "send"} => call.target \in call.found
    /\ call.pc = "check" =>
          call.pinned = call.target[2] \/ table[call.target[1]].identity # call.target[2]
    /\ call.pc = "send" => call.pinned = call.target[2]

IInv ==
    /\ TypeOK
    /\ TableKnown /\ SessionHoldsNumber /\ BindingKnown
    /\ TrustKnown /\ NothingMissed /\ FoundKnown /\ PinnedKnown
    /\ SignalsOnlyFamily /\ ClosedMeansGone

-----------------------------------------------------------------------------
(* Facts the steps share.                                                  *)

USE DEF Processes

\* The entry of a process that has just been started.
LEMMA NewProcess ==
    ASSUME NEW i \in 1..MaxBorn, NEW o \in BOOLEAN, NEW g \in BOOLEAN, NEW m \in BOOLEAN,
           NEW x \in BOOLEAN
    PROVE  /\ Process(i, o, g, m, x) \in Processes
           /\ Process(i, o, g, m, x).state = "run" /\ Process(i, o, g, m, x).identity = i
           /\ Process(i, o, g, m, x).owned = o /\ Process(i, o, g, m, x).group = g
           /\ Process(i, o, g, m, x).marked = m /\ Process(i, o, g, m, x).late = TRUE
BY DEF Process

\* A free number has neither an identity nor a family.
LEMMA FreeNumber ==
    /\ NoProcess \in Processes
    /\ NoProcess.state = "free" /\ NoProcess.identity = 0
    /\ NoProcess.owned = FALSE /\ NoProcess.group = FALSE /\ NoProcess.marked = FALSE
BY ProcessOwnerAssumption DEF NoProcess, NoIdentity

\* The states of a call, and that of none.
Calls == [pc : {"idle", "scan", "read", "decide", "signal", "check", "send"},
          signal : {"TERM", "KILL"}, listed : SUBSET Pids,
          found : SUBSET (Pids \X (1..MaxBorn)), trusted : BOOLEAN,
          sent : SUBSET (Pids \X (1..MaxBorn)),
          target : {<<>>} \cup (Pids \X (1..MaxBorn)),
          pinned : 0..MaxBorn]

LEMMA IdleTyped == Idle \in Calls
<1>1. 0 \in 0..MaxBorn
  BY ProcessOwnerAssumption
<1> QED
  BY <1>1 DEF Idle, Calls, NoIdentity

\* The invariant holds initially: there is the child and nobody else.
LEMMA InitInv == Init => IInv
<1> SUFFICES ASSUME Init PROVE IInv
  OBVIOUS
<1> USE ProcessOwnerAssumption, FreeNumber
<1>1. /\ \A p \in Pids : table[p] = IF p = Leader THEN Process(1, TRUE, TRUE, TRUE, FALSE) ELSE NoProcess
      /\ Leader \in Pids /\ 1 \in 1..MaxBorn
  BY DEF Init
<1>2. /\ table[Leader].state = "run" /\ table[Leader].identity = 1
      /\ table[Leader].owned = TRUE /\ table[Leader].group = TRUE
      /\ \A p \in Pids \ {Leader} : table[p] = NoProcess
  BY <1>1 DEF Process
<1>3. TypeOK
  <2>1. table \in [Pids -> Processes]
    BY <1>1 DEF Init, Process
  <2>2. call \in Calls
    BY IdleTyped DEF Init
  <2>3. born = 1 /\ calls = 0 /\ closed = FALSE /\ hits = {}
    BY DEF Init
  <2>4. binding \in [bound : BOOLEAN, identity : 0..MaxBorn]
    BY <1>1 DEF Init, NoIdentity
  <2>5. born \in 1..MaxBorn /\ calls \in 0..MaxCalls
    BY <1>1, <2>3
  <2>6. closed \in BOOLEAN /\ hits \subseteq Hits
    BY <2>3
  <2> QED
    BY <2>1, <2>2, <2>4, <2>5, <2>6 DEF TypeOK, Calls
<1>4. TableKnown
  <2>1. born = 1
    BY DEF Init
  <2> QED
    BY <1>1, <1>2, <2>1 DEF TableKnown
<1>41. SessionHoldsNumber
  BY <1>2 DEF SessionHoldsNumber
<1>5. BindingKnown
  BY <1>2 DEF Init, BindingKnown, Idle, NoIdentity
<1>6. TrustKnown /\ NothingMissed /\ FoundKnown /\ PinnedKnown
  BY DEF Init, TrustKnown, NothingMissed, FoundKnown, PinnedKnown, Idle
<1>7. SignalsOnlyFamily /\ ClosedMeansGone
  BY DEF Init, SignalsOnlyFamily, ClosedMeansGone
<1> QED
  BY <1>3, <1>4, <1>41, <1>5, <1>6, <1>7 DEF IInv

-----------------------------------------------------------------------------
(* The steps of the host.  A process may be started at a free number, with *)
(* an identity nobody has had; what the owner knows of a number is about   *)
(* the process that had it.                                                *)

\* Another process of the family, or a foreign one, is started.
LEMMA StartInv ==
    ASSUME IInv, NEW q \in Pids, NumberIsFree(q), born < MaxBorn,
           NEW o \in BOOLEAN, NEW g \in BOOLEAN, NEW m \in BOOLEAN, NEW x \in BOOLEAN,
           table' = [table EXCEPT ![q] = Process(born + 1, o, g, m, x)],
           born' = born + 1, HostOnly,
           m => o, o => (g \/ m), g /\ ~o => q = Leader,
           o /\ g => \E p \in Pids : table[p].group /\ table[p].owned
    PROVE  IInv'
<1> USE DEF IInv, HostOnly
<1>1. /\ born \in 1..MaxBorn /\ born + 1 \in 1..MaxBorn /\ MaxBorn \in Nat
      /\ \A i \in 1..born : i \in 1..(born + 1)
  BY ProcessOwnerAssumption DEF TypeOK
<1>2. /\ table'[q] = Process(born + 1, o, g, m, x)
      /\ \A p \in Pids \ {q} : table'[p] = table[p]
      /\ table[q] = NoProcess
  BY DEF TypeOK, NumberIsFree
<1>3. /\ table'[q].state = "run" /\ table'[q].identity = born + 1
      /\ table'[q].owned = o /\ table'[q].group = g
      /\ table'[q].marked = m /\ table'[q].late = TRUE
  BY <1>1, <1>2 DEF Process
<1>4. TypeOK'
  <2>1. Process(born + 1, o, g, m, x) \in Processes
    <3>1. born + 1 \in 0..MaxBorn /\ 0 \in 0..MaxBorn
      BY <1>1
    <3> QED
      BY <3>1 DEF Process
  <2> QED
    BY <1>1, <2>1 DEF TypeOK
<1>5. TableKnown'
  <2> SUFFICES ASSUME NEW p \in Pids
               PROVE  /\ table'[p] = NoProcess \/ (table'[p].state # "free" /\ table'[p].identity \in 1..born')
                      /\ (table'[p].marked \/ table'[p].identity = 1) => table'[p].owned
                      /\ table'[p].owned => (table'[p].group \/ table'[p].marked)
                      /\ table'[p].group /\ ~table'[p].owned => p = Leader
    BY DEF TableKnown
  <2>1. CASE p = q
    BY <1>1, <1>3, <2>1
  <2>2. CASE p # q
    BY <1>1, <1>2, <2>2 DEF TableKnown
  <2> QED
    BY <2>1, <2>2
<1>6. SessionHoldsNumber'
  <2> SUFFICES ASSUME NEW p \in Pids, table'[p].group, table'[p].owned
               PROVE  table'[Leader] = NoProcess \/ table'[Leader].identity = 1
    BY DEF SessionHoldsNumber
  <2>1. \E r \in Pids : table[r].group /\ table[r].owned
    BY <1>2, <1>3
  <2>2. q # Leader
    BY <2>1 DEF NumberIsFree
  <2> QED
    BY <1>2, <2>1, <2>2, ProcessOwnerAssumption DEF SessionHoldsNumber
<1>7. BindingKnown'
  <2>1. ~binding.bound => q # Leader
    BY <1>2, FreeNumber DEF BindingKnown
  <2>2. table'[q].identity # 1
    BY <1>1, <1>3
  <2> QED
    BY <1>2, <2>1, <2>2, ProcessOwnerAssumption DEF BindingKnown, Lives
<1>8. TrustKnown'
  BY <1>2, <1>3 DEF TrustKnown, Lives
<1>9. NothingMissed'
  BY <1>2, <1>3 DEF NothingMissed, Lives
<1>10. FoundKnown'
  <2> SUFFICES ASSUME NEW t \in call.found
               PROVE  /\ t[2] <= born + 1
                      /\ Lives(t[1])' /\ table'[t[1]].identity = t[2] =>
                            table'[t[1]].owned \/ (table'[t[1]].late /\ t[1] = Leader)
    BY DEF FoundKnown
  <2>1. t[1] \in Pids /\ t[2] \in 1..MaxBorn /\ t[2] <= born
    BY DEF TypeOK, FoundKnown
  <2>2. t[2] <= born + 1
    BY <1>1, <2>1
  <2>3. CASE t[1] = q
    <3>1. table'[t[1]].identity # t[2]
      BY <1>1, <1>3, <2>1, <2>3
    <3> QED
      BY <2>2, <3>1
  <2>4. CASE t[1] # q
    BY <1>2, <2>1, <2>2, <2>4 DEF FoundKnown, Lives
  <2> QED
    BY <2>3, <2>4
<1>11. PinnedKnown'
  <2>1. CASE call.pc = "check"
    <3>1. /\ call.target \in call.found
          /\ call.target[1] \in Pids /\ call.target[2] \in 1..MaxBorn /\ call.target[2] <= born
      BY <2>1 DEF PinnedKnown, TypeOK, FoundKnown
    <3>2. table'[q].identity # call.target[2]
      BY <1>1, <1>3, <3>1
    <3> QED
      BY <1>2, <2>1, <3>1, <3>2 DEF PinnedKnown
  <2>2. CASE call.pc # "check"
    BY <2>2 DEF PinnedKnown
  <2> QED
    BY <2>1, <2>2
<1>12. SignalsOnlyFamily' /\ ClosedMeansGone'
  BY <1>2, <1>3 DEF SignalsOnlyFamily, ClosedMeansGone, Lives
<1> QED
  BY <1>4, <1>5, <1>6, <1>7, <1>8, <1>9, <1>10, <1>11, <1>12

\* A process changes what is seen of it, ends, or its number is free again:
\* nobody becomes alive, of the family or late.
LEMMA ChangeInv ==
    ASSUME IInv, NEW p \in Pids, HostOnly, born' = born,
           NEW entry \in Processes,
           table' = [table EXCEPT ![p] = entry],
           \/ entry = NoProcess /\ (p = Leader => binding.bound)
           \/ /\ table[p].state # "free" /\ entry.state # "free"
              /\ entry.state = "run" => table[p].state = "run"
              /\ entry.identity = table[p].identity /\ entry.owned = table[p].owned
              /\ entry.late = table[p].late
              /\ entry.group => table[p].group
              /\ entry.marked => table[p].marked
              /\ entry.owned => (entry.group \/ entry.marked)
    PROVE  IInv'
<1> USE DEF IInv, HostOnly
<1>1. /\ table'[p] = entry
      /\ \A r \in Pids \ {p} : table'[r] = table[r]
  BY DEF TypeOK
<1>2. TypeOK'
  BY DEF TypeOK
<1>3. /\ entry = NoProcess \/ (entry.state # "free" /\ entry.identity \in 1..born)
      /\ (entry.marked \/ entry.identity = 1) => entry.owned
      /\ entry.owned => (entry.group \/ entry.marked)
      /\ entry.group /\ ~entry.owned => p = Leader
  BY FreeNumber DEF TableKnown
<1>4. TableKnown'
  BY <1>1, <1>3 DEF TableKnown
<1>5. /\ entry.group => table[p].group
      /\ entry.owned => table[p].owned
      /\ entry.identity = table[p].identity \/ entry.identity = 0
      /\ entry.state = "run" => /\ table[p].state = "run" /\ entry.owned = table[p].owned
                                /\ entry.late = table[p].late
                                /\ entry.identity = table[p].identity
  BY FreeNumber
<1>6. SessionHoldsNumber'
  <2> SUFFICES ASSUME NEW r \in Pids, table'[r].group, table'[r].owned
               PROVE  table'[Leader] = NoProcess \/ table'[Leader].identity = 1
    BY DEF SessionHoldsNumber
  <2>1. table[r].group /\ table[r].owned
    BY <1>1, <1>5
  <2>2. table[Leader] = NoProcess \/ table[Leader].identity = 1
    BY <2>1 DEF SessionHoldsNumber
  <2> QED
    BY <1>1, <2>2, FreeNumber, ProcessOwnerAssumption
<1>7. BindingKnown'
  <2>1. ~binding.bound => table'[Leader].identity = 1
    BY <1>1, ProcessOwnerAssumption DEF BindingKnown
  <2>2. Lives(Leader)' /\ table'[Leader].identity = 1 => Lives(Leader) /\ table[Leader].identity = 1
    BY <1>1, <1>5, ProcessOwnerAssumption DEF Lives
  <2> QED
    BY <2>1, <2>2 DEF BindingKnown
<1>8. TrustKnown'
  BY <1>1, <1>5 DEF TrustKnown, Lives
<1>9. NothingMissed'
  BY <1>1, <1>5 DEF NothingMissed, Lives
<1>10. FoundKnown'
  <2> SUFFICES ASSUME NEW t \in call.found
               PROVE  /\ t[2] <= born
                      /\ Lives(t[1])' /\ table'[t[1]].identity = t[2] =>
                            table'[t[1]].owned \/ (table'[t[1]].late /\ t[1] = Leader)
    BY DEF FoundKnown
  <2>1. t[1] \in Pids
    BY DEF TypeOK
  <2> QED
    BY <1>1, <1>5, <2>1 DEF FoundKnown, Lives
<1>11. PinnedKnown'
  <2>1. CASE call.pc = "check"
    <3>1. /\ call.target \in call.found
          /\ call.target[1] \in Pids /\ call.target[2] # 0
      BY <2>1 DEF PinnedKnown, TypeOK
    <3> QED
      BY <1>1, <1>5, <2>1, <3>1 DEF PinnedKnown
  <2>2. CASE call.pc # "check"
    BY <2>2 DEF PinnedKnown
  <2> QED
    BY <2>1, <2>2
<1>12. SignalsOnlyFamily' /\ ClosedMeansGone'
  BY <1>1, <1>5 DEF SignalsOnlyFamily, ClosedMeansGone, Lives
<1> QED
  BY <1>2, <1>4, <1>6, <1>7, <1>8, <1>9, <1>10, <1>11, <1>12

\* Every step of the host keeps the invariant.
LEMMA HostInv == ASSUME IInv, Host PROVE IInv'
<1>1. CASE Foreign
  <2>1. PICK q \in Pids, session \in BOOLEAN, sealed \in BOOLEAN :
          /\ session => q = Leader
          /\ NumberIsFree(q)
          /\ table' = [table EXCEPT ![q] = Process(born + 1, FALSE, session, FALSE, sealed)]
    BY <1>1 DEF Foreign
  <2> QED
    BY <1>1, <2>1, StartInv DEF Foreign
<1>2. ASSUME NEW p \in Pids, Fork(p) PROVE IInv'
  <2>1. PICK q \in Pids :
          /\ NumberIsFree(q)
          /\ table' = [table EXCEPT ![q] = Process(born + 1, TRUE,
                                         table[p].group, table[p].marked, table[p].sealed)]
    BY <1>2 DEF Fork
  <2>2. /\ table[p].group \in BOOLEAN /\ table[p].marked \in BOOLEAN
        /\ table[p].sealed \in BOOLEAN
        /\ table[p].group \/ table[p].marked
        /\ table[p].owned
    BY <1>2 DEF Fork, IInv, TypeOK, TableKnown
  <2> QED
    BY <1>2, <2>1, <2>2, StartInv DEF Fork
<1>3. ASSUME NEW p \in Pids, Disguise(p) PROVE IInv'
  <2>1. table[p] \in Processes
    BY DEF IInv, TypeOK
  <2>2. table[p].state = "run" /\ table[p].owned /\ HostOnly /\ born' = born
    BY <1>3 DEF Disguise, Lives
  <2>3. CASE /\ table[p].group /\ table[p].marked
             /\ table' = [table EXCEPT ![p].group = FALSE]
    <3> DEFINE entry == [table[p] EXCEPT !.group = FALSE]
    <3>1. table' = [table EXCEPT ![p] = entry]
      BY <2>3 DEF IInv, TypeOK
    <3>2. /\ entry \in Processes
          /\ entry.state = "run" /\ entry.identity = table[p].identity
          /\ entry.owned = table[p].owned /\ entry.late = table[p].late
          /\ entry.group = FALSE /\ entry.marked
      BY <2>1, <2>2, <2>3
    <3> HIDE DEF entry
    <3> QED
      BY <2>2, <2>3, <3>1, <3>2, ChangeInv
  <2>4. CASE /\ table[p].group /\ table[p].marked
             /\ table' = [table EXCEPT ![p].marked = FALSE]
    <3> DEFINE entry == [table[p] EXCEPT !.marked = FALSE]
    <3>1. table' = [table EXCEPT ![p] = entry]
      BY <2>4 DEF IInv, TypeOK
    <3>2. /\ entry \in Processes
          /\ entry.state = "run" /\ entry.identity = table[p].identity
          /\ entry.owned = table[p].owned /\ entry.late = table[p].late
          /\ entry.group /\ entry.marked = FALSE
      BY <2>1, <2>2, <2>4
    <3> HIDE DEF entry
    <3> QED
      BY <2>2, <2>4, <3>1, <3>2, ChangeInv
  <2>5. CASE table' = [table EXCEPT ![p].sealed = TRUE]
    <3> DEFINE entry == [table[p] EXCEPT !.sealed = TRUE]
    <3>1. table' = [table EXCEPT ![p] = entry]
      BY <2>5 DEF IInv, TypeOK
    <3>2. /\ entry \in Processes
          /\ entry.state = "run" /\ entry.identity = table[p].identity
          /\ entry.owned = table[p].owned /\ entry.late = table[p].late
          /\ entry.group = table[p].group /\ entry.marked = table[p].marked
      BY <2>1, <2>2
    <3>3. entry.owned => entry.group \/ entry.marked
      BY <3>2 DEF IInv, TableKnown
    <3> HIDE DEF entry
    <3> QED
      BY <2>2, <3>1, <3>2, <3>3, ChangeInv
  <2> QED
    BY <1>3, <2>3, <2>4, <2>5 DEF Disguise
<1>4. ASSUME NEW p \in Pids, Exit(p) PROVE IInv'
  <2> DEFINE entry == [table[p] EXCEPT !.state = "zombie"]
  <2>1. table[p] \in Processes
    BY DEF IInv, TypeOK
  <2>2. table[p].state = "run" /\ HostOnly /\ born' = born
    BY <1>4 DEF Exit, Lives
  <2>3. table' = [table EXCEPT ![p] = entry]
    BY <1>4 DEF Exit, IInv, TypeOK
  <2>4. /\ entry \in Processes
        /\ entry.state = "zombie" /\ entry.identity = table[p].identity
        /\ entry.owned = table[p].owned /\ entry.late = table[p].late
        /\ entry.group = table[p].group /\ entry.marked = table[p].marked
    BY <2>1
  <2>5. table[p].owned => (table[p].group \/ table[p].marked)
    BY DEF IInv, TableKnown
  <2> HIDE DEF entry
  <2> QED
    BY <2>2, <2>3, <2>4, <2>5, ChangeInv
<1>5. ASSUME NEW p \in Pids, Reap(p) PROVE IInv'
  <2>1. /\ table' = [table EXCEPT ![p] = NoProcess]
        /\ p = Leader => binding.bound
        /\ HostOnly /\ born' = born
    BY <1>5 DEF Reap
  <2> QED
    BY <2>1, FreeNumber, ChangeInv
<1> QED
  BY <1>1, <1>2, <1>3, <1>4, <1>5 DEF Host

-----------------------------------------------------------------------------
(* The steps of the owner.                                                 *)

\* A step that reads nothing of the host and whose call is at no point where
\* something is known of the lookup.
LEMMA CallInv ==
    ASSUME IInv, OwnerOnly, UNCHANGED <<binding, hits>>, calls' \in 0..MaxCalls,
           binding.bound, call' \in Calls, closed' \in BOOLEAN,
           closed' => closed \/ \A p \in Pids : Lives(p) /\ table[p].owned => table[p].late,
           FoundKnown', PinnedKnown', TrustKnown', NothingMissed'
    PROVE  IInv'
<1> USE DEF IInv, OwnerOnly
<1>1. TypeOK'
  BY DEF TypeOK, Calls
<1>2. TableKnown' /\ SessionHoldsNumber'
  BY DEF TableKnown, SessionHoldsNumber
<1>3. BindingKnown'
  BY DEF BindingKnown, Lives
<1>4. SignalsOnlyFamily' /\ ClosedMeansGone'
  BY DEF SignalsOnlyFamily, ClosedMeansGone, Lives
<1> QED
  BY <1>1, <1>2, <1>3, <1>4

\* bind: the child, which nobody has replaced before.
LEMMA BindInv == ASSUME IInv, Bind PROVE IInv'
<1> USE ProcessOwnerAssumption DEF IInv, Bind, OwnerOnly
<1>1. table[Leader].identity = 1 /\ call.pc = "idle"
  BY DEF BindingKnown
<1>2. TypeOK' /\ BindingKnown'
  BY <1>1 DEF TypeOK, BindingKnown, Identity, Lives, NoIdentity
<1>3. TableKnown' /\ SessionHoldsNumber'
  BY DEF TableKnown, SessionHoldsNumber
<1>4. TrustKnown' /\ NothingMissed' /\ FoundKnown' /\ PinnedKnown'
  BY <1>1 DEF TrustKnown, NothingMissed, FoundKnown, PinnedKnown, Lives
<1>5. SignalsOnlyFamily' /\ ClosedMeansGone'
  BY DEF SignalsOnlyFamily, ClosedMeansGone, Lives
<1> QED
  BY <1>2, <1>3, <1>4, <1>5

\* A lookup begins: who has the number of the child decides whether its
\* session is that of the family, and nobody is late.
LEMMA LookupInv ==
    ASSUME IInv, NEW c \in Calls, call' = Members(c), LookupBegins, born' = born,
           UNCHANGED <<binding, closed, hits>>, calls' \in 0..MaxCalls, binding.bound
    PROVE  IInv'
<1> USE ProcessOwnerAssumption DEF IInv
<1>1. /\ call' \in Calls /\ call'.found = {}
      /\ call'.pc = IF closed THEN "decide" ELSE "scan"
      /\ call'.trusted = (Identity(Leader) \in {NoIdentity, binding.identity})
  <2> DEFINE trusted == Identity(Leader) \in {NoIdentity, binding.identity}
  <2>1. trusted \in BOOLEAN
    OBVIOUS
  <2>2. call' = [c EXCEPT !.pc = IF closed THEN "decide" ELSE "scan", !.found = {},
                          !.trusted = trusted]
    BY DEF Members
  <2> HIDE DEF trusted
  <2>3. call' \in Calls /\ call'.found = {} /\ call'.trusted = trusted
        /\ call'.pc = IF closed THEN "decide" ELSE "scan"
    BY <2>1, <2>2 DEF Calls
  <2> QED
    BY <2>3 DEF trusted
<1>2. \A p \in Pids :
         /\ table'[p].state = table[p].state /\ table'[p].identity = table[p].identity
         /\ table'[p].owned = table[p].owned /\ table'[p].group = table[p].group
         /\ table'[p].marked = table[p].marked
         /\ closed => table'[p] = table[p]
  BY DEF LookupBegins, TypeOK
<1>3. TypeOK'
  <2>1. table' \in [Pids -> Processes]
    <3>1. CASE closed
      BY <3>1 DEF TypeOK, LookupBegins
    <3>2. CASE ~closed
      <4>1. \A p \in Pids :
              [table[p] EXCEPT !.late = FALSE] \in Processes
        <5> TAKE p \in Pids
        <5>1. table[p] \in Processes
          BY DEF TypeOK
        <5> QED
          BY <5>1
      <4>2. table' = [p \in Pids |-> [table[p] EXCEPT !.late = FALSE]]
        BY <3>2 DEF LookupBegins
      <4> QED
        BY <4>1, <4>2
    <3> QED
      BY <3>1, <3>2
  <2> QED
    BY <1>1, <2>1 DEF TypeOK, Calls
<1>4. \A p \in Pids : table[p] = NoProcess => table'[p] = NoProcess
  <2>1. [NoProcess EXCEPT !.late = FALSE] = NoProcess
    <3>1. [NoProcess EXCEPT !.late = NoProcess.late] = NoProcess /\ NoProcess.late = FALSE
      BY DEF NoProcess
    <3> QED
      BY <3>1
  <2>2. \A p \in Pids : table'[p] = IF closed THEN table[p]
                                     ELSE [table[p] EXCEPT !.late = FALSE]
    BY DEF LookupBegins
  <2> QED
    BY <2>1, <2>2
<1>5. TableKnown' /\ SessionHoldsNumber'
  BY <1>2, <1>4 DEF TableKnown, SessionHoldsNumber
<1>6. BindingKnown'
  BY <1>2 DEF BindingKnown, Lives
<1>7. TrustKnown'
  <2> SUFFICES ASSUME NEW p \in Pids
               PROVE  IF call'.trusted
                      THEN Lives(p)' /\ table'[p].group /\ ~table'[p].owned => table'[p].late
                      ELSE ~(table'[p].group /\ table'[p].owned)
    BY DEF TrustKnown
  <2>1. ASSUME call'.trusted, Lives(p), table[p].group, ~table[p].owned PROVE FALSE
    <3>1. p = Leader /\ table[Leader].identity # 0
      BY <2>1, FreeNumber DEF TableKnown, Lives
    <3>2. table[Leader].identity = 1
      BY <1>1, <2>1, <3>1 DEF Identity, BindingKnown, NoIdentity
    <3> QED
      BY <2>1, <3>1, <3>2 DEF TableKnown
  <2>2. ASSUME ~call'.trusted, table[p].group, table[p].owned PROVE FALSE
    <3>1. table[Leader] = NoProcess \/ table[Leader].identity = 1
      BY <2>2 DEF SessionHoldsNumber
    <3>2. Identity(Leader) \in {NoIdentity, binding.identity}
      BY <3>1, FreeNumber DEF Identity, BindingKnown, Lives, NoIdentity
    <3> QED
      BY <1>1, <2>2, <3>2
  <2>3. Lives(p)' = Lives(p)
    BY <1>2 DEF Lives
  <2> QED
    BY <1>2, <2>1, <2>2, <2>3
<1>8. NothingMissed'
  BY <1>1, <1>2 DEF NothingMissed, ClosedMeansGone, Lives
<1>9. FoundKnown' /\ PinnedKnown'
  BY <1>1 DEF FoundKnown, PinnedKnown
<1>10. SignalsOnlyFamily' /\ ClosedMeansGone'
  BY <1>2 DEF SignalsOnlyFamily, ClosedMeansGone, Lives
<1> QED
  BY <1>3, <1>5, <1>6, <1>7, <1>8, <1>9, <1>10

\* One entry is read: what is taken for family is family, or late with the
\* number of the child, and what is
\* passed over is none of it.
LEMMA ReadInv == ASSUME IInv, NEW p \in Pids, Read(p) PROVE IInv'
<1> USE DEF IInv, Read
<1>1. /\ call.pc = "read" /\ call \in Calls /\ binding.bound
      /\ calls' \in 0..MaxCalls /\ closed' = closed /\ closed \in BOOLEAN
      /\ UNCHANGED <<binding, hits>> /\ OwnerOnly
  BY DEF TypeOK, Calls, BindingKnown
<1>2. Lives(p) => Identity(p) = table[p].identity /\ table[p].identity \in 1..born
  BY FreeNumber DEF TableKnown, Identity, Lives
<1>3. born \in 1..MaxBorn /\ MaxBorn \in Nat
  BY ProcessOwnerAssumption DEF TypeOK
<1>4. /\ call'.listed = call.listed \ {p}
      /\ call'.pc = IF call.listed = {p} THEN "decide" ELSE "read"
      /\ call'.found = IF Lives(p) /\ InFamily(p)
                        THEN call.found \cup {<<p, Identity(p)>>} ELSE call.found
      /\ call'.trusted = call.trusted
  BY <1>1 DEF Calls
<1>5. Lives(p) => <<p, Identity(p)>> \in Pids \X (1..MaxBorn)
  BY <1>2, <1>3
<1>6. call' \in Calls
  BY <1>1, <1>5 DEF Calls
<1>7. FoundKnown'
  <2> SUFFICES ASSUME NEW t \in call'.found
               PROVE  /\ t[2] <= born
                      /\ Lives(t[1]) /\ table[t[1]].identity = t[2] =>
                            table[t[1]].owned \/ (table[t[1]].late /\ t[1] = Leader)
    BY <1>1 DEF FoundKnown, Lives, OwnerOnly
  <2>1. CASE t \in call.found
    BY <2>1 DEF FoundKnown
  <2>2. CASE t \notin call.found
    <3>1. Lives(p) /\ InFamily(p) /\ t[1] = p /\ t[2] = Identity(p)
      BY <1>4, <2>2
    <3>2. table[p].owned \/ (table[p].late /\ p = Leader)
      BY <1>1, <3>1 DEF InFamily, TableKnown, TrustKnown
    <3> QED
      BY <1>2, <1>3, <3>1, <3>2
  <2> QED
    BY <2>1, <2>2
<1>8. NothingMissed'
  <2> SUFFICES ASSUME NEW r \in Pids, Lives(r), table[r].owned, ~table[r].late
               PROVE  \/ call'.pc = "read" /\ r \in call'.listed
                      \/ \E t \in call'.found : t[1] = r
    BY <1>1 DEF NothingMissed, Lives, OwnerOnly
  <2>1. CASE r = p
    <3>1. InFamily(p)
      BY <1>1, <2>1 DEF InFamily, TableKnown, TrustKnown
    <3>2. <<p, Identity(p)>> \in call'.found
      BY <1>4, <2>1, <3>1
    <3> QED
      BY <2>1, <3>2
  <2>2. CASE r # p
    <3>1. r \in call.listed \/ \E t \in call.found : t[1] = r
      BY <1>1 DEF NothingMissed
    <3> QED
      BY <1>4, <2>2, <3>1
  <2> QED
    BY <2>1, <2>2
<1>9. TrustKnown' /\ PinnedKnown'
  BY <1>1, <1>4 DEF TrustKnown, PinnedKnown, Lives, OwnerOnly
<1> QED
  BY <1>1, <1>6, <1>7, <1>8, <1>9, CallInv

\* When no call is made, nothing is to be known of one.
LEMMA IdleKnown ==
    ASSUME call' = Idle
    PROVE  FoundKnown' /\ PinnedKnown' /\ TrustKnown' /\ NothingMissed'
BY DEF FoundKnown, PinnedKnown, TrustKnown, NothingMissed, Idle

\* terminate may raise at any time: nothing is to be known of a call.
LEMMA RaiseInv == ASSUME IInv, Raise, binding.bound PROVE IInv'
<1>1. calls' \in 0..MaxCalls /\ closed' = closed /\ closed \in BOOLEAN
  BY DEF IInv, TypeOK, Raise
<1> QED
  BY <1>1, IdleKnown, IdleTyped, CallInv DEF Raise

\* A signal reaches the process that was found, which is of the family or took
\* the number of the child after the lookup had begun.
LEMMA SendInv == ASSUME IInv, Send PROVE IInv'
<1> DEFINE p == call.target[1]
<1> USE DEF IInv
<1>1. /\ call.pc = "send" /\ OwnerOnly /\ UNCHANGED <<binding, closed, calls>>
      /\ call' = Signalled
      /\ hits' = IF Lives(p) /\ table[p].identity = call.pinned
                 THEN hits \cup {Hit(p)} ELSE hits
  BY DEF Send
<1>2. /\ call.target \in call.found /\ p \in Pids /\ call.pinned = call.target[2]
      /\ call.target = <<p, call.target[2]>>
  BY <1>1 DEF PinnedKnown, TypeOK
<1>3. Lives(p) /\ table[p].identity = call.pinned =>
        /\ table[p].owned \/ (table[p].late /\ p = Leader)
        /\ <<p, table[p].identity>> \in call.found
  BY <1>2 DEF FoundKnown
<1>4. Hit(p) \in Hits
  BY <1>2 DEF TypeOK, Hit, Hits
<1>5. hits' \subseteq Hits
  BY <1>1, <1>4 DEF TypeOK
<1>6. /\ call' \in Calls /\ call'.pc = "signal" /\ call'.found = call.found
  <2>1. 0 \in 0..MaxBorn
    BY ProcessOwnerAssumption
  <2>2. call \in Calls
    BY DEF TypeOK, Calls
  <2> QED
    BY <1>1, <2>1, <2>2 DEF Calls, Signalled, NoIdentity
<1>7. TypeOK'
  BY <1>1, <1>5, <1>6 DEF TypeOK, Calls, OwnerOnly
<1>8. SignalsOnlyFamily'
  <2> SUFFICES ASSUME NEW h \in hits' PROVE h.owned \/ (h.found /\ h.late /\ h.leads)
    BY DEF SignalsOnlyFamily
  <2>1. CASE h \in hits
    BY <2>1 DEF SignalsOnlyFamily
  <2>2. CASE h \notin hits
    <3>1. h = Hit(p) /\ Lives(p) /\ table[p].identity = call.pinned
      BY <1>1, <2>2
    <3>2. /\ Hit(p).owned = table[p].owned /\ Hit(p).late = table[p].late
          /\ Hit(p).found = (<<p, table[p].identity>> \in call.found)
          /\ Hit(p).leads = (p = Leader)
      BY DEF Hit
    <3> QED
      BY <1>3, <3>1, <3>2
  <2> QED
    BY <2>1, <2>2
<1>9. TableKnown' /\ SessionHoldsNumber' /\ BindingKnown' /\ ClosedMeansGone'
  BY <1>1, <1>6 DEF TableKnown, SessionHoldsNumber, BindingKnown, ClosedMeansGone, Lives, OwnerOnly
<1>10. TrustKnown' /\ NothingMissed' /\ FoundKnown' /\ PinnedKnown'
  BY <1>1, <1>6 DEF TrustKnown, NothingMissed, FoundKnown, PinnedKnown, Lives, OwnerOnly
<1> QED
  BY <1>7, <1>8, <1>9, <1>10

\* Every step of the owner keeps the invariant.
LEMMA OwnerInv == ASSUME IInv, Owner PROVE IInv'
<1> USE DEF IInv
<1>0. call \in Calls /\ calls \in 0..MaxCalls /\ closed \in BOOLEAN
  BY DEF TypeOK, Calls
<1>1. CASE Bind
  BY <1>1, BindInv
<1>2. CASE Terminate
  <2>1. calls' \in 0..MaxCalls
    BY <1>2, <1>0, ProcessOwnerAssumption DEF Terminate
  <2> QED
    BY <1>2, <2>1, IdleTyped, LookupInv DEF Terminate
<1>3. CASE Again
  <2>1. binding.bound
    BY <1>3 DEF Again, BindingKnown
  <2> QED
    BY <1>3, <1>0, <2>1, LookupInv DEF Again
<1>4. CASE List
  <2> DEFINE there == {p \in Pids : table[p].state # "free"}
  <2>1. /\ call.pc = "scan" /\ binding.bound /\ OwnerOnly
        /\ UNCHANGED <<binding, closed, calls, hits>>
        /\ call' = [call EXCEPT !.pc = IF there = {} THEN "decide" ELSE "read",
                                !.listed = there]
    BY <1>4 DEF List, BindingKnown
  <2>2. there \in SUBSET Pids /\ \A p \in Pids : Lives(p) => p \in there
    BY DEF Lives
  <2> HIDE DEF there
  <2>3. /\ call' \in Calls /\ call'.listed = there
        /\ call'.pc = IF there = {} THEN "decide" ELSE "read"
        /\ call'.found = call.found /\ call'.trusted = call.trusted
    BY <1>0, <2>1, <2>2 DEF Calls
  <2>4. FoundKnown' /\ PinnedKnown' /\ TrustKnown' /\ NothingMissed'
    BY <2>1, <2>2, <2>3 DEF FoundKnown, PinnedKnown, TrustKnown, NothingMissed, Lives, OwnerOnly
  <2> QED
    BY <1>0, <2>1, <2>3, <2>4, CallInv
<1>5. ASSUME NEW p \in Pids, Read(p) PROVE IInv'
  BY <1>5, ReadInv
<1>51. ASSUME NEW p \in Pids, ReadFails(p) PROVE IInv'
  BY <1>51, RaiseInv DEF ReadFails, BindingKnown
<1>6. CASE Open
  <2>1. /\ call.pc \in {"decide", "signal"} /\ binding.bound /\ OwnerOnly
        /\ UNCHANGED <<binding, closed, calls, hits>>
    BY <1>6 DEF Open, BindingKnown
  <2>2. PICK t \in call.found \ call.sent :
          call' = IF table[t[1]] = NoProcess
                  THEN [call EXCEPT !.sent = @ \cup {t}, !.pc = "signal"]
                  ELSE [call EXCEPT !.sent = @ \cup {t}, !.pc = "check", !.target = t,
                                    !.pinned = table[t[1]].identity]
    BY <1>6 DEF Open
  <2>3. t \in Pids \X (1..MaxBorn) /\ table[t[1]].identity \in 0..MaxBorn
    BY DEF TypeOK
  <2>4. /\ call' \in Calls /\ call'.found = call.found
        /\ \/ call'.pc = "signal"
           \/ /\ call'.pc = "check" /\ call'.target = t
              /\ call'.pinned = table[t[1]].identity
    BY <1>0, <2>2, <2>3 DEF Calls
  <2>5. FoundKnown' /\ PinnedKnown' /\ TrustKnown' /\ NothingMissed'
    BY <2>1, <2>4 DEF FoundKnown, PinnedKnown, TrustKnown, NothingMissed, Lives, OwnerOnly
  <2> QED
    BY <1>0, <2>1, <2>4, <2>5, CallInv
<1>7. CASE Check
  <2>1. /\ call.pc = "check" /\ binding.bound /\ OwnerOnly
        /\ UNCHANGED <<binding, closed, calls, hits>>
        /\ call' = IF Identity(call.target[1]) = call.target[2]
                   THEN [call EXCEPT !.pc = "send"] ELSE Signalled
    BY <1>7 DEF Check, BindingKnown
  <2>2. call.target[2] # 0
    BY <2>1 DEF PinnedKnown, TypeOK
  <2>3. 0 \in 0..MaxBorn
    BY ProcessOwnerAssumption
  <2>4. /\ call' \in Calls /\ call'.found = call.found
        /\ \/ call'.pc = "signal"
           \/ /\ call'.pc = "send" /\ call'.target = call.target
              /\ call'.pinned = call.pinned
              /\ table[call.target[1]].identity = call.target[2]
    BY <1>0, <2>1, <2>2, <2>3 DEF Calls, Signalled, Identity, NoIdentity
  <2>5. FoundKnown' /\ PinnedKnown' /\ TrustKnown' /\ NothingMissed'
    BY <2>1, <2>4 DEF FoundKnown, PinnedKnown, TrustKnown, NothingMissed, Lives, OwnerOnly
  <2> QED
    BY <1>0, <2>1, <2>4, <2>5, CallInv
<1>8. CASE Send
  BY <1>8, SendInv
<1>81. CASE SendFails
  BY <1>81, RaiseInv DEF SendFails, BindingKnown
<1>9. CASE Done
  <2>1. /\ call.pc = "decide" /\ call.found = {} /\ binding.bound /\ OwnerOnly
        /\ UNCHANGED <<binding, calls, hits>> /\ call' = Idle /\ closed' \in BOOLEAN
    BY <1>9 DEF Done, Return, BindingKnown
  <2>2. \A p \in Pids : Lives(p) /\ table[p].owned => table[p].late
    BY <2>1 DEF NothingMissed
  <2> QED
    BY <1>0, <2>1, <2>2, IdleKnown, IdleTyped, CallInv
<1>10. CASE Expire
  <2>1. /\ binding.bound /\ OwnerOnly
        /\ UNCHANGED <<binding, calls, hits>>
    BY <1>10 DEF Expire, BindingKnown, Return
  <2>2. CASE call' = [call EXCEPT !.signal = "KILL", !.sent = {}] /\ closed' = closed
    <3>1. /\ call' \in Calls /\ call'.found = call.found /\ call'.pc = call.pc
          /\ call'.listed = call.listed /\ call'.trusted = call.trusted
          /\ call'.target = call.target /\ call'.pinned = call.pinned
      BY <1>0, <2>2 DEF Calls
    <3>2. FoundKnown' /\ PinnedKnown' /\ TrustKnown' /\ NothingMissed'
      BY <2>1, <3>1
         DEF FoundKnown, PinnedKnown, TrustKnown, NothingMissed, Lives, OwnerOnly
    <3> QED
      BY <1>0, <2>1, <2>2, <3>1, <3>2, CallInv
  <2>3. CASE Return(call.found) /\ call.found # {}
    <3>1. call' = Idle /\ closed' = FALSE
      BY <2>3 DEF Return
    <3> QED
      BY <1>0, <2>1, <3>1, IdleKnown, IdleTyped, CallInv
  <2> QED
    BY <1>10, <2>2, <2>3 DEF Expire
<1> QED
  BY <1>1, <1>2, <1>3, <1>4, <1>5, <1>51, <1>6, <1>7, <1>8, <1>81, <1>9, <1>10 DEF Owner

-----------------------------------------------------------------------------
\* The invariant holds in every state.
THEOREM InvariantHolds == Spec => []IInv
<1>1. Init => IInv
  BY InitInv
<1>2. IInv /\ [Next]_vars => IInv'
  <2> SUFFICES ASSUME IInv, [Next]_vars PROVE IInv'
    OBVIOUS
  <2>1. CASE Next
    BY <2>1, HostInv, OwnerInv DEF Next
  <2>2. CASE UNCHANGED vars
    BY <2>2 DEF vars, IInv, TypeOK, TableKnown, SessionHoldsNumber, BindingKnown, TrustKnown,
                NothingMissed, FoundKnown, PinnedKnown, SignalsOnlyFamily, ClosedMeansGone, Lives
  <2> QED
    BY <2>1, <2>2
<1> QED
  BY <1>1, <1>2, PTL DEF Spec

\* Whatever the numbers, the processes and the calls: no process outside the
\* family of the child is signalled, but for one that the lookup itself found
\* in the session because it took the number of the child, and opened a
\* session, after that lookup had compared the identity (members, _signal).
THEOREM FamilyOnly == Spec => []SignalsOnlyFamily
<1>1. IInv => SignalsOnlyFamily
  BY DEF IInv
<1> QED
  BY <1>1, InvariantHolds, PTL

\* When terminate has reported that nothing remains, nothing of the family is
\* left but what was started during its last lookup (members).
THEOREM ClosedIsGone == Spec => []ClosedMeansGone
<1>1. IInv => ClosedMeansGone
  BY DEF IInv
<1> QED
  BY <1>1, InvariantHolds, PTL
=============================================================================
