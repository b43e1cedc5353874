--------------------------- MODULE Results_proofs ---------------------------
(***************************************************************************)
(* Proofs about what a capture is worth after it.  RetryRun: a row that    *)
(* says an entry is done names a folder in which every stage wrote, from   *)
(* the capture the old batch saw.  ProgressFeed: what lies behind the      *)
(* Master's cursor is in its rows, and so is all that an ended run had     *)
(* recorded.  FlowTables: every packet is in the one file of its stream    *)
(* and direction, and the tables say what the two ends sent.  None of it   *)
(* depends on the numbers of entries, threads, units, runs, faults,        *)
(* packets, streams or records.                                            *)
(***************************************************************************)
EXTENDS RetryRun, ProgressFeed, FlowTables, FiniteSetTheorems, TLAPS

-----------------------------------------------------------------------------
(* RetryRun                                                                *)

\* The types.
StageNames == {"extract", "classify", "infer", "sequences"}
Verdicts == {"none", "failed", "success", "partial", "no_eligible_packets"}
Folders == [wrote : SUBSET (StageNames \X Nat), validation : Verdicts]
JobPcs == {"idle", "queued", "folder", "probe", "stage", "finally", "done", "raised"}
Jobs == [pc : JobPcs, before : Nat, attempt : Nat, status : Verdicts, stage : Nat]

RetryTyped ==
    /\ capture \in [Pcaps -> Captures]
    /\ version \in [Pcaps -> Nat]
    /\ rows \in [Pcaps -> [status : Verdicts, attempt : Nat]]
    /\ outputs \in [Pcaps -> Seq(Folders)]
    /\ job \in [Pcaps -> Jobs]
    /\ orphans \subseteq Pcaps \X Nat \X Nat

\* A verdict that promises a result; the files of all stages, and of the first n.
Good == {"success", "partial"}
Whole(p) == {<<Stages(p)[i], 0>> : i \in DOMAIN Stages(p)}
Upto(p, n) == {<<Stages(p)[i], 0>> : i \in 1 .. n}
\* The folder of the entry's thread.
Folder(p) == outputs[p][job[p].attempt]

\* The row of an entry names a folder it has.
RowNamed(p) ==
    /\ rows[p].attempt <= Len(outputs[p])
    /\ rows[p].status \in Good => rows[p].attempt # 0

\* The thread of an entry works in the newest folder, which no row names and no orphan writes.
Newest(p) ==
    /\ job[p].pc \in {"queued", "folder"} => job[p].attempt = 0 /\ job[p].status = "failed"
    /\ job[p].pc \in {"probe", "stage"} => job[p].attempt # 0
    /\ job[p].pc \in {"probe", "stage", "finally", "done"} /\ job[p].attempt # 0 =>
          /\ job[p].attempt = Len(outputs[p])
          /\ rows[p].attempt < job[p].attempt
          /\ \A o \in orphans : o[1] = p => o[2] # job[p].attempt

\* A stage of a killed retry writes into a folder of its own, which no row names.
OrphanApart(p) ==
    \A o \in orphans : o[1] = p =>
        /\ o[2] \in 1 .. Len(outputs[p])
        /\ o[2] # rows[p].attempt
        /\ o[3] \in 1 .. Len(Stages(p))

\* What the folder of a thread at work holds, while the capture is the one the batch saw.
Progressed(p) ==
    /\ job[p].pc \in {"folder", "probe", "stage"} => job[p].before = 0
    /\ job[p].pc = "probe" => Folder(p).wrote = {}
    /\ job[p].pc = "stage" =>
          /\ job[p].stage \in 1 .. Len(Stages(p))
          /\ version[p] = 0 => Folder(p).wrote = Upto(p, job[p].stage - 1)
    /\ job[p].pc = "finally" /\ job[p].status \in Good =>
          /\ job[p].before = 0
          /\ job[p].attempt # 0
          /\ version[p] = 0 => Folder(p).wrote = Whole(p)
    /\ job[p].pc = "done" /\ job[p].status \in Good =>
          /\ job[p].attempt # 0
          /\ Folder(p).wrote = Whole(p)
          /\ Folder(p).validation = job[p].status

\* SuccessIsWhole, of one entry.
RowTrue(p) ==
    rows[p].status \in Good =>
        /\ outputs[p][rows[p].attempt].validation = rows[p].status
        /\ outputs[p][rows[p].attempt].wrote = Whole(p)

EntryInv(p) == RowNamed(p) /\ Newest(p) /\ OrphanApart(p) /\ Progressed(p) /\ RowTrue(p)

RetryInv == RetryTyped /\ \A p \in Pcaps : EntryInv(p)

\* An entry has three or four stages (a capture without keys is not classified),
\* all different.
LEMMA StageKinds ==
    ASSUME NEW p \in Pcaps
    PROVE  /\ Stages(p) \in Seq(StageNames)
           /\ Len(Stages(p)) \in {3, 4}
           /\ \A i, j \in 1 .. Len(Stages(p)) : i # j => Stages(p)[i] # Stages(p)[j]
<1>1. CASE capture[p].key
  <2>1. Stages(p) = <<"extract", "classify", "infer", "sequences">>
    BY <1>1 DEF Stages
  <2> QED
    BY <2>1 DEF StageNames
<1>2. CASE ~capture[p].key
  <2>1. Stages(p) = <<"extract", "infer", "sequences">>
    BY <1>2 DEF Stages
  <2> QED
    BY <2>1 DEF StageNames
<1> QED
  BY <1>1, <1>2

\* A stage writes its own files in the folder of one attempt (command); the other
\* folders, and the verdict of this one, stay.
LEMMA WroteEffect ==
    ASSUME RetryTyped, NEW p \in Pcaps, NEW a \in 1 .. Len(outputs[p]), NEW s \in 1 .. Len(Stages(p)),
           Wrote(p, a, s)
    PROVE  /\ outputs' \in [Pcaps -> Seq(Folders)]
           /\ \A q \in Pcaps : Len(outputs'[q]) = Len(outputs[q])
           /\ \A q \in Pcaps \ {p} : outputs'[q] = outputs[q]
           /\ \A i \in 1 .. Len(outputs[p]) : i # a => outputs'[p][i] = outputs[p][i]
           /\ outputs'[p][a].validation = outputs[p][a].validation
           /\ outputs'[p][a].wrote = {w \in outputs[p][a].wrote : w[1] # Stages(p)[s]}
                                        \cup {<<Stages(p)[s], version[p]>>}
<1> DEFINE new == [outputs[p][a] EXCEPT !.wrote = {w \in @ : w[1] # Stages(p)[s]}
                                                 \cup {<<Stages(p)[s], version[p]>>}]
<1>1. outputs' = [outputs EXCEPT ![p] = [outputs[p] EXCEPT ![a] = new]]
  BY DEF Wrote
<1>2. outputs[p] \in Seq(Folders) /\ outputs[p][a] \in Folders
  BY DEF RetryTyped
<1>3. Stages(p)[s] \in StageNames /\ version[p] \in Nat
  BY StageKinds DEF RetryTyped
<1>4. new \in Folders
  <2>1. {w \in outputs[p][a].wrote : w[1] # Stages(p)[s]} \cup {<<Stages(p)[s], version[p]>>}
          \in SUBSET (StageNames \X Nat)
    BY <1>2, <1>3 DEF Folders
  <2> QED
    BY <1>2, <2>1 DEF Folders
<1>5. /\ new.validation = outputs[p][a].validation
      /\ new.wrote = {w \in outputs[p][a].wrote : w[1] # Stages(p)[s]}
                        \cup {<<Stages(p)[s], version[p]>>}
  BY <1>2 DEF Folders
<1> HIDE DEF new
<1>6. [outputs[p] EXCEPT ![a] = new] \in Seq(Folders)
  BY <1>2, <1>4
<1>7. outputs'[p] = [outputs[p] EXCEPT ![a] = new]
  BY <1>1 DEF RetryTyped
<1>8. outputs' \in [Pcaps -> Seq(Folders)]
  BY <1>1, <1>6 DEF RetryTyped
<1>9. \A q \in Pcaps \ {p} : outputs'[q] = outputs[q]
  BY <1>1 DEF RetryTyped
<1>10. Len(outputs'[p]) = Len(outputs[p])
  BY <1>2, <1>7
<1>11. outputs'[p][a] = new /\ \A i \in 1 .. Len(outputs[p]) : i # a => outputs'[p][i] = outputs[p][i]
  BY <1>2, <1>7
<1> QED
  BY <1>5, <1>8, <1>9, <1>10, <1>11

\* What a step leaves alone: an entry whose work is where it was, also when its capture changes.
Untouched(p) ==
    /\ UNCHANGED <<capture, job[p], outputs[p], rows[p]>>
    /\ version'[p] # version[p] => version'[p] # 0
    /\ \A o \in orphans' : o[1] = p => o \in orphans

\* What a step leaves alone stays consistent; only its capture may have changed.
LEMMA UntouchedKept ==
    ASSUME RetryTyped, NEW p \in Pcaps, EntryInv(p), Untouched(p)
    PROVE  EntryInv(p)'
<1>1. Stages(p)' = Stages(p)
  BY DEF Untouched, Stages
<1>2. /\ job'[p] = job[p] /\ outputs'[p] = outputs[p] /\ rows'[p] = rows[p]
      /\ \A o \in orphans' : o[1] = p => o \in orphans
      /\ version'[p] = version[p] \/ version'[p] # 0
  BY DEF Untouched
<1>3. RowNamed(p)' /\ RowTrue(p)'
  BY <1>1, <1>2 DEF EntryInv, RowNamed, RowTrue, Whole
<1>4. Newest(p)'
  BY <1>2 DEF EntryInv, Newest
<1>5. OrphanApart(p)'
  BY <1>1, <1>2 DEF EntryInv, OrphanApart
<1>6. Progressed(p)'
  BY <1>1, <1>2 DEF EntryInv, Progressed, Folder, Whole, Upto
<1> QED
  BY <1>3, <1>4, <1>5, <1>6 DEF EntryInv

\* An entry nobody works on.
LEMMA RestingKept ==
    ASSUME RetryTyped, NEW p \in Pcaps, EntryInv(p), UNCHANGED <<capture, version, outputs, rows>>,
           job'[p].pc \in {"idle", "raised"} \/
              (job'[p].pc = "queued" /\ job'[p].attempt = 0 /\ job'[p].status = "failed"),
           OrphanApart(p)'
    PROVE  EntryInv(p)'
<1>1. Stages(p)' = Stages(p)
  BY DEF Stages
<1>2. RowNamed(p)' /\ RowTrue(p)'
  BY <1>1 DEF EntryInv, RowNamed, RowTrue, Whole
<1>3. Newest(p)' /\ Progressed(p)'
  BY DEF Newest, Progressed
<1> QED
  BY <1>2, <1>3 DEF EntryInv

\* Before the first retry no entry has a row or a folder.
LEMMA TypedInit == ASSUME RetryInit PROVE RetryInv
<1>1. RetryTyped
  <2>1. [pc |-> "idle", before |-> 0, attempt |-> 0, status |-> "failed", stage |-> 0] \in Jobs
    BY DEF Jobs, JobPcs, Verdicts
  <2>2. rows \in [Pcaps -> [status : Verdicts, attempt : Nat]]
    BY DEF RetryInit, NoRow, Verdicts
  <2>3. outputs \in [Pcaps -> Seq(Folders)]
    BY DEF RetryInit
  <2> QED
    BY <2>1, <2>2, <2>3 DEF RetryInit, RetryTyped, Idle
<1>2. ASSUME NEW p \in Pcaps PROVE EntryInv(p)
  <2>1. /\ rows[p] = NoRow /\ outputs[p] = <<>> /\ job[p].pc = "idle" /\ orphans = {}
    BY <1>2 DEF RetryInit, Idle
  <2> QED
    BY <2>1 DEF EntryInv, RowNamed, Newest, OrphanApart, Progressed, RowTrue, NoRow, Good
<1> QED
  BY <1>1, <1>2 DEF RetryInv

\* A step of one entry: its job becomes r, the others stay.
Moves(p, r) ==
    /\ r \in Jobs
    /\ job' \in [Pcaps -> Jobs]
    /\ job'[p] = r
    /\ \A q \in Pcaps \ {p} : job'[q] = job[q]

\* What the except clause makes of a job.
Failed(p) == [job[p] EXCEPT !.pc = "finally", !.status = "failed"]

\* A job that is replaced moves alone.
LEMMA Moved ==
    ASSUME RetryTyped, NEW p \in Pcaps, NEW r \in Jobs, job' = [job EXCEPT ![p] = r]
    PROVE  Moves(p, r)
BY DEF RetryTyped, Moves

\* The except clause of retry: one job goes to its finally clause as failed.
LEMMA RaiseMoves ==
    ASSUME RetryTyped, NEW p \in Pcaps, Raises(p)
    PROVE  Moves(p, Failed(p))
<1>1. job' = [job EXCEPT ![p] = Failed(p)]
  BY DEF RetryTyped, Raises, Failed
<1>2. Failed(p) \in Jobs
  BY DEF RetryTyped, Failed, Jobs, JobPcs, Verdicts
<1> QED
  BY <1>1, <1>2, Moved

\* The main thread takes one job.
LEMMA GoMoves ==
    ASSUME RetryTyped, NEW p \in Pcaps, NEW pc \in JobPcs, Go(p, pc)
    PROVE  Moves(p, [job[p] EXCEPT !.pc = pc])
<1>1. job' = [job EXCEPT ![p] = [job[p] EXCEPT !.pc = pc]]
  BY DEF RetryTyped, Go
<1>2. [job[p] EXCEPT !.pc = pc] \in Jobs
  BY DEF RetryTyped, Jobs
<1> QED
  BY <1>1, <1>2, Moved

\* One job ends with a verdict.
LEMMA EndMoves ==
    ASSUME RetryTyped, NEW p \in Pcaps, NEW pc \in JobPcs, NEW status \in Verdicts,
           job' = [job EXCEPT ![p].pc = pc, ![p].status = status]
    PROVE  Moves(p, [job[p] EXCEPT !.pc = pc, !.status = status])
<1>1. job' = [job EXCEPT ![p] = [job[p] EXCEPT !.pc = pc, !.status = status]]
  BY DEF RetryTyped
<1>2. [job[p] EXCEPT !.pc = pc, !.status = status] \in Jobs
  BY DEF RetryTyped, Jobs
<1> QED
  BY <1>1, <1>2, Moved

\* The signatures of the input decide how one job begins.
LEMMA SignMoves ==
    ASSUME RetryTyped, NEW p \in Pcaps, Sign(p)
    PROVE  Moves(p, [job[p] EXCEPT !.pc = IF version[p] = 0 THEN "folder" ELSE "finally",
                                   !.before = version[p]])
<1> DEFINE pc == IF version[p] = 0 THEN "folder" ELSE "finally"
<1>1. pc \in JobPcs /\ version[p] \in Nat
  BY DEF JobPcs, RetryTyped
<1>2. job' = [job EXCEPT ![p].pc = pc, ![p].before = version[p]]
  BY DEF Sign
<1> HIDE DEF pc
<1>3. job' = [job EXCEPT ![p] = [job[p] EXCEPT !.pc = pc, !.before = version[p]]]
  BY <1>2 DEF RetryTyped
<1>4. [job[p] EXCEPT !.pc = pc, !.before = version[p]] \in Jobs
  BY <1>1 DEF RetryTyped, Jobs
<1> QED
  BY <1>3, <1>4, Moved DEF pc

\* One job has the folder it has just made.
LEMMA FolderMoves ==
    ASSUME RetryTyped, NEW p \in Pcaps,
           job' = [job EXCEPT ![p].pc = "probe", ![p].attempt = Len(outputs[p]) + 1]
    PROVE  Moves(p, [job[p] EXCEPT !.pc = "probe", !.attempt = Len(outputs[p]) + 1])
<1>1. Len(outputs[p]) + 1 \in Nat
  BY DEF RetryTyped
<1>2. job' = [job EXCEPT ![p] = [job[p] EXCEPT !.pc = "probe", !.attempt = Len(outputs[p]) + 1]]
  BY DEF RetryTyped
<1>3. [job[p] EXCEPT !.pc = "probe", !.attempt = Len(outputs[p]) + 1] \in Jobs
  BY <1>1 DEF RetryTyped, Jobs, JobPcs
<1> QED
  BY <1>2, <1>3, Moved

\* One job enters its stages, or ends them.
LEMMA StageMoves ==
    ASSUME RetryTyped, NEW p \in Pcaps, NEW n \in Nat, NEW pc \in JobPcs,
           job' = [job EXCEPT ![p].pc = pc, ![p].stage = n]
    PROVE  Moves(p, [job[p] EXCEPT !.pc = pc, !.stage = n])
<1>1. job' = [job EXCEPT ![p] = [job[p] EXCEPT !.pc = pc, !.stage = n]]
  BY DEF RetryTyped
<1>2. [job[p] EXCEPT !.pc = pc, !.stage = n] \in Jobs
  BY DEF RetryTyped, Jobs
<1> QED
  BY <1>1, <1>2, Moved

\* One job goes on to its next stage.
LEMMA NextStageMoves ==
    ASSUME RetryTyped, NEW p \in Pcaps, job' = [job EXCEPT ![p].stage = @ + 1]
    PROVE  Moves(p, [job[p] EXCEPT !.stage = @ + 1])
<1>1. job' = [job EXCEPT ![p] = [job[p] EXCEPT !.stage = @ + 1]]
  BY DEF RetryTyped
<1>2. [job[p] EXCEPT !.stage = @ + 1] \in Jobs
  <2>1. job[p] \in Jobs /\ job[p].stage + 1 \in Nat
    BY DEF RetryTyped, Jobs
  <2>2. [job[p] EXCEPT !.stage = @ + 1] = [job[p] EXCEPT !.stage = job[p].stage + 1]
    BY <2>1
  <2> QED
    BY <2>1, <2>2 DEF Jobs
<1> QED
  BY <1>1, <1>2, Moved

\* Every step keeps the types.
LEMMA TypedStep ==
    ASSUME RetryTyped, RetryNext, \A p \in Pcaps : EntryInv(p)
    PROVE  RetryTyped'
<1> USE DEF RetryTyped
<1>1. ASSUME NEW limited \in BOOLEAN, Start(limited) PROVE RetryTyped'
  <2>1. Idle \in Jobs /\ [Idle EXCEPT !.pc = "queued"] \in Jobs
    BY DEF Idle, Jobs, JobPcs, Verdicts
  <2>2. job' \in [Pcaps -> Jobs]
    BY <1>1, <2>1 DEF Start
  <2> QED
    BY <1>1, <2>2 DEF Start
<1>2. ASSUME NEW p \in Pcaps, Gather(p) PROVE RetryTyped'
  <2>1. job' \in [Pcaps -> Jobs]
    <3>1. Go(p, "idle")
      BY <1>2 DEF Gather, Collect, CollectRaises
    <3> QED
      BY <3>1, GoMoves DEF JobPcs, Moves
  <2>2. rows' \in [Pcaps -> [status : Verdicts, attempt : Nat]]
    <3>1. job[p].status \in Verdicts /\ job[p].attempt \in Nat
      BY DEF Jobs
    <3>2. \/ rows' = rows
          \/ rows' = [rows EXCEPT ![p] = [status |-> job[p].status, attempt |-> job[p].attempt]]
      BY <1>2 DEF Gather, Collect, CollectRaises
    <3>3. [status |-> job[p].status, attempt |-> job[p].attempt] \in
             [status : Verdicts, attempt : Nat]
      BY <3>1
    <3> QED
      BY <3>2, <3>3
  <2> QED
    BY <1>2, <2>1, <2>2 DEF Gather, Collect, CollectRaises
<1>3. ASSUME NEW p \in Pcaps, Sign(p) PROVE RetryTyped'
  BY <1>3, SignMoves DEF Sign, Moves
<1>4. ASSUME NEW p \in Pcaps, SignFails(p) PROVE RetryTyped'
  BY <1>4 DEF SignFails, Jobs, JobPcs
<1>5. ASSUME NEW p \in Pcaps, MakeFolder(p) PROVE RetryTyped'
  <2>1. NewAttempt \in Folders
    BY DEF NewAttempt, Folders, Verdicts
  <2>2. outputs' \in [Pcaps -> Seq(Folders)]
    <3>1. Append(outputs[p], NewAttempt) \in Seq(Folders)
      BY <2>1
    <3>2. outputs' = outputs \/ outputs' = [outputs EXCEPT ![p] = Append(@, NewAttempt)]
      BY <1>5 DEF MakeFolder
    <3> QED
      BY <3>1, <3>2
  <2>4. job' \in [Pcaps -> Jobs]
    BY <1>5, FolderMoves, RaiseMoves DEF MakeFolder, Moves
  <2> QED
    BY <1>5, <2>2, <2>4 DEF MakeFolder
<1>6. ASSUME NEW p \in Pcaps, Prepare(p) PROVE RetryTyped'
  <2>1. job' \in [Pcaps -> Jobs]
    <3>1. CASE Raises(p)
      BY <3>1, RaiseMoves DEF Moves
    <3>2. CASE job' = [job EXCEPT ![p].pc = "stage", ![p].stage = 1]
      BY <3>2, StageMoves DEF Moves, JobPcs
    <3>3. CASE job' = [job EXCEPT ![p].pc = "finally", ![p].status = "no_eligible_packets"]
      BY <3>3, EndMoves DEF Moves, JobPcs, Verdicts
    <3> QED
      BY <1>6, <3>1, <3>2, <3>3 DEF Prepare
  <2> QED
    BY <1>6, <2>1 DEF Prepare
<1>7. ASSUME NEW p \in Pcaps, Finally(p) PROVE RetryTyped'
  <2> DEFINE status == IF Preserved(p) THEN job[p].status ELSE "failed"
  <2>1. status \in Verdicts /\ job[p].attempt \in Nat
    BY DEF Jobs, Verdicts
  <2> HIDE DEF status
  <2>2. \/ /\ job' = [job EXCEPT ![p].pc = "done", ![p].status = status]
           /\ outputs' = IF job[p].attempt = 0 THEN outputs
                         ELSE [outputs EXCEPT ![p][job[p].attempt].validation = status]
        \/ /\ job' = [job EXCEPT ![p].pc = "raised", ![p].status = status]
           /\ outputs' = outputs
    BY <1>7 DEF Finally, status
  <2>3. job' \in [Pcaps -> Jobs]
    BY <2>1, <2>2, EndMoves DEF JobPcs, Moves
  <2>4. outputs' \in [Pcaps -> Seq(Folders)]
    <3>1. CASE outputs' = outputs
      BY <3>1
    <3>2. CASE /\ outputs' = [outputs EXCEPT ![p][job[p].attempt].validation = status]
               /\ job[p].attempt # 0
      <4>1. job[p].attempt \in 1 .. Len(outputs[p])
        BY <1>7, <2>1, <3>2 DEF Finally, At, EntryInv, Newest
      <4>2. outputs[p] \in Seq(Folders) /\ outputs[p][job[p].attempt] \in Folders
        BY <4>1
      <4>3. [outputs[p][job[p].attempt] EXCEPT !.validation = status] \in Folders
        BY <2>1, <4>2 DEF Folders
      <4> DEFINE folder == [outputs[p][job[p].attempt] EXCEPT !.validation = status]
      <4>4. outputs' = [outputs EXCEPT ![p] = [outputs[p] EXCEPT ![job[p].attempt] = folder]]
        BY <3>2
      <4>5. folder \in Folders
        BY <4>3
      <4> HIDE DEF folder
      <4>6. [outputs[p] EXCEPT ![job[p].attempt] = folder] \in Seq(Folders)
        BY <4>1, <4>2, <4>5
      <4> QED
        BY <4>4, <4>6
    <3> QED
      BY <2>2, <3>1, <3>2
  <2> QED
    BY <1>7, <2>3, <2>4 DEF Finally
<1>8. ASSUME NEW p \in Pcaps, RunStage(p) PROVE RetryTyped'
  <2>1. job[p].attempt \in 1 .. Len(outputs[p]) /\ job[p].stage \in 1 .. Len(Stages(p))
    BY <1>8 DEF RunStage, At, EntryInv, Newest, Progressed, Jobs
  <2>2. outputs' \in [Pcaps -> Seq(Folders)]
    BY <1>8, <2>1, WroteEffect DEF RunStage
  <2>3. job' \in [Pcaps -> Jobs]
    BY <1>8, NextStageMoves, EndMoves DEF RunStage, Moves, JobPcs, Verdicts
  <2> QED
    BY <1>8, <2>2, <2>3 DEF RunStage
<1>9. ASSUME NEW p \in Pcaps, StageFails(p) PROVE RetryTyped'
  BY <1>9, RaiseMoves DEF StageFails, Moves
<1>10. ASSUME NEW p \in Pcaps, Modify(p) PROVE RetryTyped'
  BY <1>10 DEF Modify
<1>11. CASE End
  BY <1>11 DEF End
<1>12. CASE Abort
  BY <1>12 DEF Abort, Idle, Jobs, JobPcs, Verdicts
<1>13. CASE Kill
  <2>1. \A p \in Pcaps : <<p, job[p].attempt, job[p].stage>> \in Pcaps \X Nat \X Nat
    BY DEF Jobs
  <2>2. orphans' \subseteq Pcaps \X Nat \X Nat
    BY <1>13, <2>1 DEF Kill
  <2>3. job' \in [Pcaps -> Jobs]
    BY <1>13 DEF Kill, Idle, Jobs, JobPcs, Verdicts
  <2> QED
    BY <1>13, <2>2, <2>3 DEF Kill
<1>14. ASSUME NEW o \in orphans, OrphanWrites(o) PROVE RetryTyped'
  <2>1. o[1] \in Pcaps /\ o[2] \in 1 .. Len(outputs[o[1]]) /\ o[3] \in 1 .. Len(Stages(o[1]))
    BY DEF EntryInv, OrphanApart
  <2>2. outputs' \in [Pcaps -> Seq(Folders)]
    BY <1>14, <2>1, WroteEffect DEF OrphanWrites
  <2> QED
    BY <1>14, <2>2 DEF OrphanWrites
<1> QED
  BY <1>1, <1>2, <1>3, <1>4, <1>5, <1>6, <1>7, <1>8, <1>9, <1>10, <1>11, <1>12, <1>13, <1>14
     DEF RetryNext, ThreadStep, StageEnds

\* A step of one entry's thread cannot disturb the other entries.
LEMMA OthersKept ==
    ASSUME RetryTyped, \A q \in Pcaps : EntryInv(q), NEW p \in Pcaps, EntryInv(p)',
           UNCHANGED <<capture, version, orphans>>,
           \A q \in Pcaps \ {p} : UNCHANGED <<job[q], outputs[q], rows[q]>>
    PROVE  \A q \in Pcaps : EntryInv(q)'
<1>1. ASSUME NEW q \in Pcaps \ {p} PROVE EntryInv(q)'
  BY UntouchedKept DEF Untouched
<1> QED
  BY <1>1

\* A step that leaves every entry alone keeps what is known of all.
LEMMA AllUntouchedKept ==
    ASSUME RetryTyped, \A q \in Pcaps : EntryInv(q), \A q \in Pcaps : Untouched(q)
    PROVE  \A q \in Pcaps : EntryInv(q)'
BY UntouchedKept

\* What the parts say of one entry, with the lengths as numbers.
LEMMA EntryFacts ==
    ASSUME RetryTyped, NEW p \in Pcaps, EntryInv(p)
    PROVE  /\ job[p] \in Jobs /\ job[p].attempt \in Nat /\ job[p].stage \in Nat
           /\ outputs[p] \in Seq(Folders) /\ Len(outputs[p]) \in Nat
           /\ rows[p].attempt \in Nat /\ version[p] \in Nat
           /\ rows[p].attempt <= Len(outputs[p])
BY DEF RetryTyped, Jobs, EntryInv, RowNamed

\* main, as_completed: the row takes over the verdict of an entry that is done,
\* whose folder is whole; nobody works in a folder that a row names.
LEMMA CollectKeeps ==
    ASSUME RetryTyped, \A q \in Pcaps : EntryInv(q), NEW p \in Pcaps, Collect(p)
    PROVE  \A q \in Pcaps : EntryInv(q)'
<1>1. /\ job'[p].pc = "idle" /\ \A q \in Pcaps \ {p} : job'[q] = job[q]
      /\ rows'[p] = [status |-> job[p].status, attempt |-> job[p].attempt]
      /\ \A q \in Pcaps \ {p} : rows'[q] = rows[q]
      /\ job[p].pc = "done"
      /\ UNCHANGED <<capture, version, outputs, orphans>>
  <2>1. Moves(p, [job[p] EXCEPT !.pc = "idle"])
    BY GoMoves DEF Collect, JobPcs
  <2>2. [job[p] EXCEPT !.pc = "idle"].pc = "idle"
    BY EntryFacts DEF Jobs
  <2> QED
    BY <2>1, <2>2 DEF Collect, At, Moves, RetryTyped
<1>2. Stages(p)' = Stages(p)
  BY <1>1 DEF Stages
<1>3. RowNamed(p)' /\ RowTrue(p)'
  BY <1>1, <1>2, EntryFacts DEF EntryInv, RowNamed, RowTrue, Newest, Progressed, Whole, Folder
<1>4. Newest(p)' /\ Progressed(p)'
  BY <1>1 DEF Newest, Progressed
<1>5. OrphanApart(p)'
  <2>1. ASSUME NEW o \in orphans, o[1] = p
        PROVE  o[2] \in 1 .. Len(outputs[p]) /\ o[2] # job[p].attempt /\ o[3] \in 1 .. Len(Stages(p))
    BY <1>1, <2>1, EntryFacts DEF EntryInv, Newest, OrphanApart
  <2> QED
    BY <1>1, <1>2, <2>1 DEF OrphanApart
<1> QED
  BY <1>1, <1>3, <1>4, <1>5, OthersKept DEF EntryInv

\* retry begins without an attempt; an input that is not the one of the old batch
\* is not worked on.
LEMMA SignKeeps ==
    ASSUME RetryTyped, \A q \in Pcaps : EntryInv(q), NEW p \in Pcaps, Sign(p) \/ SignFails(p)
    PROVE  \A q \in Pcaps : EntryInv(q)'
<1>1. /\ UNCHANGED <<capture, version, outputs, orphans, rows>>
      /\ job[p].pc = "queued" /\ job[p].attempt = 0 /\ job[p].status = "failed"
  BY DEF Sign, SignFails, At, EntryInv, Newest
<1>2. /\ \/ job'[p].pc = "folder" /\ version[p] = 0
         \/ job'[p].pc \in {"finally", "done"}
      /\ job'[p].pc = "folder" => job'[p].before = 0
      /\ job'[p].attempt = 0 /\ job'[p].status = "failed"
      /\ \A q \in Pcaps \ {p} : job'[q] = job[q]
  <2>1. CASE Sign(p)
    <3> DEFINE r == [job[p] EXCEPT !.pc = IF version[p] = 0 THEN "folder" ELSE "finally",
                                   !.before = version[p]]
    <3>1. Moves(p, r)
      BY <2>1, SignMoves
    <3>2. r.pc = (IF version[p] = 0 THEN "folder" ELSE "finally") /\ r.before = version[p]
          /\ r.attempt = job[p].attempt /\ r.status = job[p].status
      BY EntryFacts DEF Jobs
    <3> QED
      BY <1>1, <3>1, <3>2 DEF Moves
  <2>2. CASE SignFails(p)
    <3>1. Moves(p, [job[p] EXCEPT !.pc = "done"])
      <4>1. Go(p, "done")
        BY <2>2 DEF SignFails, Go
      <4> QED
        BY <4>1, GoMoves DEF JobPcs
    <3>2. /\ [job[p] EXCEPT !.pc = "done"].pc = "done"
          /\ [job[p] EXCEPT !.pc = "done"].attempt = job[p].attempt
          /\ [job[p] EXCEPT !.pc = "done"].status = job[p].status
      BY EntryFacts DEF Jobs
    <3> QED
      BY <1>1, <3>1, <3>2 DEF Moves
  <2> QED
    BY <2>1, <2>2
<1>3. Stages(p)' = Stages(p)
  BY <1>1 DEF Stages
<1>4. RowNamed(p)' /\ RowTrue(p)' /\ OrphanApart(p)'
  BY <1>1, <1>3 DEF EntryInv, RowNamed, RowTrue, OrphanApart, Whole
<1>5. Newest(p)' /\ Progressed(p)'
  BY <1>2 DEF Newest, Progressed, Good
<1> QED
  BY <1>1, <1>2, <1>4, <1>5, OthersKept DEF EntryInv

\* An exception in retry: the verdict is "failed", whatever was there.
LEMMA RaiseKeeps ==
    ASSUME RetryTyped, \A q \in Pcaps : EntryInv(q), NEW p \in Pcaps, Raises(p),
           job[p].pc \in {"folder", "probe", "stage"},
           UNCHANGED <<capture, version, outputs, orphans, rows>>
    PROVE  \A q \in Pcaps : EntryInv(q)'
<1>1. /\ job'[p].pc = "finally" /\ job'[p].status = "failed" /\ job'[p].attempt = job[p].attempt
      /\ \A q \in Pcaps \ {p} : job'[q] = job[q]
  <2>1. Failed(p).pc = "finally" /\ Failed(p).status = "failed" /\ Failed(p).attempt = job[p].attempt
    BY EntryFacts DEF Jobs, Failed
  <2> QED
    BY <2>1, RaiseMoves DEF Moves
<1>2. Stages(p)' = Stages(p)
  BY DEF Stages
<1>3. RowNamed(p)' /\ RowTrue(p)' /\ OrphanApart(p)'
  BY <1>2 DEF EntryInv, RowNamed, RowTrue, OrphanApart, Whole
<1>4. Newest(p)'
  BY <1>1 DEF EntryInv, Newest
<1>5. Progressed(p)'
  BY <1>1 DEF Progressed, Good
<1> QED
  BY <1>1, <1>3, <1>4, <1>5, OthersKept DEF EntryInv

\* The new attempt folder is the newest, and no row and no stage of a killed retry
\* knows it: a folder that exists is never taken again.
LEMMA FolderKeeps ==
    ASSUME RetryTyped, \A q \in Pcaps : EntryInv(q), NEW p \in Pcaps, MakeFolder(p)
    PROVE  \A q \in Pcaps : EntryInv(q)'
<1>1. /\ UNCHANGED <<capture, version, orphans, rows>>
      /\ job[p].pc = "folder" /\ job[p].before = 0
  BY DEF MakeFolder, At, EntryInv, Progressed
<1>2. CASE Raises(p) /\ UNCHANGED outputs
  BY <1>1, <1>2, RaiseKeeps
<1>3. CASE /\ outputs' = [outputs EXCEPT ![p] = Append(@, NewAttempt)]
           /\ job' = [job EXCEPT ![p].pc = "probe", ![p].attempt = Len(outputs[p]) + 1]
  <2> DEFINE n == Len(outputs[p]) + 1
             r == [job[p] EXCEPT !.pc = "probe", !.attempt = Len(outputs[p]) + 1]
  <2>1. Moves(p, r)
    BY <1>3, FolderMoves
  <2>2. r.pc = "probe" /\ r.attempt = n /\ r.before = job[p].before
    BY EntryFacts DEF Jobs
  <2>3. /\ job'[p].pc = "probe" /\ job'[p].attempt = n /\ job'[p].before = 0
        /\ \A q \in Pcaps \ {p} : job'[q] = job[q]
    BY <1>1, <2>1, <2>2 DEF Moves
  <2>4. /\ outputs'[p] = Append(outputs[p], NewAttempt)
        /\ \A q \in Pcaps \ {p} : outputs'[q] = outputs[q]
    BY <1>3 DEF RetryTyped
  <2>5. /\ Len(outputs'[p]) = n /\ outputs'[p][n] = NewAttempt
        /\ \A i \in 1 .. Len(outputs[p]) : outputs'[p][i] = outputs[p][i]
    BY <2>4, EntryFacts
  <2>6. Stages(p)' = Stages(p)
    BY <1>1 DEF Stages
  <2>7. n \in Nat /\ n # 0 /\ rows[p].attempt < n /\ rows[p].attempt <= n
    BY EntryFacts
  <2>8. RowNamed(p)'
    BY <1>1, <2>5, <2>7 DEF EntryInv, RowNamed
  <2>9. RowTrue(p)'
    <3>1. ASSUME rows[p].status \in Good PROVE rows[p].attempt \in 1 .. Len(outputs[p])
      BY <3>1, EntryFacts DEF EntryInv, RowNamed
    <3>2. CASE rows[p].status \in Good
      <4>1. outputs'[p][rows[p].attempt] = outputs[p][rows[p].attempt]
        BY <2>5, <3>1, <3>2
      <4> QED
        BY <1>1, <2>6, <4>1 DEF EntryInv, RowTrue, Whole
    <3> QED
      BY <1>1, <3>2 DEF RowTrue
  <2>10. ASSUME NEW o \in orphans, o[1] = p PROVE o[2] \in 1 .. n /\ o[2] # n
    <3>1. o[2] \in 1 .. Len(outputs[p])
      BY <2>10 DEF EntryInv, OrphanApart
    <3> QED
      BY <3>1, EntryFacts
  <2>11. OrphanApart(p)'
    BY <1>1, <2>5, <2>6, <2>10 DEF EntryInv, OrphanApart
  <2>12. Newest(p)'
    BY <1>1, <2>3, <2>5, <2>7, <2>10 DEF Newest
  <2>13. Progressed(p)'
    BY <2>3, <2>5 DEF Progressed, Folder, NewAttempt
  <2> QED
    BY <1>1, <2>3, <2>4, <2>8, <2>9, <2>11, <2>12, <2>13, OthersKept DEF EntryInv
<1> QED
  BY <1>2, <1>3 DEF MakeFolder

\* prepare_capture: the stages begin in an empty folder; a capture without eligible
\* packets ends with a verdict that promises no output.
LEMMA PrepareKeeps ==
    ASSUME RetryTyped, \A q \in Pcaps : EntryInv(q), NEW p \in Pcaps, Prepare(p)
    PROVE  \A q \in Pcaps : EntryInv(q)'
<1>1. /\ UNCHANGED <<capture, version, orphans, rows, outputs>>
      /\ job[p].pc = "probe" /\ job[p].before = 0 /\ Folder(p).wrote = {} /\ job[p].attempt # 0
  BY DEF Prepare, At, EntryInv, Progressed, Newest
<1>2. CASE Raises(p)
  BY <1>1, <1>2, RaiseKeeps
<1>3. Stages(p)' = Stages(p)
  BY <1>1 DEF Stages
<1>4. RowNamed(p)' /\ RowTrue(p)' /\ OrphanApart(p)'
  BY <1>1, <1>3 DEF EntryInv, RowNamed, RowTrue, OrphanApart, Whole
<1>5. CASE job' = [job EXCEPT ![p].pc = "stage", ![p].stage = 1]
  <2> DEFINE r == [job[p] EXCEPT !.pc = "stage", !.stage = 1]
  <2>1. Moves(p, r)
    BY <1>5, StageMoves DEF JobPcs
  <2>2. r.pc = "stage" /\ r.stage = 1 /\ r.before = job[p].before /\ r.attempt = job[p].attempt
    BY EntryFacts DEF Jobs
  <2>3. /\ job'[p].pc = "stage" /\ job'[p].stage = 1 /\ job'[p].before = 0
        /\ job'[p].attempt = job[p].attempt /\ \A q \in Pcaps \ {p} : job'[q] = job[q]
    BY <1>1, <2>1, <2>2 DEF Moves
  <2>4. Newest(p)'
    BY <1>1, <2>3 DEF EntryInv, Newest
  <2>5. Upto(p, 0) = {} /\ 1 \in 1 .. Len(Stages(p))
    BY StageKinds DEF Upto
  <2>6. Progressed(p)'
    BY <1>1, <1>3, <2>3, <2>5 DEF Progressed, Folder, Upto
  <2> QED
    BY <1>1, <1>4, <2>3, <2>4, <2>6, OthersKept DEF EntryInv
<1>6. CASE job' = [job EXCEPT ![p].pc = "finally", ![p].status = "no_eligible_packets"]
  <2> DEFINE r == [job[p] EXCEPT !.pc = "finally", !.status = "no_eligible_packets"]
  <2>1. Moves(p, r)
    BY <1>6, EndMoves DEF JobPcs, Verdicts
  <2>2. r.pc = "finally" /\ r.status = "no_eligible_packets" /\ r.attempt = job[p].attempt
    BY EntryFacts DEF Jobs
  <2>3. /\ job'[p].pc = "finally" /\ job'[p].status = "no_eligible_packets"
        /\ job'[p].attempt = job[p].attempt /\ \A q \in Pcaps \ {p} : job'[q] = job[q]
    BY <2>1, <2>2 DEF Moves
  <2>4. Newest(p)'
    BY <1>1, <2>3 DEF EntryInv, Newest
  <2>5. Progressed(p)'
    BY <2>3 DEF Progressed, Good
  <2> QED
    BY <1>1, <1>4, <2>3, <2>4, <2>5, OthersKept DEF EntryInv
<1> QED
  BY <1>2, <1>5, <1>6 DEF Prepare

\* A write into a folder that no row names keeps what the rows say.
LEMMA RowsKeptByWrite ==
    ASSUME RetryTyped, NEW p \in Pcaps, EntryInv(p), NEW a \in 1 .. Len(outputs[p]),
           a # rows[p].attempt, UNCHANGED <<capture, rows>>,
           Len(outputs'[p]) = Len(outputs[p]),
           \A i \in 1 .. Len(outputs[p]) : i # a => outputs'[p][i] = outputs[p][i]
    PROVE  RowNamed(p)' /\ RowTrue(p)'
<1>1. Stages(p)' = Stages(p)
  BY DEF Stages
<1>2. RowNamed(p)'
  BY DEF EntryInv, RowNamed
<1>3. CASE rows[p].status \in Good
  <2>1. rows[p].attempt \in 1 .. Len(outputs[p])
    BY <1>3, EntryFacts DEF EntryInv, RowNamed
  <2>2. outputs'[p][rows[p].attempt] = outputs[p][rows[p].attempt]
    BY <2>1
  <2> QED
    BY <1>1, <1>2, <2>2 DEF EntryInv, RowTrue, Whole
<1> QED
  BY <1>2, <1>3 DEF RowTrue

\* The stages before one and that one.
LEMMA UptoNext ==
    ASSUME RetryTyped, NEW p \in Pcaps, NEW s \in 1 .. Len(Stages(p)), NEW w, w = Upto(p, s - 1)
    PROVE  {x \in w : x[1] # Stages(p)[s]} \cup {<<Stages(p)[s], 0>>} = Upto(p, s)
<1>1. \A i \in 1 .. (s - 1) : Stages(p)[i] # Stages(p)[s]
  BY StageKinds
<1>2. {x \in w : x[1] # Stages(p)[s]} = w
  BY <1>1 DEF Upto
<1>3. 1 .. s = (1 .. (s - 1)) \cup {s}
  BY StageKinds
<1> QED
  BY <1>2, <1>3 DEF Upto

\* command: a stage writes its files from the capture as it is, after the files of
\* the stages before it; with the last one the folder is whole.
LEMMA StageKeeps ==
    ASSUME RetryTyped, \A q \in Pcaps : EntryInv(q), NEW p \in Pcaps, RunStage(p)
    PROVE  \A q \in Pcaps : EntryInv(q)'
<1> DEFINE a == job[p].attempt
           s == job[p].stage
<1>1. /\ UNCHANGED <<capture, version, orphans, rows>>
      /\ job[p].pc = "stage" /\ job[p].before = 0
      /\ a \in 1 .. Len(outputs[p]) /\ a = Len(outputs[p]) /\ a # 0 /\ rows[p].attempt < a
      /\ s \in 1 .. Len(Stages(p))
      /\ version[p] = 0 => outputs[p][a].wrote = Upto(p, s - 1)
      /\ Wrote(p, a, s)
  BY EntryFacts DEF RunStage, At, EntryInv, Newest, Progressed, Folder
<1>2. Stages(p)' = Stages(p)
  BY <1>1 DEF Stages
<1>3. /\ \A q \in Pcaps \ {p} : outputs'[q] = outputs[q]
      /\ Len(outputs'[p]) = Len(outputs[p])
      /\ \A i \in 1 .. Len(outputs[p]) : i # a => outputs'[p][i] = outputs[p][i]
      /\ version[p] = 0 => outputs'[p][a].wrote = Upto(p, s)
  <2>1. outputs'[p][a].wrote = {w \in outputs[p][a].wrote : w[1] # Stages(p)[s]}
                                  \cup {<<Stages(p)[s], version[p]>>}
    BY <1>1, WroteEffect
  <2>2. version[p] = 0 => outputs'[p][a].wrote = Upto(p, s)
    BY <1>1, <2>1, UptoNext
  <2> QED
    BY <1>1, <2>2, WroteEffect
<1>4. RowNamed(p)' /\ RowTrue(p)'
  BY <1>1, <1>3, EntryFacts, RowsKeptByWrite
<1>5. OrphanApart(p)'
  BY <1>1, <1>2, <1>3 DEF EntryInv, OrphanApart
<1>6. /\ \/ job'[p].pc = "stage" /\ s < Len(Stages(p)) /\ job'[p].stage = s + 1
         \/ job'[p].pc = "finally" /\ ~(s < Len(Stages(p)))
      /\ job'[p].before = 0 /\ job'[p].attempt = a
      /\ \A q \in Pcaps \ {p} : job'[q] = job[q]
  <2>1. CASE s < Len(Stages(p)) /\ job' = [job EXCEPT ![p].stage = @ + 1]
    <3>1. /\ [job[p] EXCEPT !.stage = @ + 1].pc = "stage"
          /\ [job[p] EXCEPT !.stage = @ + 1].stage = s + 1
          /\ [job[p] EXCEPT !.stage = @ + 1].before = 0
          /\ [job[p] EXCEPT !.stage = @ + 1].attempt = a
      BY <1>1, EntryFacts DEF Jobs
    <3> QED
      BY <2>1, <3>1, NextStageMoves DEF Moves
  <2>2. ASSUME NEW v \in Verdicts, ~(s < Len(Stages(p))),
               job' = [job EXCEPT ![p].pc = "finally", ![p].status = v]
        PROVE  /\ job'[p].pc = "finally" /\ job'[p].before = 0 /\ job'[p].attempt = a
               /\ \A q \in Pcaps \ {p} : job'[q] = job[q]
    <3> DEFINE r == [job[p] EXCEPT !.pc = "finally", !.status = v]
    <3>1. r.pc = "finally" /\ r.before = 0 /\ r.attempt = a
      BY <1>1, EntryFacts DEF Jobs
    <3>2. Moves(p, r)
      BY <2>2, EndMoves DEF JobPcs
    <3> QED
      BY <3>1, <3>2 DEF Moves
  <2> QED
    BY <2>1, <2>2 DEF RunStage, Verdicts
<1>7. Newest(p)'
  BY <1>1, <1>3, <1>6 DEF EntryInv, Newest
<1>8. Progressed(p)'
  <2>1. CASE job'[p].pc = "stage"
    <3>1. s + 1 \in 1 .. Len(Stages(p)) /\ (s + 1) - 1 = s
      BY <1>1, <1>6, <2>1, StageKinds
    <3>2. {<<Stages(p)'[i], 0>> : i \in 1 .. s} = Upto(p, s)
      BY <1>2 DEF Upto
    <3> QED
      BY <1>1, <1>2, <1>3, <1>6, <2>1, <3>1, <3>2 DEF Progressed, Folder, Upto
  <2>2. CASE job'[p].pc = "finally"
    <3>1. s = Len(Stages(p))
      BY <1>1, <1>6, <2>2, StageKinds
    <3>2. Upto(p, s) = Whole(p) /\ Whole(p)' = Whole(p)
      BY <1>2, <3>1, StageKinds DEF Upto, Whole
    <3> QED
      BY <1>1, <1>3, <1>6, <2>2, <3>2 DEF Progressed, Folder
  <2> QED
    BY <1>6, <2>1, <2>2
<1> QED
  BY <1>1, <1>3, <1>4, <1>5, <1>6, <1>7, <1>8, OthersKept DEF EntryInv

\* The finally clause: a verdict that promises a result goes out only with an input
\* that is still the one of the old batch, and validation.json has the same verdict.
LEMMA FinallyKeeps ==
    ASSUME RetryTyped, \A q \in Pcaps : EntryInv(q), NEW p \in Pcaps, Finally(p)
    PROVE  \A q \in Pcaps : EntryInv(q)'
<1> DEFINE a == job[p].attempt
           v == IF Preserved(p) THEN job[p].status ELSE "failed"
<1>1. /\ UNCHANGED <<capture, version, orphans, rows>>
      /\ job[p].pc = "finally"
      /\ a # 0 => a \in 1 .. Len(outputs[p]) /\ a = Len(outputs[p]) /\ rows[p].attempt < a
      /\ v \in Verdicts
      /\ v \in Good => a # 0 /\ outputs[p][a].wrote = Whole(p)
  <2>1. v \in Verdicts
    BY EntryFacts DEF Jobs, Verdicts
  <2>2. v \in Good => a # 0 /\ outputs[p][a].wrote = Whole(p)
    BY DEF Finally, At, EntryInv, Progressed, Folder, Preserved, Good
  <2> QED
    BY <2>1, <2>2, EntryFacts DEF Finally, At, EntryInv, Newest
<1>2. \/ /\ job' = [job EXCEPT ![p].pc = "done", ![p].status = v]
         /\ outputs' = IF a = 0 THEN outputs ELSE [outputs EXCEPT ![p][a].validation = v]
      \/ /\ job' = [job EXCEPT ![p].pc = "raised", ![p].status = v]
         /\ outputs' = outputs
  BY DEF Finally
<1> HIDE DEF v
<1>3. /\ job'[p].pc \in {"done", "raised"} /\ job'[p].status = v /\ job'[p].attempt = a
      /\ \A q \in Pcaps \ {p} : job'[q] = job[q]
  <2>1. ASSUME NEW pc \in {"done", "raised"}, job' = [job EXCEPT ![p].pc = pc, ![p].status = v]
        PROVE  /\ job'[p].pc = pc /\ job'[p].status = v /\ job'[p].attempt = a
               /\ \A q \in Pcaps \ {p} : job'[q] = job[q]
    <3> DEFINE r == [job[p] EXCEPT !.pc = pc, !.status = v]
    <3>1. r.pc = pc /\ r.status = v /\ r.attempt = a
      BY EntryFacts DEF Jobs
    <3>2. Moves(p, r)
      BY <1>1, <2>1, EndMoves DEF JobPcs
    <3> QED
      BY <3>1, <3>2 DEF Moves
  <2> QED
    BY <1>2, <2>1
<1>4. /\ \A q \in Pcaps \ {p} : outputs'[q] = outputs[q]
      /\ Len(outputs'[p]) = Len(outputs[p])
      /\ \A i \in 1 .. Len(outputs[p]) : i # a => outputs'[p][i] = outputs[p][i]
      /\ a # 0 => outputs'[p][a].wrote = outputs[p][a].wrote
      /\ a # 0 /\ job'[p].pc = "done" => outputs'[p][a].validation = v
  <2>1. CASE outputs' = outputs /\ (a # 0 => job'[p].pc = "raised")
    BY <2>1
  <2>2. CASE a # 0 /\ outputs' = [outputs EXCEPT ![p][a].validation = v]
    <3>1. a \in 1 .. Len(outputs[p]) /\ outputs[p] \in Seq(Folders) /\ outputs[p][a] \in Folders
      BY <1>1, <2>2, EntryFacts
    <3> DEFINE folder == [outputs[p][a] EXCEPT !.validation = v]
    <3>2. folder.wrote = outputs[p][a].wrote /\ folder.validation = v
      BY <3>1 DEF Folders
    <3>3. outputs' = [outputs EXCEPT ![p] = [outputs[p] EXCEPT ![a] = folder]]
      BY <2>2
    <3> HIDE DEF folder
    <3>4. outputs'[p] = [outputs[p] EXCEPT ![a] = folder]
          /\ \A q \in Pcaps \ {p} : outputs'[q] = outputs[q]
      BY <3>3 DEF RetryTyped
    <3> QED
      BY <3>1, <3>2, <3>4
  <2>3. ASSUME job' = [job EXCEPT ![p].pc = "raised", ![p].status = v] PROVE job'[p].pc = "raised"
    <3>1. Moves(p, [job[p] EXCEPT !.pc = "raised", !.status = v])
      BY <1>1, <2>3, EndMoves DEF JobPcs
    <3>2. [job[p] EXCEPT !.pc = "raised", !.status = v].pc = "raised"
      BY EntryFacts DEF Jobs
    <3> QED
      BY <3>1, <3>2 DEF Moves
  <2> QED
    BY <1>2, <2>1, <2>2, <2>3
<1>5. Stages(p)' = Stages(p)
  BY <1>1 DEF Stages
<1>6. RowNamed(p)' /\ RowTrue(p)'
  <2>1. CASE a = 0
    <3>1. outputs' = outputs
      BY <1>2, <2>1
    <3> QED
      BY <1>1, <1>5, <3>1 DEF EntryInv, RowNamed, RowTrue, Whole
  <2>2. CASE a # 0
    BY <1>1, <1>4, <2>2, EntryFacts, RowsKeptByWrite
  <2> QED
    BY <2>1, <2>2
<1>7. OrphanApart(p)'
  BY <1>1, <1>4, <1>5 DEF EntryInv, OrphanApart
<1>8. Newest(p)'
  BY <1>1, <1>3, <1>4 DEF EntryInv, Newest
<1>9. Progressed(p)'
  <2>1. Whole(p)' = Whole(p)
    BY <1>5 DEF Whole
  <2> QED
    BY <1>1, <1>3, <1>4, <2>1 DEF Progressed, Folder
<1> QED
  BY <1>1, <1>3, <1>4, <1>6, <1>7, <1>8, <1>9, OthersKept DEF EntryInv

\* A stage of a killed retry ends: no row names its folder, no thread works in it.
LEMMA OrphanKeeps ==
    ASSUME RetryTyped, \A q \in Pcaps : EntryInv(q), NEW o \in orphans, OrphanWrites(o)
    PROVE  \A q \in Pcaps : EntryInv(q)'
<1> DEFINE p == o[1]
           a == o[2]
<1>1. p \in Pcaps /\ o[3] \in Nat
  BY DEF RetryTyped
<1>2. /\ a \in 1 .. Len(outputs[p]) /\ a # rows[p].attempt /\ o[3] \in 1 .. Len(Stages(p))
      /\ Wrote(p, a, o[3])
      /\ UNCHANGED <<capture, version, rows, job>> /\ orphans' \subseteq orphans
  BY <1>1 DEF OrphanWrites, EntryInv, OrphanApart
<1> HIDE DEF p, a
<1>3. /\ \A q \in Pcaps \ {p} : outputs'[q] = outputs[q]
      /\ Len(outputs'[p]) = Len(outputs[p])
      /\ \A i \in 1 .. Len(outputs[p]) : i # a => outputs'[p][i] = outputs[p][i]
  BY <1>1, <1>2, WroteEffect
<1>4. Stages(p)' = Stages(p)
  BY <1>2 DEF Stages
<1>5. RowNamed(p)' /\ RowTrue(p)'
  BY <1>1, <1>2, <1>3, RowsKeptByWrite
<1>6. OrphanApart(p)'
  BY <1>1, <1>2, <1>3, <1>4 DEF EntryInv, OrphanApart
<1>7. Newest(p)'
  BY <1>1, <1>2, <1>3 DEF EntryInv, Newest
<1>8. job[p].pc \in {"probe", "stage", "finally", "done"} /\ job[p].attempt # 0 =>
         outputs'[p][job[p].attempt] = outputs[p][job[p].attempt]
  <2>1. CASE job[p].pc \in {"probe", "stage", "finally", "done"} /\ job[p].attempt # 0
    <3>1. job[p].attempt \in 1 .. Len(outputs[p]) /\ job[p].attempt # a
      BY <1>1, <2>1, EntryFacts DEF EntryInv, Newest, p, a
    <3> QED
      BY <1>3, <3>1
  <2> QED
    BY <2>1
<1>9. Progressed(p)'
  <2>1. Whole(p)' = Whole(p) /\ job[p].pc \in {"probe", "stage"} => job[p].attempt # 0
    BY <1>1, <1>4 DEF EntryInv, Newest, Whole
  <2>2. Progressed(p)
    BY <1>1 DEF EntryInv
  <2> QED
    BY <1>2, <1>4, <1>8, <2>1, <2>2 DEF Progressed, Folder, Upto, Whole
<1>10. EntryInv(p)'
  BY <1>5, <1>6, <1>7, <1>9 DEF EntryInv
<1>11. ASSUME NEW q \in Pcaps \ {p} PROVE EntryInv(q)'
  BY <1>2, <1>3, UntouchedKept DEF Untouched
<1> QED
  BY <1>10, <1>11

\* The retry is killed: its stages go on in folders that no row names, and no
\* thread that a later retry starts works there.
LEMMA KillKeeps ==
    ASSUME RetryTyped, \A q \in Pcaps : EntryInv(q), Kill
    PROVE  \A q \in Pcaps : EntryInv(q)'
<1>1. /\ UNCHANGED <<capture, version, rows, outputs>>
      /\ \A q \in Pcaps : job'[q] = Idle
      /\ orphans' = orphans \cup {<<q, job[q].attempt, job[q].stage>> :
                                     q \in {x \in Pcaps : job[x].pc = "stage"}}
  BY DEF Kill, At
<1>2. ASSUME NEW q \in Pcaps PROVE EntryInv(q)'
  <2>1. Stages(q)' = Stages(q)
    BY <1>1 DEF Stages
  <2>2. ASSUME NEW o \in orphans', o[1] = q
        PROVE  /\ o[2] \in 1 .. Len(outputs[q]) /\ o[2] # rows[q].attempt
               /\ o[3] \in 1 .. Len(Stages(q))
    <3>1. CASE o \in orphans
      BY <2>2, <3>1 DEF EntryInv, OrphanApart
    <3>2. CASE o = <<q, job[q].attempt, job[q].stage>> /\ job[q].pc = "stage"
      BY <3>2, EntryFacts DEF EntryInv, Newest, Progressed
    <3> QED
      BY <1>1, <2>2, <3>1, <3>2
  <2>3. OrphanApart(q)'
    BY <1>1, <2>1, <2>2 DEF OrphanApart
  <2> QED
    BY <1>1, <2>3, RestingKept DEF Idle
<1> QED
  BY <1>2

\* Every step keeps the invariant of every entry.
LEMMA EntryStep ==
    ASSUME RetryTyped, \A q \in Pcaps : EntryInv(q), RetryNext
    PROVE  \A q \in Pcaps : EntryInv(q)'
<1>1. ASSUME NEW limited \in BOOLEAN, Start(limited) PROVE \A q \in Pcaps : EntryInv(q)'
  <2>1. UNCHANGED <<capture, version, rows, outputs, orphans>>
    BY <1>1 DEF Start
  <2>2. ASSUME NEW q \in Pcaps PROVE EntryInv(q)'
    <3>1. job'[q] = Idle \/ job'[q] = [Idle EXCEPT !.pc = "queued"]
      BY <1>1 DEF Start
    <3>2. OrphanApart(q)'
      BY <2>1 DEF EntryInv, OrphanApart, Stages
    <3> QED
      BY <2>1, <3>1, <3>2, RestingKept DEF Idle
  <2> QED
    BY <2>2
<1>2. ASSUME NEW p \in Pcaps, CollectRaises(p) PROVE \A q \in Pcaps : EntryInv(q)'
  <2>1. UNCHANGED <<capture, version, rows, outputs, orphans>> /\ Go(p, "idle")
    BY <1>2 DEF CollectRaises
  <2>2. OrphanApart(p)'
    BY <2>1 DEF EntryInv, OrphanApart, Stages
  <2>3. Moves(p, [job[p] EXCEPT !.pc = "idle"]) /\ [job[p] EXCEPT !.pc = "idle"].pc = "idle"
    BY <2>1, GoMoves, EntryFacts DEF JobPcs, Jobs
  <2>4. EntryInv(p)'
    BY <2>1, <2>2, <2>3, RestingKept DEF Moves
  <2> QED
    BY <2>1, <2>3, <2>4, OthersKept DEF Moves
<1>3. ASSUME NEW p \in Pcaps, StageFails(p) PROVE \A q \in Pcaps : EntryInv(q)'
  BY <1>3, RaiseKeeps DEF StageFails, At
<1>4. ASSUME NEW p \in Pcaps, Modify(p) PROVE \A q \in Pcaps : EntryInv(q)'
  <2>1. \A q \in Pcaps : version'[q] # version[q] => version'[q] # 0
    BY <1>4 DEF Modify, RetryTyped
  <2> QED
    BY <1>4, <2>1, AllUntouchedKept DEF Modify, Untouched
<1>5. CASE End
  BY <1>5, AllUntouchedKept DEF End, Untouched
<1>6. CASE Abort
  <2>1. UNCHANGED <<capture, version, rows, outputs, orphans>> /\ \A q \in Pcaps : job'[q] = Idle
    BY <1>6 DEF Abort
  <2>2. ASSUME NEW q \in Pcaps PROVE EntryInv(q)'
    <3>1. OrphanApart(q)'
      BY <2>1 DEF EntryInv, OrphanApart, Stages
    <3> QED
      BY <2>1, <3>1, RestingKept DEF Idle
  <2> QED
    BY <2>2
<1> QED
  BY <1>1, <1>2, <1>3, <1>4, <1>5, <1>6, CollectKeeps, SignKeeps, FolderKeeps, PrepareKeeps,
     StageKeeps, FinallyKeeps, OrphanKeeps, KillKeeps
     DEF RetryNext, Gather, ThreadStep, StageEnds

\* The inductive invariant, for each entry: its row names a folder it has; the
\* thread of an entry works in the newest folder, which no row names and no stage
\* of a killed retry writes; and while the capture is the one of the old batch,
\* that folder holds what the stages so far have written.
THEOREM RetryInvariant == RetrySpec => []RetryInv
<1>1. RetryInit => RetryInv
  BY TypedInit
<1>2. RetryInv /\ [RetryNext]_retryVars => RetryInv'
  <2>1. CASE RetryInv /\ RetryNext
    BY <2>1, TypedStep, EntryStep DEF RetryInv
  <2>2. CASE RetryInv /\ UNCHANGED retryVars
    <3>1. RetryTyped'
      BY <2>2 DEF RetryInv, RetryTyped, retryVars
    <3>2. \A q \in Pcaps : EntryInv(q)'
      BY <2>2, AllUntouchedKept DEF RetryInv, Untouched, retryVars
    <3> QED
      BY <3>1, <3>2 DEF RetryInv
  <2> QED
    BY <2>1, <2>2
<1> QED
  BY <1>1, <1>2, PTL DEF RetrySpec

\* A row of results.jsonl that says an entry is done (retry and main of
\* retry_failed.py) names an attempt in which every stage wrote, all from the
\* capture the old batch saw, with the same verdict; whatever is killed, fails or
\* is changed, for any entries, number of threads and of retries.
THEOREM SuccessesAreWhole == RetrySpec => []SuccessIsWhole
<1>1. RetryInv => SuccessIsWhole
  BY DEF RetryInv, EntryInv, RowTrue, Good, Whole, SuccessIsWhole
<1> QED
  BY <1>1, RetryInvariant, PTL

-----------------------------------------------------------------------------
(* ProgressFeed                                                            *)

\* The types.
Positions == [run : Nat, position : Nat]
Pages == [run : Nat, to : Nat, observed : Nat, left : SUBSET Units, found : SUBSET Units]
Calls == [pc : {"idle", "ask", "scan"}, final : BOOLEAN, run : Nat, position : Nat, page : Pages]
Fetchers == [pc : {"down", "entry", "units"}, at : Nat, todo : SUBSET Browsers]

FeedTyped ==
    /\ run \in Nat
    /\ fetcher \in Fetchers
    /\ markers \in [Units -> Nat]
    /\ progress \in Positions
    /\ task \in {"active", "ended"}
    /\ cursor \in Positions
    /\ sync \in Calls
    /\ evidence \subseteq Units
    /\ ending \in {"no", "heard", "missed"}

\* A position that the fetcher has left behind.
Reached(ofRun, position) ==
    ofRun < run \/ (ofRun = run /\ (fetcher = Down \/ position < fetcher.at))

\* No marker is of a run to come; a fetcher at work is at an item of its run.
FetcherAt ==
    /\ \A u \in Units : markers[u] <= run
    /\ fetcher # Down => fetcher.at # 0 /\ run # 0 /\ task = "active"

\* What is recorded, or held by the Master, has been left behind.
PositionsReached ==
    /\ Reached(progress.run, progress.position)
    /\ Reached(cursor.run, cursor.position)
    /\ Reached(sync.run, sync.position)
    /\ Reached(sync.page.run, sync.page.observed)

\* A page ends within the file it was made from, and gets further unless it is
\* the last one.
PageInFile ==
    /\ sync.page.to <= sync.page.observed
    /\ sync.page.run = 0 => sync.page.observed = 0
    /\ progress.run = 0 => progress.position = 0
    /\ sync.pc = "scan" /\ sync.page.to < sync.page.observed =>
          sync.page.to > (IF sync.page.run = sync.run THEN sync.position ELSE 0)

\* What lies behind the position of the call is in the rows, or found or still to
\* be read of its page.
Passed(u, ofRun, position) == markers[u] # 0 /\ markers[u] <= ofRun /\ ItemOf(u) <= position

CallIsTrue ==
    /\ \A u \in Units : Passed(u, sync.run, sync.position) => u \in evidence
    /\ sync.pc = "scan" => \A u \in Units :
          Passed(u, sync.page.run, sync.page.to) =>
              u \in evidence \cup sync.page.found \cup sync.page.left

\* The last look at an ended task sees the file as it stays.
LastLook ==
    /\ sync.pc = "idle" => sync = Resting
    /\ sync.final => task = "ended"
    /\ sync.final /\ sync.page.run # 0 =>
          sync.page.run = progress.run /\ sync.page.observed = progress.position
    /\ ending # "no" => sync = Resting /\ task = "ended"

\* The inductive invariant.
FeedInv ==
    /\ FeedTyped /\ FetcherAt /\ PositionsReached /\ PageInFile /\ CallIsTrue /\ LastLook
    /\ SyncedIsReported /\ EndIncludesRecorded

USE DEF feedVars, workerVars, masterVars

\* The items of the input are numbered from 1.
LEMMA UnitItems == ASSUME NEW u \in Units PROVE ItemOf(u) \in Nat \ {0}
BY FeedAssumption DEF Units, ItemOf

\* The values that stand for nothing have their types.
LEMMA RestTyped == Resting \in Calls /\ NoPage \in Pages /\ NoProgress \in Positions /\ Down \in Fetchers
BY DEF Resting, Calls, NoPage, Pages, NoProgress, Positions, Down, Fetchers

\* The smaller of two numbers, as capture_progress computes the end of its page.
LEMMA MinOfTwo ==
    ASSUME NEW a \in Nat, NEW b \in Nat
    PROVE  Min({a, b}) \in Nat /\ Min({a, b}) = IF a <= b THEN a ELSE b
<1>1. \E x \in {a, b} : \A y \in {a, b} : x <= y
  OBVIOUS
<1> QED
  BY <1>1 DEF Min

\* Before the first run nothing is recorded and nothing is synchronised.
LEMMA FeedInitHolds == ASSUME FeedInit PROVE FeedInv
<1>1. FeedTyped
  BY RestTyped DEF FeedInit, FeedTyped
<1>2. FetcherAt /\ PositionsReached /\ PageInFile /\ LastLook
  BY DEF FeedInit, FetcherAt, PositionsReached, Reached, PageInFile, LastLook, Resting, NoPage, NoProgress
<1>3. CallIsTrue /\ SyncedIsReported /\ EndIncludesRecorded
  BY <1>1 DEF FeedInit, CallIsTrue, Passed, SyncedIsReported, Recorded, EndIncludesRecorded, Resting, NoPage, NoProgress
<1> QED
  BY <1>1, <1>2, <1>3 DEF FeedInv

\* The fields of the call and of the page it holds.
LEMMA CallFields ==
    ASSUME FeedTyped
    PROVE  /\ sync.run \in Nat /\ sync.position \in Nat /\ sync.page \in Pages
           /\ sync.page.run \in Nat /\ sync.page.to \in Nat /\ sync.page.observed \in Nat
           /\ sync.page.left \subseteq Units /\ sync.page.found \subseteq Units
           /\ progress.run \in Nat /\ progress.position \in Nat
           /\ cursor.run \in Nat /\ cursor.position \in Nat
           /\ fetcher.at \in Nat /\ run \in Nat
<1>1. sync \in Calls /\ sync.page \in Pages
  BY DEF FeedTyped, Calls
<1> QED
  BY <1>1 DEF FeedTyped, Calls, Pages, Positions, Fetchers

\* Steps of the fetcher and its run leave what the Master knows, and no position is left behind less.
LEMMA WorkerKeeps ==
    ASSUME FeedInv, FeedTyped', FetcherAt', UNCHANGED masterVars,
           \A r, p \in Nat : Reached(r, p) => Reached(r, p)',
           Reached(progress.run, progress.position)',
           progress'.run = 0 => progress'.position = 0,
           \A u \in Units : \/ markers'[u] = markers[u] \/ markers'[u] = 0
                            \/ /\ markers'[u] = run /\ fetcher # Down /\ ItemOf(u) = fetcher.at,
           task = "ended" => task' = "ended" /\ progress' = progress
    PROVE  FeedInv'
<1>1. PositionsReached'
  BY CallFields DEF FeedInv, PositionsReached
<1>2. PageInFile' /\ LastLook'
  BY DEF FeedInv, PageInFile, LastLook
<1>3. ASSUME NEW u \in Units, NEW r \in Nat, NEW p \in Nat, Reached(r, p), Passed(u, r, p)'
      PROVE  Passed(u, r, p)
  <2>1. markers[u] \in Nat /\ markers'[u] \in Nat /\ ItemOf(u) \in Nat \ {0}
    BY UnitItems DEF FeedInv, FeedTyped
  <2>2. CASE markers'[u] = markers[u] \/ markers'[u] = 0
    BY <1>3, <2>1, <2>2 DEF Passed
  <2>3. CASE markers'[u] = run /\ fetcher # Down /\ ItemOf(u) = fetcher.at
    BY <1>3, <2>1, <2>3, CallFields DEF Passed, Reached, FeedInv
  <2> QED
    BY <2>2, <2>3
<1>4. CallIsTrue'
  <2>1. \A u \in Units : Passed(u, sync.run, sync.position)' => u \in evidence
    BY <1>3, CallFields DEF FeedInv, CallIsTrue, PositionsReached, Passed
  <2>2. Reached(sync.page.run, sync.page.to)
    BY CallFields DEF FeedInv, PositionsReached, PageInFile, Reached
  <2>3. sync.pc = "scan" => \A u \in Units : Passed(u, sync.page.run, sync.page.to)' =>
             u \in evidence \cup sync.page.found \cup sync.page.left
    BY <1>3, <2>2, CallFields DEF FeedInv, CallIsTrue, Passed
  <2> QED
    BY <2>1, <2>3 DEF CallIsTrue
<1>5. SyncedIsReported'
  BY <1>3, CallFields DEF FeedInv, SyncedIsReported, PositionsReached, Passed, Recorded
<1>6. EndIncludesRecorded'
  <2>1. CASE ending = "heard"
    <3>1. progress' = progress
      BY <2>1 DEF FeedInv, LastLook
    <3> QED
      BY <1>3, <2>1, <3>1, CallFields
         DEF FeedInv, EndIncludesRecorded, PositionsReached, Passed, Recorded
  <2> QED
    BY <2>1 DEF EndIncludesRecorded
<1> QED
  BY <1>1, <1>2, <1>4, <1>5, <1>6 DEF FeedInv

\* The steps of the fetcher and of its task, and the loss of an artifact.
LEMMA WorkerStep ==
    ASSUME FeedInv,
           \/ StartRun \/ Entry \/ WriteProgress \/ RunBreaks \/ TaskEnds
           \/ \E b \in Browsers : Fetch(b)
           \/ \E u \in Units : LoseArtifact(u)
    PROVE  FeedInv'
<1> USE DEF FeedInv
<1>1. CASE StartRun
  <2>1. fetcher' = [pc |-> "entry", at |-> 1, todo |-> {}] /\ run' = run + 1
    BY <1>1 DEF StartRun
  <2>2. FeedTyped'
    BY <1>1, <2>1, CallFields DEF StartRun, FeedTyped, Fetchers
  <2>3. FetcherAt'
    BY <1>1, <2>1, CallFields DEF StartRun, FetcherAt, FeedTyped
  <2>4. \A r, p \in Nat : Reached(r, p) => Reached(r, p)'
    BY <2>1, CallFields DEF Reached
  <2>5. Reached(progress.run, progress.position)'
    BY <1>1, <2>4, CallFields DEF StartRun, PositionsReached
  <2> QED
    BY <1>1, <2>2, <2>3, <2>4, <2>5, WorkerKeeps DEF StartRun, PageInFile
<1>2. CASE Entry
  <2> DEFINE f == [fetcher EXCEPT !.pc = "units",
                                  !.todo = {b \in Browsers : markers[<<fetcher.at, b>>] = 0}]
  <2>1. fetcher' = f /\ fetcher # Down
    BY <1>2 DEF Entry, Down
  <2>2. f \in Fetchers /\ f.at = fetcher.at /\ f # Down
    BY DEF FeedTyped, Fetchers, Down
  <2> HIDE DEF f
  <2>3. FeedTyped' /\ FetcherAt'
    BY <1>2, <2>1, <2>2 DEF Entry, FeedTyped, FetcherAt
  <2>4. \A r, p \in Nat : Reached(r, p) => Reached(r, p)'
    BY <1>2, <2>1, <2>2 DEF Entry, Reached
  <2>5. Reached(progress.run, progress.position)'
    BY <1>2, <2>4, CallFields DEF Entry, PositionsReached
  <2> QED
    BY <1>2, <2>3, <2>4, <2>5, WorkerKeeps DEF Entry, PageInFile
<1>3. ASSUME NEW b \in Browsers, Fetch(b) PROVE FeedInv'
  <2> DEFINE f == [fetcher EXCEPT !.todo = @ \ {b}]
             w == <<fetcher.at, b>>
  <2>1. fetcher' = f /\ fetcher # Down
    BY <1>3 DEF Fetch, Down
  <2>2. f \in Fetchers /\ f.at = fetcher.at /\ f # Down
    BY <1>3 DEF FeedTyped, Fetchers, Down, Fetch
  <2> HIDE DEF f
  <2>3. PICK mark \in {0, run} : markers' = [markers EXCEPT ![w] = mark]
    BY <1>3 DEF Fetch
  <2>4. markers' \in [Units -> Nat]
    <3>1. mark \in Nat /\ markers \in [Units -> Nat]
      BY CallFields DEF FeedTyped
    <3> QED
      BY <2>3, <3>1
  <2>5. \A u \in Units : \/ markers'[u] = markers[u] \/ markers'[u] = 0
                         \/ /\ markers'[u] = run /\ fetcher # Down /\ ItemOf(u) = fetcher.at
    BY <2>1, <2>3 DEF FeedTyped, ItemOf
  <2>6. FeedTyped' /\ FetcherAt'
    <3>1. FeedTyped'
      BY <1>3, <2>1, <2>2, <2>4 DEF Fetch, FeedTyped
    <3>2. \A u \in Units : markers'[u] <= run
      BY <2>5, CallFields DEF FetcherAt
    <3> QED
      BY <1>3, <2>1, <2>2, <3>1, <3>2 DEF Fetch, FetcherAt
  <2>7. \A r, p \in Nat : Reached(r, p) => Reached(r, p)'
    BY <1>3, <2>1, <2>2 DEF Fetch, Reached
  <2>8. Reached(progress.run, progress.position)'
    BY <1>3, <2>7, CallFields DEF Fetch, PositionsReached
  <2> QED
    BY <1>3, <2>5, <2>6, <2>7, <2>8, WorkerKeeps DEF Fetch, PageInFile
<1>4. CASE WriteProgress
  <2>1. /\ progress' = [run |-> run, position |-> fetcher.at]
        /\ \/ fetcher' = [pc |-> "entry", at |-> fetcher.at + 1, todo |-> {}]
           \/ fetcher' = Down
        /\ fetcher # Down /\ task = "active"
    BY <1>4 DEF WriteProgress, FetcherAt, Down
  <2>2. FeedTyped'
    <3>1. progress' \in Positions
      BY <2>1, CallFields DEF Positions
    <3>2. fetcher' \in Fetchers
      BY <2>1, CallFields, RestTyped DEF Fetchers
    <3> QED
      BY <1>4, <3>1, <3>2 DEF WriteProgress, FeedTyped
  <2>3. FetcherAt'
    BY <1>4, <2>1, CallFields DEF WriteProgress, FetcherAt
  <2>4. \A r, p \in Nat : Reached(r, p) => Reached(r, p)'
    BY <1>4, <2>1, CallFields DEF WriteProgress, Reached
  <2>5. Reached(progress.run, progress.position)'
    BY <1>4, <2>1, CallFields DEF WriteProgress, Reached
  <2>6. progress'.run = 0 => progress'.position = 0
    BY <2>1 DEF FetcherAt
  <2> QED
    BY <1>4, <2>1, <2>2, <2>3, <2>4, <2>5, <2>6, WorkerKeeps DEF WriteProgress
<1>5. CASE RunBreaks
  <2>1. fetcher' = Down
    BY <1>5 DEF RunBreaks
  <2>2. FeedTyped' /\ FetcherAt'
    BY <1>5, <2>1, RestTyped DEF RunBreaks, FeedTyped, FetcherAt
  <2>3. \A r, p \in Nat : Reached(r, p) => Reached(r, p)'
    BY <1>5, <2>1, CallFields DEF RunBreaks, Reached
  <2>4. Reached(progress.run, progress.position)'
    BY <1>5, <2>3, CallFields DEF RunBreaks, PositionsReached
  <2> QED
    BY <1>5, <2>2, <2>3, <2>4, WorkerKeeps DEF RunBreaks, PageInFile
<1>6. CASE TaskEnds
  <2>1. FeedTyped' /\ FetcherAt'
    BY <1>6 DEF TaskEnds, FeedTyped, FetcherAt
  <2>2. \A r, p \in Nat : Reached(r, p) => Reached(r, p)'
    BY <1>6 DEF TaskEnds, Reached
  <2>3. Reached(progress.run, progress.position)'
    BY <1>6, <2>2, CallFields DEF TaskEnds, PositionsReached
  <2> QED
    BY <1>6, <2>1, <2>2, <2>3, WorkerKeeps DEF TaskEnds, PageInFile
<1>7. ASSUME NEW w \in Units, LoseArtifact(w) PROVE FeedInv'
  <2>1. markers' = [markers EXCEPT ![w] = 0]
    BY <1>7 DEF LoseArtifact
  <2>2. FeedTyped' /\ FetcherAt'
    BY <1>7, <2>1, CallFields DEF LoseArtifact, FeedTyped, FetcherAt
  <2>3. \A r, p \in Nat : Reached(r, p) => Reached(r, p)'
    BY <1>7 DEF LoseArtifact, Reached
  <2>4. Reached(progress.run, progress.position)'
    BY <1>7, <2>3, CallFields DEF LoseArtifact, PositionsReached
  <2>5. \A u \in Units : markers'[u] = markers[u] \/ markers'[u] = 0
    BY <2>1 DEF FeedTyped
  <2> QED
    BY <1>7, <2>2, <2>3, <2>4, <2>5, WorkerKeeps DEF LoseArtifact, PageInFile
<1> QED
  BY <1>1, <1>2, <1>3, <1>4, <1>5, <1>6, <1>7

\* A call that rests holds no position and no page.
LEMMA RestingCall ==
    ASSUME FeedInv, sync' = Resting, UNCHANGED workerVars
    PROVE  /\ Reached(sync.run, sync.position)' /\ Reached(sync.page.run, sync.page.observed)'
           /\ PageInFile' /\ CallIsTrue' /\ sync' \in Calls
           /\ sync'.final = FALSE
<1>1. /\ sync'.pc = "idle" /\ sync'.final = FALSE /\ sync'.run = 0 /\ sync'.position = 0
      /\ sync'.page.run = 0 /\ sync'.page.to = 0 /\ sync'.page.observed = 0
  BY DEF Resting, NoPage
<1>2. 0 < run \/ (0 = run /\ fetcher = Down)
  BY CallFields DEF FeedInv, FetcherAt
<1>3. CallIsTrue'
  BY <1>1, UnitItems DEF FeedInv, FeedTyped, CallIsTrue, Passed
<1> QED
  BY <1>1, <1>2, <1>3, RestTyped DEF Reached, PageInFile, FeedInv

\* A call begins at the cursor of its target.
LEMMA BeginStep == ASSUME FeedInv, BeginSync PROVE FeedInv'
<1> USE DEF FeedInv
<1>1. sync' = [pc |-> "ask", final |-> (task = "ended"), run |-> cursor.run,
               position |-> cursor.position, page |-> NoPage]
  BY DEF BeginSync, Resting
<1>2. sync' \in Calls
  BY <1>1, CallFields, RestTyped DEF Calls
<1>3. FeedTyped' /\ FetcherAt'
  BY <1>2 DEF BeginSync, FeedTyped, FetcherAt
<1>4. /\ sync'.run = cursor.run /\ sync'.position = cursor.position /\ sync'.page = NoPage
      /\ sync'.pc = "ask" /\ sync'.final = (task = "ended")
  BY <1>1
<1>5. NoPage.run = 0 /\ NoPage.to = 0 /\ NoPage.observed = 0
  BY DEF NoPage
<1>6. PositionsReached'
  BY <1>4, <1>5, CallFields DEF BeginSync, PositionsReached, Reached, FetcherAt
<1>7. PageInFile' /\ LastLook'
  <2>1. sync'.page.run = 0 /\ sync'.page.to = 0 /\ sync'.page.observed = 0
    BY <1>4, <1>5
  <2>2. PageInFile'
    BY <1>4, <2>1 DEF BeginSync, PageInFile
  <2>3. sync'.final => task' = "ended"
    BY <1>4 DEF BeginSync
  <2>4. ending' = "no"
    BY DEF BeginSync
  <2> QED
    BY <1>4, <2>1, <2>2, <2>3, <2>4 DEF LastLook
<1>8. CallIsTrue'
  BY <1>4 DEF BeginSync, CallIsTrue, SyncedIsReported, Passed, Recorded
<1>9. SyncedIsReported' /\ EndIncludesRecorded'
  BY DEF BeginSync, SyncedIsReported, EndIncludesRecorded, Recorded
<1> QED
  BY <1>3, <1>6, <1>7, <1>8, <1>9

\* capture_progress takes its page from the progress file: what the page leaves out
\* before its start lies behind the cursor of the call.
LEMMA AskStep == ASSUME FeedInv, Ask PROVE FeedInv'
<1> USE DEF FeedInv
<1>1. \E page \in {Page(sync.position, sync.run), NoPage} :
         sync' = [sync EXCEPT !.pc = "scan", !.page = page]
  BY DEF Ask
<1> DEFINE start == IF sync.run = progress.run THEN Min({sync.position, progress.position}) ELSE 0
           end == Min({progress.position, start + PageSize})
           asked == Page(sync.position, sync.run)
<1>2. /\ start \in Nat /\ start <= sync.position
      /\ sync.run = progress.run /\ start < progress.position => start = sync.position
  BY CallFields, MinOfTwo
<1>3. /\ end \in Nat /\ end <= progress.position
      /\ end < progress.position => end > start /\ start < progress.position
  BY <1>2, CallFields, MinOfTwo, FeedAssumption
<1>4. /\ asked.run = progress.run /\ asked.to = end /\ asked.observed = progress.position
      /\ asked.left = {u \in Units : start < ItemOf(u) /\ ItemOf(u) <= end} /\ asked.found = {}
      /\ asked \in Pages
  BY <1>3, CallFields DEF Page, Pages
<1>5. /\ NoPage.run = 0 /\ NoPage.to = 0 /\ NoPage.observed = 0 /\ NoPage.left = {}
      /\ NoPage.found = {} /\ NoPage \in Pages
  BY RestTyped DEF NoPage
<1> HIDE DEF start, end, asked
<1>6. ASSUME NEW page \in {asked, NoPage}, sync' = [sync EXCEPT !.pc = "scan", !.page = page]
      PROVE  FeedInv'
  <2>1. /\ sync' \in Calls /\ sync'.pc = "scan" /\ sync'.page = page /\ sync'.run = sync.run
        /\ sync'.position = sync.position /\ sync'.final = sync.final
    BY <1>4, <1>5, <1>6 DEF FeedTyped, Calls
  <2>2. FeedTyped' /\ FetcherAt'
    BY <2>1 DEF Ask, FeedTyped, FetcherAt
  <2>3. PositionsReached'
    BY <1>4, <1>5, <2>1, CallFields DEF Ask, PositionsReached, Reached, FetcherAt
  <2>4. PageInFile'
    BY <1>2, <1>3, <1>4, <1>5, <2>1, CallFields DEF Ask, PageInFile
  <2>5. \A u \in Units : Passed(u, page.run, page.to) =>
            u \in evidence \cup page.found \cup page.left
    <3>1. ASSUME NEW u \in Units, Passed(u, asked.run, asked.to) PROVE u \in evidence \cup asked.left
      <4>1. ItemOf(u) \in Nat \ {0} /\ markers[u] \in Nat
        BY UnitItems DEF FeedTyped
      <4>2. CASE start < ItemOf(u)
        BY <1>4, <3>1, <4>2 DEF Passed
      <4>3. CASE ~(start < ItemOf(u))
        <5>1. sync.run = progress.run /\ ItemOf(u) <= sync.position
          BY <1>2, <4>1, <4>3, CallFields DEF start
        <5>2. Passed(u, sync.run, sync.position)
          BY <1>4, <3>1, <5>1 DEF Passed
        <5> QED
          BY <5>2 DEF CallIsTrue
      <4> QED
        BY <4>2, <4>3
    <3>2. ASSUME NEW u \in Units PROVE ~Passed(u, NoPage.run, NoPage.to)
      BY <1>5, UnitItems DEF Passed
    <3> QED
      BY <3>1, <3>2
  <2>6. CallIsTrue'
    BY <2>1, <2>5 DEF Ask, CallIsTrue, Passed
  <2>7. LastLook'
    <3>1. ending = "no"
      BY DEF Ask, LastLook, Resting
    <3> QED
      BY <1>4, <1>5, <2>1, <3>1 DEF Ask, LastLook
  <2>8. SyncedIsReported' /\ EndIncludesRecorded'
    BY DEF Ask, SyncedIsReported, EndIncludesRecorded, Recorded
  <2> QED
    BY <2>2, <2>3, <2>4, <2>6, <2>7, <2>8
<1> QED
  BY <1>1, <1>6 DEF asked

\* A marker of the page is read: its unit is found, or was not committed.
LEMMA ReadStep == ASSUME FeedInv, NEW w \in Units, ReadMarker(w) PROVE FeedInv'
<1> USE DEF FeedInv
<1> DEFINE found == IF markers[w] # 0 THEN sync.page.found \cup {w} ELSE sync.page.found
           page == [sync.page EXCEPT !.left = @ \ {w}, !.found = found]
<1>1. sync.pc = "scan" /\ sync' = [sync EXCEPT !.page = page]
  BY DEF ReadMarker, FeedTyped, Calls, Pages
<1>2. /\ page \in Pages /\ page.run = sync.page.run /\ page.to = sync.page.to
      /\ page.observed = sync.page.observed
      /\ page.left = sync.page.left \ {w} /\ page.found = found
  BY CallFields DEF Pages
<1>3. found = IF markers[w] # 0 THEN sync.page.found \cup {w} ELSE sync.page.found
  OBVIOUS
<1> HIDE DEF page, found
<1>4. /\ sync' \in Calls /\ sync'.pc = "scan" /\ sync'.page = page /\ sync'.run = sync.run
      /\ sync'.position = sync.position /\ sync'.final = sync.final
  BY <1>1, <1>2 DEF FeedTyped, Calls
<1>5. FeedTyped' /\ FetcherAt'
  BY <1>4 DEF ReadMarker, FeedTyped, FetcherAt
<1>6. PositionsReached' /\ PageInFile'
  BY <1>1, <1>2, <1>4 DEF ReadMarker, PositionsReached, Reached, PageInFile
<1>7. CallIsTrue'
  BY <1>1, <1>2, <1>3, <1>4 DEF ReadMarker, CallIsTrue, Passed
<1>8. LastLook'
  <2>1. ending = "no"
    BY <1>1 DEF LastLook, Resting
  <2> QED
    BY <1>2, <1>4, <2>1 DEF ReadMarker, LastLook
<1>9. SyncedIsReported' /\ EndIncludesRecorded'
  BY DEF ReadMarker, SyncedIsReported, EndIncludesRecorded, Recorded
<1> QED
  BY <1>5, <1>6, <1>7, <1>8, <1>9

\* A page arrives: its units are written before the position moves, and the call
\* ends only when nothing recorded is left behind it.
LEMMA ReceiveStep == ASSUME FeedInv, Receive PROVE FeedInv'
<1> USE DEF FeedInv
<1> DEFINE page == sync.page
           ofRun == IF page.run # 0 THEN page.run ELSE sync.run
           previous == IF ofRun # sync.run THEN 0 ELSE sync.position
           how == IF page.run = 0 THEN "missed" ELSE "heard"
<1>1. /\ sync.pc = "scan" /\ page.left = {} /\ evidence' = evidence \cup page.found
      /\ UNCHANGED <<workerVars, feedFaults>> /\ ending = "no"
  BY DEF Receive, LastLook, Resting
<1>2. \/ /\ page.to < page.observed
         /\ sync' = [sync EXCEPT !.pc = "ask", !.run = ofRun, !.position = page.to, !.page = NoPage]
         /\ UNCHANGED <<cursor, ending>>
      \/ /\ ~(page.to < page.observed /\ page.to > previous)
         /\ cursor' = [run |-> ofRun, position |-> page.to]
         /\ sync' = Resting /\ ending' = IF sync.final THEN how ELSE "no"
  BY DEF Receive, Ends
<1>3. evidence' \subseteq Units /\ evidence \subseteq evidence'
  BY <1>1, CallFields DEF FeedTyped
<1>4. \A u \in Units : Passed(u, ofRun, page.to) => u \in evidence'
  <2>1. CASE page.run # 0
    BY <1>1, <2>1 DEF CallIsTrue
  <2>2. CASE page.run = 0
    BY <2>2, CallFields, UnitItems DEF PageInFile, Passed
  <2> QED
    BY <2>1, <2>2
<1>5. ofRun \in Nat /\ page.to \in Nat /\ Reached(ofRun, page.to)
  <2>1. CASE page.run # 0
    BY <2>1, CallFields DEF PositionsReached, PageInFile, Reached
  <2>2. CASE page.run = 0
    BY <2>2, CallFields DEF PositionsReached, PageInFile, Reached
  <2> QED
    BY <2>1, <2>2
<1>6. CASE /\ page.to < page.observed
           /\ sync' = [sync EXCEPT !.pc = "ask", !.run = ofRun, !.position = page.to, !.page = NoPage]
           /\ UNCHANGED <<cursor, ending>>
  <2>1. /\ sync' \in Calls /\ sync'.pc = "ask" /\ sync'.page = NoPage /\ sync'.run = ofRun
        /\ sync'.position = page.to /\ sync'.final = sync.final
    BY <1>5, <1>6, RestTyped DEF FeedTyped, Calls
  <2>2. NoPage.run = 0 /\ NoPage.to = 0 /\ NoPage.observed = 0
    BY DEF NoPage
  <2>3. FeedTyped' /\ FetcherAt'
    BY <1>1, <1>3, <1>6, <2>1 DEF FeedTyped, FetcherAt
  <2>4. PositionsReached' /\ PageInFile'
    BY <1>1, <1>5, <1>6, <2>1, <2>2, CallFields DEF PositionsReached, Reached, PageInFile, FetcherAt
  <2>5. CallIsTrue'
    BY <1>1, <1>4, <2>1 DEF CallIsTrue, Passed
  <2>6. LastLook'
    BY <1>1, <1>6, <2>1, <2>2 DEF LastLook
  <2>7. SyncedIsReported' /\ EndIncludesRecorded'
    BY <1>1, <1>3, <1>6 DEF SyncedIsReported, EndIncludesRecorded, Recorded
  <2> QED
    BY <2>3, <2>4, <2>5, <2>6, <2>7
<1>7. CASE /\ ~(page.to < page.observed /\ page.to > previous)
           /\ cursor' = [run |-> ofRun, position |-> page.to]
           /\ sync' = Resting /\ ending' = IF sync.final THEN how ELSE "no"
  <2>1. cursor'.run = ofRun /\ cursor'.position = page.to /\ cursor' \in Positions
    BY <1>5, <1>7 DEF Positions
  <2>2. FeedTyped' /\ FetcherAt'
    BY <1>1, <1>3, <1>7, <2>1, RestTyped DEF FeedTyped, FetcherAt
  <2>3. PositionsReached' /\ PageInFile' /\ CallIsTrue'
    BY <1>1, <1>5, <1>7, <2>1, RestingCall DEF PositionsReached, Reached
  <2>4. LastLook'
    BY <1>1, <1>7, RestingCall DEF LastLook
  <2>5. SyncedIsReported'
    BY <1>1, <1>4, <2>1 DEF SyncedIsReported, Recorded, Passed
  <2>6. ASSUME ending' = "heard" PROVE \A u \in Units : Recorded(u, progress)' => u \in evidence'
    <3>1. sync.final /\ page.run # 0
      BY <1>7, <2>6
    <3>2. page.run = progress.run /\ page.observed = progress.position
      BY <3>1 DEF LastLook
    <3>3. page.to = page.observed
      BY <1>1, <1>7, <3>1, CallFields DEF PageInFile
    <3> QED
      BY <1>1, <1>4, <3>1, <3>2, <3>3 DEF Recorded, Passed
  <2> QED
    BY <2>2, <2>3, <2>4, <2>5, <2>6 DEF EndIncludesRecorded
<1> QED
  BY <1>2, <1>6, <1>7

\* A call that is lost leaves the cursor where it was, a restarted Master and a
\* resumed job begin again.
LEMMA EndStep == ASSUME FeedInv, Lost \/ MasterRestarts \/ Resume PROVE FeedInv'
<1> USE DEF FeedInv
<1>1. sync' = Resting /\ UNCHANGED <<run, fetcher, markers, progress>>
  BY DEF Lost, MasterRestarts, Resume, Ends, LastLook
<1>2. /\ sync'.pc = "idle" /\ sync'.final = FALSE /\ sync'.run = 0 /\ sync'.position = 0
      /\ sync'.page.run = 0 /\ sync'.page.to = 0 /\ sync'.page.observed = 0 /\ sync' \in Calls
  BY <1>1, RestTyped DEF Resting, NoPage
<1>3. cursor' = cursor \/ cursor' = NoProgress
  BY DEF Lost, MasterRestarts, Resume
<1>4. NoProgress.run = 0 /\ NoProgress.position = 0 /\ NoProgress \in Positions
  BY RestTyped DEF NoProgress
<1>5. FeedTyped'
  BY <1>1, <1>2, <1>3, <1>4 DEF Lost, MasterRestarts, Resume, Ends, FeedTyped
<1>6. FetcherAt'
  BY <1>1 DEF Lost, MasterRestarts, Resume, Ends, FetcherAt, LastLook, FeedTyped
<1>7. PositionsReached' /\ PageInFile'
  BY <1>1, <1>2, <1>3, <1>4, CallFields DEF PositionsReached, Reached, PageInFile, FetcherAt
<1>8. ASSUME NEW u \in Units PROVE ~Passed(u, 0, 0)
  BY UnitItems DEF Passed
<1>9. CallIsTrue'
  BY <1>1, <1>2, <1>8 DEF CallIsTrue, Passed
<1>10. LastLook'
  BY <1>1, <1>2 DEF Lost, MasterRestarts, Resume, Ends, LastLook, FeedTyped
<1>11. SyncedIsReported'
  <2>1. CASE cursor' = NoProgress
    BY <1>1, <1>4, <1>8, <2>1 DEF SyncedIsReported, Recorded, Passed
  <2>2. CASE cursor' = cursor /\ evidence' = evidence
    BY <1>1, <2>2 DEF SyncedIsReported, Recorded
  <2> QED
    BY <2>1, <2>2 DEF Lost, MasterRestarts, Resume
<1>12. EndIncludesRecorded'
  BY <1>1 DEF Lost, MasterRestarts, Resume, Ends, EndIncludesRecorded, Recorded
<1> QED
  BY <1>5, <1>6, <1>7, <1>9, <1>10, <1>11, <1>12

\* The inductive invariant: a position that was recorded, or that the Master holds,
\* lies behind the fetcher; what lies behind the position of a call is in the rows
\* or in the page it holds; and the last call sees what the ended run recorded.
THEOREM FeedInvariant == FeedSpec => []FeedInv
<1>1. FeedInit => FeedInv
  BY FeedInitHolds
<1>2. FeedInv /\ [FeedNext]_feedVars => FeedInv'
  <2>1. CASE FeedInv /\ FeedNext
    BY <2>1, WorkerStep, BeginStep, AskStep, ReadStep, ReceiveStep, EndStep DEF FeedNext
  <2>2. CASE FeedInv /\ UNCHANGED feedVars
    BY <2>2 DEF FeedInv, FeedTyped, FetcherAt, PositionsReached, Reached, PageInFile, CallIsTrue,
                Passed, LastLook, SyncedIsReported, EndIncludesRecorded, Recorded
  <2> QED
    BY <2>1, <2>2
<1> QED
  BY <1>1, <1>2, PTL DEF FeedSpec

\* What lies behind the Master's cursor is in the rows of its target, whichever
\* run committed it, and when the last look at an ended task was answered the rows
\* have every unit its run had recorded (_sync_worker_capture_progress and
\* _run_target); for any number of items, browsers, pages, runs, lost calls and
\* restarts of the Master.
THEOREM CheckpointsReachTheRows == FeedSpec => []CheckpointsAreReported
<1>1. FeedInv => CheckpointsAreReported
  BY DEF FeedInv, CheckpointsAreReported
<1> QED
  BY <1>1, FeedInvariant, PTL

-----------------------------------------------------------------------------
(* FlowTables: what the tables are computed from does not change any more.  *)

\* With the same capture, the same options and the same flow table, the two
\* process functions would write the same files.
LEMMA SameFiles ==
    ASSUME pkts' = pkts, input' = input, table' = table
    PROVE  /\ FlowTable' = FlowTable
           /\ SplitSucceeds' <=> SplitSucceeds
           /\ DecryptedFiles' = DecryptedFiles
           /\ InferredFiles' = InferredFiles
           /\ Eligible' = Eligible
<1>1. Frames' = Frames
  BY DEF Frames
<1>2. Eligible' = Eligible
  BY <1>1 DEF Eligible
<1>3. \A k : FlowSni(k)' = FlowSni(k)
  BY <1>1 DEF FlowSni
<1>4. FlowTable' = FlowTable
  BY <1>1, <1>3 DEF FlowTable
<1>5. Listed' = Listed
  BY <1>2 DEF Listed, TlsFlows
<1>6. Keys' = Keys
  BY <1>5 DEF Keys
<1>7. \A k : Evidence(k)' = Evidence(k)
  BY <1>5 DEF Evidence
<1>8. \A k : Clients(k)' = Clients(k) /\ Snis(k)' = Snis(k) /\ Version(k)' = Version(k) /\ Observed(k)' = Observed(k)
  <2> TAKE k
  <2>1. Evidence(k)' = Evidence(k)
    BY <1>7
  <2>2. Clients(k)' = Clients(k)
    BY <2>1 DEF Clients
  <2>3. Snis(k)' = Snis(k)
    BY <2>1 DEF Snis
  <2>4. Version(k)' = Version(k)
    BY <2>1 DEF Version
  <2>5. Observed(k)' = Observed(k)
    BY <2>1 DEF Observed
  <2> QED
    BY <2>2, <2>3, <2>4, <2>5
<1>9. \A k : DirectionOf(k)' = DirectionOf(k)
  BY <1>8 DEF DirectionOf
<1>10. \A k : PortName(k)' = PortName(k)
  BY <1>9 DEF PortName
<1>11. CollidedStreams' = CollidedStreams
  BY <1>6, <1>10 DEF CollidedStreams
<1>12. \A k : FileName(k)' = FileName(k)
  BY <1>10, <1>11 DEF FileName
<1>13. SplitSucceeds' <=> SplitSucceeds
  BY <1>6, <1>8, <1>12 DEF SplitSucceeds
<1>14. Names' = Names /\ \A n : Named(n)' = Named(n)
  <2>1. Names' = Names
    BY <1>6, <1>12 DEF Names
  <2>2. \A n : Named(n)' = Named(n)
    BY <1>6, <1>12 DEF Named
  <2> QED
    BY <2>1, <2>2
<1>15. \A k : RowsOf(k)' = RowsOf(k)
  BY <1>5 DEF RowsOf
<1>16. \A k : DecryptedFile(k)' = DecryptedFile(k)
  BY <1>8, <1>9, <1>15 DEF DecryptedFile, FlowFile
<1>17. \A k : InferredFile(k)' = InferredFile(k)
  BY <1>8, <1>9, <1>15 DEF InferredFile, FlowFile
<1>18. DecryptedFiles' = DecryptedFiles
  BY <1>14, <1>16 DEF DecryptedFiles
<1>19. InferredFiles' = InferredFiles
  BY <1>14, <1>17 DEF InferredFiles
<1> QED
  BY <1>2, <1>4, <1>13, <1>18, <1>19

\* With the same files, extract_header_seqs would write the same tables.
LEMMA SameTables ==
    ASSUME input' = input, flows' = flows, inferred' = inferred
    PROVE  /\ \A t, c : Paired(t, c)' <=> Paired(t, c)
           /\ \A t : Connections(t)' = Connections(t)
           /\ SummarySucceeds' <=> SummarySucceeds
           /\ Summary' = Summary
<1>1. \A t : FilesOf(t)' = FilesOf(t)
  BY DEF FilesOf
<1>2. \A t, c, d : Sides(t, c, d)' = Sides(t, c, d)
  BY <1>1 DEF Sides
<1>3. \A t, c : Group(t, c)' = Group(t, c)
  BY <1>2 DEF Group
<1>4. \A t, c : Paired(t, c)' <=> Paired(t, c)
  BY <1>3 DEF Paired
<1>5. \A t, c, d : FileOf(t, c, d)' = FileOf(t, c, d)
  BY <1>1, <1>3 DEF FileOf
<1>6. \A t : Connections(t)' = Connections(t)
  BY <1>1 DEF Connections
<1>7. SummarySucceeds' <=> SummarySucceeds
  <2> DEFINE Names4(t, c) == UNION {FileOf(t, c, d).sni : d \in DOMAIN Group(t, c)}
             Both(t, c) == DOMAIN FileOf(t, c, "forward").rows \cap DOMAIN FileOf(t, c, "reverse").rows
             Ok(t, c) == /\ \A d \in Directions : Cardinality(Sides(t, c, d)) <= 1
                         /\ Paired(t, c) \/ input.allowUnpaired
                         /\ Cardinality(Names4(t, c)) <= 1
                         /\ Paired(t, c) => Both(t, c) = {}
  <2>1. \A t, c : Names4(t, c)' = Names4(t, c)
    BY <1>3, <1>5
  <2>2. \A t, c : Both(t, c)' = Both(t, c)
    BY <1>5
  <2>3. SummarySucceeds <=> \A t \in Tables : \A c \in Connections(t) : Ok(t, c)
    BY DEF SummarySucceeds
  <2>4. SummarySucceeds' <=> \A t \in Tables : \A c \in Connections(t)' : Ok(t, c)'
    BY DEF SummarySucceeds, Tables
  <2> HIDE DEF Names4, Both
  <2>5. \A t, c : Ok(t, c)' <=> Ok(t, c)
    BY <1>2, <1>4, <2>1, <2>2
  <2> HIDE DEF Ok
  <2> QED
    BY <1>6, <2>3, <2>4, <2>5
<1>8. \A t, c, d : FlowName(t, c, d)' = FlowName(t, c, d)
  BY <1>3 DEF FlowName
<1>9. \A t, c, d : SummaryRow(t, c, d)' = SummaryRow(t, c, d)
  <2> TAKE t, c, d
  <2> DEFINE sides == IF d = "bidirectional" THEN DOMAIN Group(t, c) ELSE {d}
             counts == [k \in Categories |-> SumOf([x \in sides |-> Count(t, FileOf(t, c, x), k)])]
             lens == HeaderColumn(UNION {Lengths(t, FileOf(t, c, x)) : x \in sides}, d)
  <2>1. sides' = sides
    BY <1>3
  <2>2. \A x : FileOf(t, c, x)' = FileOf(t, c, x)
    BY <1>5
  <2>3. SummaryRow(t, c, d) = [flow |-> FlowName(t, c, d), counts |-> counts, lens |-> lens]
    BY DEF SummaryRow
  <2>4. SummaryRow(t, c, d)' = [flow |-> FlowName(t, c, d)', counts |-> counts', lens |-> lens']
    BY DEF SummaryRow
  <2> HIDE DEF sides
  <2>5. counts' = counts
    BY <2>1, <2>2
  <2>6. lens' = lens
    BY <2>1, <2>2
  <2> HIDE DEF counts, lens
  <2> QED
    BY <1>8, <2>3, <2>4, <2>5, <2>6
<1>10. \A t, d : With(t, d)' = With(t, d)
  BY <1>3, <1>6 DEF With
<1>11. Summary' = Summary
  BY <1>6, <1>9, <1>10 DEF Summary
<1> QED
  BY <1>4, <1>6, <1>7, <1>11

\* With the same capture, files and tables, verify_sequences would say the same.
LEMMA SameVerdict ==
    ASSUME pkts' = pkts, input' = input, flows' = flows, inferred' = inferred,
           sequences' = sequences
    PROVE  TablesVerified' <=> TablesVerified
<1>1. \A t : FilesOf(t)' = FilesOf(t)
  BY DEF FilesOf
<1>2. \A t, i : FilesWith(t, i)' = FilesWith(t, i)
  BY <1>1 DEF FilesWith
<1>3. Eligible' = Eligible
  BY DEF Eligible, Frames
<1>4. \A t : PacketsCovered(t)' <=> PacketsCovered(t)
  BY <1>1, <1>2, <1>3 DEF PacketsCovered
<1>5. \A t : Single(t)' = Single(t)
  BY DEF Single
<1>6. \A t, s : SingleRow(t, s)' = SingleRow(t, s)
  BY DEF SingleRow
<1>7. \A t, r : Sources(t, r)' = Sources(t, r)
  BY <1>5, <1>6 DEF Sources
<1>8. \A t : RowsAccounted(t)' <=> RowsAccounted(t)
  <2> TAKE t
  <2> DEFINE pairRows == sequences[t].bidirectional
             Lens(c) == SumOf([s \in Sources(t, pairRows[c]) |-> Len(SingleRow(t, s).lens)])
             Counts(c, k) == SumOf([s \in Sources(t, pairRows[c]) |-> SingleRow(t, s).counts[k]])
             Ok(c) == /\ Sources(t, pairRows[c]) # {}
                      /\ \A x \in DOMAIN pairRows \ {c} : Sources(t, pairRows[x]) \cap Sources(t, pairRows[c]) = {}
                      /\ Len(pairRows[c].lens) = Lens(c)
                      /\ \A k \in Categories : pairRows[c].counts[k] = Counts(c, k)
             All == UNION {Sources(t, pairRows[c]) : c \in DOMAIN pairRows}
  <2>1. pairRows' = pairRows
    OBVIOUS
  <2>2. RowsAccounted(t) <=> (\A c \in DOMAIN pairRows : Ok(c)) /\ Single(t) = All
    BY DEF RowsAccounted
  <2>3. RowsAccounted(t)' <=> (\A c \in DOMAIN pairRows' : Ok(c)') /\ Single(t)' = All'
    BY DEF RowsAccounted, Categories
  <2> HIDE DEF pairRows
  <2>4. \A c : Lens(c)' = Lens(c)
    BY <1>6, <1>7, <2>1
  <2>5. \A c, k : Counts(c, k)' = Counts(c, k)
    BY <1>6, <1>7, <2>1
  <2>6. All' = All
    BY <1>7, <2>1
  <2> HIDE DEF Lens, Counts, All
  <2>7. \A c : Ok(c)' <=> Ok(c)
    BY <1>7, <2>1, <2>4, <2>5
  <2> HIDE DEF Ok
  <2> QED
    BY <1>5, <2>1, <2>2, <2>3, <2>6, <2>7
<1> QED
  BY <1>4, <1>8 DEF TablesVerified

-----------------------------------------------------------------------------
(* FlowTables: the invariant. *)

Tabled == {"extracted", "classified", "inferred", "summarised", "verified", "rejected"}
Classified == {"classified", "inferred", "summarised", "verified", "rejected"}
Inferred == {"inferred", "summarised", "verified", "rejected"}
Summarised == {"summarised", "verified", "rejected"}

\* What each stage left behind is what it computes from the capture and from the
\* files of the stages before it.
FlowInv ==
    /\ FlowTypeOK
    /\ stage \in {"capturing", "extracted"} => flows = NoFiles
    /\ stage \in Tabled => table = FlowTable
    /\ stage \in Classified =>
          IF input.usableKey THEN SplitSucceeds /\ flows = DecryptedFiles ELSE flows = NoFiles
    /\ stage \in Inferred => SplitSucceeds /\ inferred = InferredFiles
    /\ stage \in Summarised => SummarySucceeds /\ sequences = Summary
    /\ stage = "rejected" => ~TablesVerified /\ input.wanted = {}

\* The flow table lists endpoints of packets.
LEMMA TableOfPackets == FlowTable \subseteq {FlowKey(pkts[i]) : i \in Frames}
  BY DEF FlowTable

LEMMA FlowTypeKept ==
    ASSUME FlowTypeOK, FlowNext
    PROVE  FlowTypeOK'
<1> DEFINE StageSet == {"capturing", "no_eligible_packets", "extracted", "classified", "inferred",
                      "summarised", "verified", "rejected", "failed"}
<1>1. ASSUME UNCHANGED <<pkts, input, table>>, stage' \in StageSet PROVE FlowTypeOK'
  BY <1>1 DEF FlowTypeOK, Frames
<1>2. ASSUME NEW p \in input.network, Capture(p) PROVE FlowTypeOK'
  <2>1. pkts' \in Seq(input.network) /\ Len(pkts') = Len(pkts) + 1 /\ Len(pkts) \in Nat
    BY <1>2 DEF FlowTypeOK, Capture
  <2>2. Len(pkts') <= MaxPackets
    <3>1. Len(pkts) < MaxPackets
      BY <1>2 DEF Capture
    <3> QED
      BY <2>1, <3>1, FlowTablesAssumption
  <2>3. \A i \in Frames : i \in Frames' /\ pkts'[i] = pkts[i]
    BY <1>2, <2>1 DEF Frames, Capture, FlowTypeOK
  <2>4. table' \subseteq {FlowKey(pkts'[i]) : i \in Frames'}
    BY <1>2, <2>3 DEF Capture, FlowTypeOK
  <2> QED
    BY <1>2, <2>1, <2>2, <2>4 DEF FlowTypeOK, Capture
<1>3. ASSUME Extract PROVE FlowTypeOK'
  <2>1. CASE Eligible = {}
    BY <1>1, <1>3, <2>1 DEF Extract
  <2>2. CASE Eligible # {}
    <3>1. UNCHANGED <<pkts, input>> /\ stage' = "extracted" /\ table' = FlowTable
      BY <1>3, <2>2 DEF Extract
    <3>2. table' \subseteq {FlowKey(pkts[i]) : i \in Frames}
      BY <3>1, TableOfPackets
    <3> QED
      BY <3>1, <3>2 DEF FlowTypeOK, Frames
  <2> QED
    BY <2>1, <2>2
<1>4. CASE Classify
  BY <1>1, <1>4 DEF Classify
<1>5. CASE Infer
  BY <1>1, <1>5 DEF Infer
<1>6. CASE Summarize
  BY <1>1, <1>6 DEF Summarize
<1>7. CASE Verify
  BY <1>1, <1>7 DEF Verify
<1>8. CASE Done
  BY <1>1, <1>8 DEF Done, flowVars, FlowTypeOK
<1> QED
  BY <1>2, <1>3, <1>4, <1>5, <1>6, <1>7, <1>8 DEF FlowNext

LEMMA FlowInvStart == FlowInit => FlowInv
<1> SUFFICES ASSUME FlowInit PROVE FlowInv
  OBVIOUS
<1>1. pkts \in Seq(input.network) /\ Len(pkts) = 0
  BY DEF FlowInit
<1>2. FlowTypeOK
  BY <1>1, FlowTablesAssumption DEF FlowInit, FlowTypeOK
<1> QED
  BY <1>2 DEF FlowInit, FlowInv, Tabled, Classified, Inferred, Summarised

LEMMA FlowInvKept == FlowInv /\ [FlowNext]_flowVars => FlowInv'
<1> SUFFICES ASSUME FlowInv, [FlowNext]_flowVars PROVE FlowInv'
  OBVIOUS
<1> USE DEF Tabled, Classified, Inferred, Summarised
<1>1. FlowTypeOK'
  BY FlowTypeKept DEF FlowInv, flowVars, FlowTypeOK, Frames
<1>2. ASSUME UNCHANGED flowVars PROVE FlowInv'
  <2>1. /\ UNCHANGED <<pkts, input, stage, table, flows, inferred, sequences>>
    BY <1>2 DEF flowVars
  <2>2. FlowTable' = FlowTable /\ (SplitSucceeds' <=> SplitSucceeds)
        /\ DecryptedFiles' = DecryptedFiles /\ InferredFiles' = InferredFiles
    BY <2>1, SameFiles
  <2>3. (SummarySucceeds' <=> SummarySucceeds) /\ Summary' = Summary
    BY <2>1, SameTables
  <2>4. TablesVerified' <=> TablesVerified
    BY <2>1, SameVerdict
  <2> QED
    BY <1>1, <2>1, <2>2, <2>3, <2>4 DEF FlowInv, NoFiles
<1>3. ASSUME NEW p \in input.network, Capture(p) PROVE FlowInv'
  <2>1. stage' = "capturing" /\ flows' = NoFiles
    BY <1>3 DEF Capture, FlowInv
  <2> QED
    BY <1>1, <2>1 DEF FlowInv, NoFiles
<1>4. ASSUME Extract PROVE FlowInv'
  <2>1. UNCHANGED <<pkts, input, flows>> /\ flows = NoFiles
    BY <1>4 DEF Extract, FlowInv
  <2>2. FlowTable' = FlowTable
    BY <2>1 DEF FlowTable, Frames, FlowSni
  <2>3. stage' = "no_eligible_packets" \/ (stage' = "extracted" /\ table' = FlowTable)
    BY <1>4 DEF Extract
  <2> QED
    BY <1>1, <2>1, <2>2, <2>3 DEF FlowInv, NoFiles
<1>5. ASSUME Classify PROVE FlowInv'
  <2>1. UNCHANGED <<pkts, input, table>> /\ stage = "extracted" /\ flows = NoFiles /\ table = FlowTable
    BY <1>5 DEF Classify, FlowInv
  <2>2. FlowTable' = FlowTable /\ (SplitSucceeds' <=> SplitSucceeds)
        /\ DecryptedFiles' = DecryptedFiles
    BY <2>1, SameFiles
  <2>3. \/ stage' = "failed"
        \/ stage' = "classified" /\ ~input.usableKey /\ flows' = NoFiles
        \/ stage' = "classified" /\ input.usableKey /\ SplitSucceeds /\ flows' = DecryptedFiles
    BY <1>5, <2>1 DEF Classify
  <2> QED
    BY <1>1, <2>1, <2>2, <2>3 DEF FlowInv, NoFiles
<1>6. ASSUME Infer PROVE FlowInv'
  <2>1. UNCHANGED <<pkts, input, table, flows>> /\ stage = "classified" /\ table = FlowTable
    BY <1>6 DEF Infer, FlowInv
  <2>2. FlowTable' = FlowTable /\ (SplitSucceeds' <=> SplitSucceeds)
        /\ DecryptedFiles' = DecryptedFiles /\ InferredFiles' = InferredFiles
    BY <2>1, SameFiles
  <2>3. \/ stage' = "failed"
        \/ stage' = "inferred" /\ SplitSucceeds /\ inferred' = InferredFiles
    BY <1>6, <2>1 DEF Infer
  <2>4. IF input.usableKey THEN SplitSucceeds /\ flows = DecryptedFiles ELSE flows = NoFiles
    BY <2>1 DEF FlowInv
  <2> QED
    BY <1>1, <2>1, <2>2, <2>3, <2>4 DEF FlowInv, NoFiles
<1>7. ASSUME Summarize PROVE FlowInv'
  <2>1. UNCHANGED <<pkts, input, table, flows, inferred>> /\ stage = "inferred" /\ table = FlowTable
        /\ SplitSucceeds /\ inferred = InferredFiles
    BY <1>7 DEF Summarize, FlowInv
  <2>2. FlowTable' = FlowTable /\ (SplitSucceeds' <=> SplitSucceeds)
        /\ DecryptedFiles' = DecryptedFiles /\ InferredFiles' = InferredFiles
    BY <2>1, SameFiles
  <2>3. \/ stage' = "failed"
        \/ stage' = "summarised" /\ SummarySucceeds /\ sequences' = Summary
    BY <1>7, <2>1 DEF Summarize
  <2>4. IF input.usableKey THEN SplitSucceeds /\ flows = DecryptedFiles ELSE flows = NoFiles
    BY <2>1 DEF FlowInv
  <2>5. (SummarySucceeds' <=> SummarySucceeds) /\ Summary' = Summary
    BY <2>1, SameTables
  <2> QED
    BY <1>1, <2>1, <2>2, <2>3, <2>4, <2>5 DEF FlowInv, NoFiles
<1>8. ASSUME Verify PROVE FlowInv'
  <2>1. UNCHANGED <<pkts, input, table, flows, inferred, sequences>> /\ stage = "summarised"
        /\ table = FlowTable /\ SplitSucceeds /\ inferred = InferredFiles
        /\ SummarySucceeds /\ sequences = Summary /\ input.wanted = {}
    BY <1>8 DEF Verify, FlowInv
  <2>2. FlowTable' = FlowTable /\ (SplitSucceeds' <=> SplitSucceeds)
        /\ DecryptedFiles' = DecryptedFiles /\ InferredFiles' = InferredFiles
    BY <2>1, SameFiles
  <2>3. stage' = "verified" \/ (stage' = "rejected" /\ ~TablesVerified)
    BY <1>8, <2>1 DEF Verify
  <2>4. IF input.usableKey THEN SplitSucceeds /\ flows = DecryptedFiles ELSE flows = NoFiles
    BY <2>1 DEF FlowInv
  <2>5. (SummarySucceeds' <=> SummarySucceeds) /\ Summary' = Summary
    BY <2>1, SameTables
  <2>6. TablesVerified' <=> TablesVerified
    BY <2>1, SameVerdict
  <2> QED
    BY <1>1, <2>1, <2>2, <2>3, <2>4, <2>5, <2>6 DEF FlowInv, NoFiles
<1> QED
  BY <1>2, <1>3, <1>4, <1>5, <1>6, <1>7, <1>8 DEF FlowNext, Done

-----------------------------------------------------------------------------
(* FlowTables: packets, keys and names.                                     *)

\* What TCP says of the packets of the capture.
LEMMA PacketFacts ==
    ASSUME FlowTypeOK, NEW i \in Eligible
    PROVE  /\ i \in Frames /\ Len(pkts) \in Nat
           /\ PacketOK(pkts[i]) /\ pkts[i].transport = "TCP"
           /\ Port(ServerEnd(pkts[i])) = HTTPS
           /\ HasBit(pkts[i].flags, 2) => (pkts[i].up <=> ~HasBit(pkts[i].flags, 16))
           /\ \A x \in DOMAIN pkts[i].recs :
                 /\ Len(pkts[i].recs[x].frames) = 1 =>
                        pkts[i].recs[x].plain = 9 + pkts[i].recs[x].frames[1].len
                 /\ pkts[i].recs[x].wire >= pkts[i].recs[x].plain + LeastAdded(pkts[i].tls)
<1>1. i \in Frames /\ pkts[i].transport = "TCP" /\ HTTPS \in {Port(pkts[i].src), Port(pkts[i].dst)}
  BY DEF Eligible
<1>2. pkts \in Seq(input.network) /\ input.network \in Networks
  BY DEF FlowTypeOK
<1>3. Len(pkts) \in Nat /\ pkts[i] \in input.network
  BY <1>1, <1>2 DEF Frames
<1> QED
  BY <1>1, <1>2, <1>3, FlowTablesAssumption

LEMMA StreamFacts ==
    ASSUME FlowTypeOK, NEW i \in Eligible, NEW j \in Eligible, pkts[i].stream = pkts[j].stream
    PROVE  /\ ClientEnd(pkts[i]) = ClientEnd(pkts[j]) /\ ServerEnd(pkts[i]) = ServerEnd(pkts[j])
           /\ pkts[i].tls = pkts[j].tls
<1>1. \A x \in Eligible : x \in Frames /\ pkts[x].transport = "TCP"
  BY DEF Eligible
<1>2. pkts \in Seq(input.network) /\ input.network \in Networks
  BY DEF FlowTypeOK
<1>3. \A x \in Eligible : pkts[x] \in input.network
  BY <1>1, <1>2 DEF Frames
<1> QED
  BY <1>1, <1>2, <1>3, FlowTablesAssumption

LEMMA EndsFacts ==
    ASSUME FlowTypeOK, NEW i \in Eligible
    PROVE  LET p == pkts[i]
           IN  /\ ClientEnd(p) # ServerEnd(p) /\ p.up \in BOOLEAN
               /\ p.up => p.src = ClientEnd(p) /\ p.dst = ServerEnd(p)
               /\ ~p.up => p.src = ServerEnd(p) /\ p.dst = ClientEnd(p)
  BY PacketFacts DEF ClientEnd, ServerEnd, PacketOK

LEMMA ListedFacts == Listed \subseteq Eligible /\ \A i \in Listed : PacketKey(pkts[i]) \in Keys
  BY DEF Listed, Keys

\* The direction of a flow is that of its packets, whatever the ports are: between
\* two ports 443 the SYN tells the client (split_connections).
LEMMA DirectionIsTrue ==
    ASSUME FlowTypeOK, SplitSucceeds, NEW i \in Listed
    PROVE  DirectionOf(PacketKey(pkts[i])) = IF pkts[i].up THEN "forward" ELSE "reverse"
<1> DEFINE p == pkts[i]
           k == PacketKey(p)
<1>1. i \in Eligible /\ k \in Keys
  BY ListedFacts
<1>2. k.src = p.src /\ k.dst = p.dst /\ k.stream = p.stream
  BY DEF PacketKey
<1>3. Port(ServerEnd(p)) = HTTPS /\ PacketOK(p)
  BY <1>1, PacketFacts
<1>4. /\ ClientEnd(p) # ServerEnd(p) /\ p.up \in BOOLEAN
      /\ p.up => p.src = ClientEnd(p) /\ p.dst = ServerEnd(p)
      /\ ~p.up => p.src = ServerEnd(p) /\ p.dst = ClientEnd(p)
  BY <1>1, EndsFacts
<1>5. CASE BothHttps(k)
  <2>1. Clients(k) \subseteq {ClientEnd(p)}
    <3> SUFFICES ASSUME NEW j \in Evidence(k), HasBit(pkts[j].flags, 2)
                 PROVE  (IF HasBit(pkts[j].flags, 16) THEN pkts[j].dst ELSE pkts[j].src) = ClientEnd(p)
      BY DEF Clients
    <3>1. j \in Listed /\ pkts[j].stream = p.stream
      BY <1>2 DEF Evidence, SameConnection
    <3>2. j \in Eligible
      BY <3>1, ListedFacts
    <3>3. ClientEnd(pkts[j]) = ClientEnd(p)
      BY <1>1, <3>1, <3>2, StreamFacts
    <3>4. pkts[j].up <=> ~HasBit(pkts[j].flags, 16)
      BY <3>2, PacketFacts
    <3> QED
      BY <3>2, <3>3, <3>4, EndsFacts
  <2>2. Cardinality(Clients(k)) = 1
    BY <1>1, <1>5 DEF SplitSucceeds
  <2>3. Clients(k) # {}
    BY <2>2, FS_EmptySet
  <2>4. Clients(k) = {ClientEnd(p)}
    BY <2>1, <2>3
  <2> QED
    BY <1>2, <1>4, <1>5, <2>4 DEF DirectionOf
<1>6. CASE ~BothHttps(k)
  BY <1>2, <1>3, <1>4, <1>6 DEF DirectionOf, BothHttps
<1> QED
  BY <1>5, <1>6

\* A name stands for one key.
LEMMA NamedFacts ==
    ASSUME SplitSucceeds
    PROVE  /\ \A k \in Keys : FileName(k) \in Names /\ Named(FileName(k)) = k
           /\ \A n \in Names : Named(n) \in Keys /\ FileName(Named(n)) = n
<1>1. \A n \in Names : Named(n) \in Keys /\ FileName(Named(n)) = n
  BY DEF Names, Named
<1>2. \A k \in Keys : FileName(k) \in Names
  BY DEF Names
<1>3. \A x, y \in Keys : FileName(x) = FileName(y) => x = y
  BY DEF SplitSucceeds
<1> QED
  BY <1>1, <1>2, <1>3

LEMMA KeyFacts ==
    ASSUME NEW k \in Keys
    PROVE  /\ RowsOf(k) # {} /\ RowsOf(k) \subseteq Listed
           /\ \A i \in RowsOf(k) : PacketKey(pkts[i]) = k
           /\ k = [src |-> k.src, dst |-> k.dst, stream |-> k.stream]
  BY DEF Keys, RowsOf, PacketKey

-----------------------------------------------------------------------------
(* FlowTables: files and their rows.                                        *)

\* The files of a table are those the process functions compute.
WholeTable(t) ==
    /\ FlowTypeOK /\ SplitSucceeds /\ t \in Tables
    /\ FilesOf(t) = IF t[1] = "inferred" THEN InferredFiles ELSE DecryptedFiles

Conn(p) == <<ClientEnd(p), ServerEnd(p), p.stream>>
Side(p) == IF p.up THEN "forward" ELSE "reverse"
NameOf(p) == FileName(PacketKey(p))

LEMMA FileFacts ==
    ASSUME NEW t, WholeTable(t)
    PROVE  /\ DOMAIN FilesOf(t) = Names
           /\ \A n \in Names :
                 /\ FilesOf(t)[n].key = Named(n)
                 /\ FilesOf(t)[n].direction = DirectionOf(Named(n))
                 /\ DOMAIN FilesOf(t)[n].rows = RowsOf(Named(n))
<1>1. CASE t[1] = "inferred"
  <2>1. FilesOf(t) = InferredFiles
    BY <1>1 DEF WholeTable
  <2> QED
    BY <2>1 DEF InferredFiles, InferredFile, FlowFile
<1>2. CASE t[1] # "inferred"
  <2>1. FilesOf(t) = DecryptedFiles
    BY <1>2 DEF WholeTable
  <2> QED
    BY <2>1 DEF DecryptedFiles, DecryptedFile, FlowFile
<1> QED
  BY <1>1, <1>2

\* A listed packet is a row of the file of its stream and its direction.
LEMMA RowFacts ==
    ASSUME NEW t, WholeTable(t), NEW i \in Listed
    PROVE  LET p == pkts[i]
               n == NameOf(p)
           IN  /\ n \in Names /\ Named(n) = PacketKey(p) /\ i \in DOMAIN FilesOf(t)[n].rows
               /\ FilesWith(t, i) = {n}
               /\ FilesOf(t)[n].key = PacketKey(p)
               /\ FilesOf(t)[n].direction = Side(p)
               /\ ConnectionKey(FilesOf(t)[n]) = Conn(p)
<1> DEFINE p == pkts[i]
           n == NameOf(p)
<1>1. SplitSucceeds /\ FlowTypeOK
  BY DEF WholeTable
<1>2. n \in Names /\ Named(n) = PacketKey(p)
  BY <1>1, ListedFacts, NamedFacts DEF NameOf
<1>3. i \in RowsOf(PacketKey(p))
  BY DEF RowsOf
<1>4. DOMAIN FilesOf(t) = Names
  BY FileFacts
<1>5. \A m \in Names : i \in DOMAIN FilesOf(t)[m].rows <=> m = n
  <2> SUFFICES ASSUME NEW m \in Names PROVE i \in DOMAIN FilesOf(t)[m].rows <=> m = n
    OBVIOUS
  <2>1. DOMAIN FilesOf(t)[m].rows = RowsOf(Named(m))
    BY FileFacts
  <2>2. FileName(Named(m)) = m
    BY <1>1, NamedFacts
  <2>3. i \in RowsOf(Named(m)) <=> Named(m) = PacketKey(p)
    BY DEF RowsOf
  <2> QED
    BY <1>2, <2>1, <2>2, <2>3 DEF NameOf
<1>6. FilesWith(t, i) = {n}
  BY <1>2, <1>4, <1>5 DEF FilesWith
<1>7. FilesOf(t)[n].key = PacketKey(p) /\ FilesOf(t)[n].direction = Side(p)
  BY <1>1, <1>2, FileFacts, DirectionIsTrue DEF Side
<1>8. ConnectionKey(FilesOf(t)[n]) = Conn(p)
  <2>1. PacketKey(p).src = p.src /\ PacketKey(p).dst = p.dst /\ PacketKey(p).stream = p.stream
    BY DEF PacketKey
  <2> QED
    BY <1>7, <2>1 DEF ConnectionKey, Conn, Side, ClientEnd, ServerEnd
<1> QED
  BY <1>2, <1>5, <1>6, <1>7, <1>8

\* Each file has a packet.
LEMMA FileHasPacket ==
    ASSUME NEW t, WholeTable(t), NEW n \in Names
    PROVE  \E i \in Listed : i \in DOMAIN FilesOf(t)[n].rows /\ n = NameOf(pkts[i])
<1>1. Named(n) \in Keys /\ FileName(Named(n)) = n
  BY NamedFacts DEF WholeTable
<1>2. PICK i \in RowsOf(Named(n)) : TRUE
  BY <1>1, KeyFacts
<1>3. i \in Listed /\ PacketKey(pkts[i]) = Named(n)
  BY <1>1, <1>2, KeyFacts
<1> QED
  BY <1>1, <1>2, <1>3, FileFacts DEF NameOf

\* The rows of a file are the listed packets of its name.
LEMMA RowsAreOfName ==
    ASSUME NEW t, WholeTable(t), NEW n \in Names, NEW i \in DOMAIN FilesOf(t)[n].rows
    PROVE  i \in Listed /\ n = NameOf(pkts[i])
  BY FileFacts, NamedFacts, KeyFacts DEF WholeTable, NameOf

\* The invariant makes the tables of a stage whole.
LEMMA StagesAreWhole ==
    ASSUME FlowInv, NEW t \in Tables, stage \in Inferred, t[1] = "inferred" \/ input.usableKey
    PROVE  WholeTable(t)
<1>1. FlowTypeOK /\ SplitSucceeds /\ inferred = InferredFiles
  BY DEF FlowInv
<1>2. input.usableKey => flows = DecryptedFiles
  BY DEF FlowInv, Classified, Inferred
<1> QED
  BY <1>1, <1>2 DEF WholeTable, FilesOf

LEMMA PacketsOnce == FlowInv => EveryPacketOnce
<1> SUFFICES ASSUME FlowInv, stage \in {"inferred", "summarised", "verified"}, NEW t \in Tables,
                    t[1] = "inferred" \/ input.usableKey, NEW i \in Listed
             PROVE  /\ Cardinality(FilesWith(t, i)) = 1
                    /\ \A n \in FilesWith(t, i) :
                          /\ FilesOf(t)[n].key.stream = pkts[i].stream
                          /\ FilesOf(t)[n].key.src = pkts[i].src
                          /\ (FilesOf(t)[n].direction = "forward") = pkts[i].up
  BY DEF EveryPacketOnce
<1>1. WholeTable(t)
  BY StagesAreWhole DEF Inferred
<1> DEFINE n == NameOf(pkts[i])
<1>2. FilesWith(t, i) = {n} /\ FilesOf(t)[n].key = PacketKey(pkts[i]) /\ FilesOf(t)[n].direction = Side(pkts[i])
  BY <1>1, RowFacts
<1>3. pkts[i].up \in BOOLEAN
  BY ListedFacts, EndsFacts DEF FlowInv
<1> HIDE DEF n
<1>4. Cardinality(FilesWith(t, i)) = 1
  BY <1>2, FS_Singleton
<1>5. FilesOf(t)[n].key.stream = pkts[i].stream /\ FilesOf(t)[n].key.src = pkts[i].src
  BY <1>2 DEF PacketKey
<1>6. (FilesOf(t)[n].direction = "forward") = pkts[i].up
  BY <1>2, <1>3 DEF Side
<1> QED
  BY <1>2, <1>4, <1>5, <1>6

-----------------------------------------------------------------------------
(* FlowTables: the connections of a table.                                  *)

LEMMA SameConn ==
    ASSUME FlowTypeOK, NEW i \in Listed, NEW j \in Listed, Conn(pkts[i]) = Conn(pkts[j]),
           Side(pkts[i]) = Side(pkts[j])
    PROVE  NameOf(pkts[i]) = NameOf(pkts[j])
<1>1. i \in Eligible /\ j \in Eligible
  BY ListedFacts
<1>2. ClientEnd(pkts[i]) = ClientEnd(pkts[j]) /\ ServerEnd(pkts[i]) = ServerEnd(pkts[j])
      /\ pkts[i].stream = pkts[j].stream
  BY DEF Conn
<1>3. pkts[i].up = pkts[j].up
  BY <1>1, EndsFacts DEF Side
<1>4. pkts[i].src = pkts[j].src /\ pkts[i].dst = pkts[j].dst
  BY <1>1, <1>2, <1>3, EndsFacts
<1> QED
  BY <1>2, <1>4 DEF NameOf, PacketKey

\* A connection has one file for each direction that was captured.
LEMMA GroupFacts ==
    ASSUME NEW t, WholeTable(t), NEW i \in Listed
    PROVE  LET c == Conn(pkts[i])
               d == Side(pkts[i])
           IN  /\ Sides(t, c, d) = {NameOf(pkts[i])}
               /\ d \in DOMAIN Group(t, c) /\ Group(t, c)[d] = NameOf(pkts[i])
<1> DEFINE c == Conn(pkts[i])
           d == Side(pkts[i])
           n == NameOf(pkts[i])
<1>1. DOMAIN FilesOf(t) = Names
  BY FileFacts
<1>2. n \in Sides(t, c, d)
  BY <1>1, RowFacts DEF Sides
<1>3. ASSUME NEW m \in Sides(t, c, d) PROVE m = n
  <2>1. m \in Names /\ ConnectionKey(FilesOf(t)[m]) = c /\ FilesOf(t)[m].direction = d
    BY <1>1, <1>3 DEF Sides
  <2>2. PICK j \in Listed : m = NameOf(pkts[j])
    BY <2>1, FileHasPacket
  <2>3. Conn(pkts[j]) = c /\ Side(pkts[j]) = d
    BY <2>1, <2>2, RowFacts
  <2> QED
    BY <2>2, <2>3, SameConn DEF WholeTable
<1>4. Sides(t, c, d) = {n}
  BY <1>2, <1>3
<1>5. d \in Directions
  BY DEF Side, Directions
<1> HIDE DEF c, d, n
<1>6. d \in DOMAIN Group(t, c) /\ Group(t, c)[d] = n
  BY <1>4, <1>5 DEF Group
<1> QED
  BY <1>4, <1>6 DEF c, d, n

LEMMA GroupHasPacket ==
    ASSUME NEW t, WholeTable(t), NEW c, NEW d \in DOMAIN Group(t, c)
    PROVE  /\ d \in Directions
           /\ \E i \in Listed : Conn(pkts[i]) = c /\ Side(pkts[i]) = d /\ Group(t, c)[d] = NameOf(pkts[i])
<1>1. d \in Directions /\ Sides(t, c, d) # {} /\ Group(t, c)[d] = CHOOSE n \in Sides(t, c, d) : TRUE
  BY DEF Group
<1>2. Group(t, c)[d] \in Sides(t, c, d)
  BY <1>1
<1>3. PICK m : m = Group(t, c)[d]
  OBVIOUS
<1>4. m \in Names /\ ConnectionKey(FilesOf(t)[m]) = c /\ FilesOf(t)[m].direction = d
  BY <1>2, <1>3, FileFacts DEF Sides
<1>5. PICK j \in Listed : m = NameOf(pkts[j])
  BY <1>4, FileHasPacket
<1>6. Conn(pkts[j]) = c /\ Side(pkts[j]) = d
  BY <1>4, <1>5, RowFacts
<1> QED
  BY <1>1, <1>3, <1>5, <1>6

\* The flow table has every packet of a stream or none: a wanted flow brings its
\* reverse (filter_by_sni).
LEMMA ListedStream ==
    ASSUME FlowTypeOK, table = FlowTable, NEW i \in Listed, NEW j \in Eligible,
           pkts[i].stream = pkts[j].stream
    PROVE  j \in Listed
<1> DEFINE p == pkts[i]
           q == pkts[j]
           all == {FlowKey(pkts[x]) : x \in Frames}
           kept == {k \in all : FlowSni(k) \cap input.wanted # {}}
<1>1. i \in Eligible /\ FlowKey(p) \in TlsFlows
  BY DEF Listed, Has, FlowKey
<1>2. ClientEnd(p) = ClientEnd(q) /\ ServerEnd(p) = ServerEnd(q)
  BY <1>1, StreamFacts
<1>3. p.transport = "TCP" /\ q.transport = "TCP" /\ j \in Frames
  BY <1>1, PacketFacts
<1>4. FlowKey(q) = FlowKey(p) \/ (FlowKey(q) = Mirror(FlowKey(p)) /\ FlowKey(p) = Mirror(FlowKey(q)))
  <2>1. (p.src = q.src /\ p.dst = q.dst) \/ (p.src = q.dst /\ p.dst = q.src)
    BY <1>1, <1>2, EndsFacts
  <2>2. \A a, b, c : Mirror([src |-> a, dst |-> b, transport |-> c]) = [src |-> b, dst |-> a, transport |-> c]
    BY DEF Mirror
  <2>3. FlowKey(p) = [src |-> p.src, dst |-> p.dst, transport |-> "TCP"]
        /\ FlowKey(q) = [src |-> q.src, dst |-> q.dst, transport |-> "TCP"]
    BY <1>3 DEF FlowKey
  <2> QED
    BY <2>1, <2>2, <2>3
<1>5. FlowKey(q) \in all /\ FlowKey(p) \in FlowTable
  BY <1>1, <1>3 DEF TlsFlows
<1>6. FlowKey(q) \in FlowTable
  <2>1. CASE input.wanted = {}
    BY <1>5, <2>1 DEF FlowTable
  <2>2. CASE input.wanted # {}
    <3>1. FlowTable = {k \in all : k \in kept \/ Mirror(k) \in kept}
      BY <2>2 DEF FlowTable
    <3> HIDE DEF all, kept
    <3> QED
      BY <1>4, <1>5, <3>1
  <2> QED
    BY <2>1, <2>2
<1>7. FlowKey(q).transport = "TCP" /\ HTTPS \in {Port(FlowKey(q).src), Port(FlowKey(q).dst)}
  BY <1>3 DEF FlowKey, Eligible
<1>8. FlowKey(q) \in TlsFlows
  BY <1>6, <1>7 DEF TlsFlows
<1> QED
  BY <1>8 DEF Listed, Has, FlowKey

\* What a decrypted table takes from a packet is what the packet carries.
LEMMA LengthsAreSent ==
    ASSUME NEW t, WholeTable(t), t[1] = "decrypted", NEW i \in Listed
    PROVE  LET file == FilesOf(t)[NameOf(pkts[i])]
           IN  LengthsIn(i, Info(t, file.rows[i]).lens, file.direction) = SentIn(t, i)
<1> DEFINE p == pkts[i]
           file == FilesOf(t)[NameOf(p)]
           row == file.rows[i]
<1>1. file.direction = Side(p) /\ NameOf(p) \in Names /\ Named(NameOf(p)) = PacketKey(p)
      /\ i \in DOMAIN file.rows
  BY RowFacts
<1>2. i \in RowsOf(PacketKey(p))
  BY DEF RowsOf
<1>3. FilesOf(t) = DecryptedFiles
  BY DEF WholeTable
<1>4. row.http1 = p.http1 /\ row.frames = p.frames
  BY <1>1, <1>2, <1>3 DEF DecryptedFiles, DecryptedFile, FlowFile
<1>5. Info(t, row) = DecryptedInfo(row, t[2])
  BY DEF Info
<1> HIDE DEF row
<1>6. Info(t, row).lens = IF t[2] = "http1" THEN p.http1 ELSE HeaderLens(p.frames)
  BY <1>4, <1>5 DEF DecryptedInfo
<1> HIDE DEF file
<1>7. LengthsIn(i, Info(t, row).lens, file.direction) = SentIn(t, i)
  BY <1>1, <1>6 DEF SentIn, Side
<1> QED
  BY <1>7 DEF row, file

\* The two files of a connection hold together what its ends sent.
LEMMA MergedIsSent ==
    ASSUME NEW t, WholeTable(t), t[1] = "decrypted", table = FlowTable, NEW i \in Listed
    PROVE  LET c == Conn(pkts[i])
           IN  UNION {Lengths(t, FileOf(t, c, d)) : d \in DOMAIN Group(t, c)} = Sent(t, pkts[i].stream)
<1> DEFINE c == Conn(pkts[i])
           s == pkts[i].stream
           merged == UNION {Lengths(t, FileOf(t, c, d)) : d \in DOMAIN Group(t, c)}
<1>1. ASSUME NEW e \in merged PROVE e \in Sent(t, s)
  <2>1. PICK d \in DOMAIN Group(t, c) : e \in Lengths(t, FileOf(t, c, d))
    BY <1>1
  <2>2. PICK m \in Listed : Conn(pkts[m]) = c /\ Group(t, c)[d] = NameOf(pkts[m])
    BY GroupHasPacket
  <2> DEFINE n == NameOf(pkts[m])
             file == FilesOf(t)[n]
  <2>3. FileOf(t, c, d) = file /\ n \in Names
    BY <2>2, RowFacts DEF FileOf
  <2>4. PICK j \in DOMAIN file.rows : e \in LengthsIn(j, Info(t, file.rows[j]).lens, file.direction)
    BY <2>1, <2>3 DEF Lengths
  <2>5. j \in Listed /\ n = NameOf(pkts[j])
    BY <2>3, <2>4, RowsAreOfName
  <2>6. Conn(pkts[j]) = c
    <3>1. ConnectionKey(FilesOf(t)[NameOf(pkts[j])]) = Conn(pkts[j])
      BY <2>5, RowFacts
    <3>2. ConnectionKey(FilesOf(t)[NameOf(pkts[m])]) = Conn(pkts[m])
      BY RowFacts
    <3> QED
      BY <2>2, <2>5, <3>1, <3>2
  <2>7. pkts[j].stream = s
    BY <2>6 DEF Conn
  <2>8. e \in SentIn(t, j)
    BY <2>4, <2>5, LengthsAreSent
  <2> QED
    BY <2>5, <2>7, <2>8, ListedFacts DEF Sent
<1>2. ASSUME NEW e \in Sent(t, s) PROVE e \in merged
  <2>1. PICK j \in Eligible : pkts[j].stream = s /\ e \in SentIn(t, j)
    BY <1>2 DEF Sent
  <2>2. j \in Listed
    BY <2>1, ListedStream DEF WholeTable
  <2>3. Conn(pkts[j]) = c
    BY <2>1, ListedFacts, StreamFacts DEF Conn, WholeTable
  <2> DEFINE d == Side(pkts[j])
             n == NameOf(pkts[j])
  <2>4. d \in DOMAIN Group(t, c) /\ Group(t, c)[d] = n
    BY <2>2, <2>3, GroupFacts
  <2>5. FileOf(t, c, d) = FilesOf(t)[n]
    BY <2>4 DEF FileOf
  <2>6. j \in DOMAIN FilesOf(t)[n].rows
    BY <2>2, RowFacts
  <2>7. e \in LengthsIn(j, Info(t, FilesOf(t)[n].rows[j]).lens, FilesOf(t)[n].direction)
    BY <2>1, <2>2, LengthsAreSent
  <2>8. e \in Lengths(t, FilesOf(t)[n])
    BY <2>6, <2>7 DEF Lengths
  <2> QED
    BY <2>4, <2>5, <2>8
<1> QED
  BY <1>1, <1>2

LEMMA SequencesTrue == FlowInv => SequenceIsTruth
<1> SUFFICES ASSUME FlowInv, stage \in {"summarised", "verified"}, input.usableKey,
                    NEW t \in Tables, t[1] = "decrypted", NEW i \in Listed,
                    Sent(t, pkts[i].stream) # {}
             PROVE  LET c == <<ClientEnd(pkts[i]), ServerEnd(pkts[i]), pkts[i].stream>>
                        pairRows == sequences[t].bidirectional
                    IN  c \in DOMAIN pairRows
                        /\ pairRows[c].lens = HeaderColumn(Sent(t, pkts[i].stream), "bidirectional")
  BY DEF SequenceIsTruth
<1> DEFINE c == Conn(pkts[i])
           s == pkts[i].stream
<1>1. WholeTable(t) /\ table = FlowTable /\ sequences = Summary
  BY StagesAreWhole DEF FlowInv, Inferred, Tabled, Summarised
<1>2. UNION {Lengths(t, FileOf(t, c, d)) : d \in DOMAIN Group(t, c)} = Sent(t, s)
  BY <1>1, MergedIsSent
<1>3. c \in Connections(t)
  <2>1. PICK j \in Eligible : pkts[j].stream = s /\ SentIn(t, j) # {}
    BY DEF Sent
  <2>2. j \in Listed /\ Conn(pkts[j]) = c
    BY <1>1, <2>1, ListedStream, ListedFacts, StreamFacts DEF Conn, WholeTable
  <2> DEFINE n == NameOf(pkts[j])
             file == FilesOf(t)[n]
  <2>3. n \in DOMAIN FilesOf(t) /\ j \in DOMAIN file.rows /\ ConnectionKey(file) = c
    BY <1>1, <2>2, RowFacts, FileFacts
  <2>4. LengthsIn(j, Info(t, file.rows[j]).lens, file.direction) # {}
    BY <1>1, <2>1, <2>2, LengthsAreSent
  <2>5. DOMAIN Info(t, file.rows[j]).lens # {}
    BY <2>4 DEF LengthsIn
  <2>6. Observes(t, file)
    BY <2>3, <2>5 DEF Observes
  <2> QED
    BY <2>3, <2>6 DEF Connections
<1>4. sequences[t].bidirectional = [x \in Connections(t) |-> SummaryRow(t, x, "bidirectional")]
  BY <1>1 DEF Summary
<1>5. SummaryRow(t, c, "bidirectional").lens = HeaderColumn(Sent(t, s), "bidirectional")
  BY <1>2 DEF SummaryRow
<1> QED
  BY <1>3, <1>4, <1>5 DEF Conn

-----------------------------------------------------------------------------
(* FlowTables: inferred ranges.                                             *)

\* A record that has 9 bytes, these many and the overhead that is subtracted.
LEMMA OneFrame ==
    ASSUME NEW len \in Nat, NEW direction, NEW overhead \in Nat
    PROVE  LET g == InferSingleRecord(9 + len + overhead, direction, overhead)
           IN  g.lo = len /\ g.hi = len
<1> DEFINE est == 9 + len
           g == InferSingleRecord(9 + len + overhead, direction, overhead)
<1>1. (9 + len + overhead) - overhead = est
  OBVIOUS
<1>2. \/ g.lo = 0 /\ g.hi = 0 /\ est = 9
      \/ g.lo = 4 /\ g.hi = 4 /\ est = 13
      \/ g.lo = 5 /\ g.hi = 5 /\ est = 14
      \/ g.lo = 8 /\ g.hi = 8 /\ est = 17
      \/ g.lo = est - 9 /\ g.hi = est - 9
  <2>1. ~(est < 0) /\ est \notin 0 .. 8
    OBVIOUS
  <2> HIDE DEF est
  <2>2. CASE est = 9
    BY <1>1, <2>1, <2>2 DEF InferSingleRecord, Guess
  <2>3. CASE est = 13
    BY <1>1, <2>1, <2>3 DEF InferSingleRecord, Guess
  <2>4. CASE est = 14
    BY <1>1, <2>1, <2>4 DEF InferSingleRecord, Guess
  <2>5. CASE est = 17
    BY <1>1, <2>1, <2>5 DEF InferSingleRecord, Guess
  <2>6. CASE est \notin {9, 13, 14, 17}
    <3>1. CASE est \in {9 + 6 * n : n \in 1 .. 8}
      BY <1>1, <2>1, <2>6, <3>1 DEF InferSingleRecord, Guess
    <3>2. CASE est \notin {9 + 6 * n : n \in 1 .. 8}
      BY <1>1, <2>1, <2>6, <3>2 DEF InferSingleRecord, Guess
    <3> QED
      BY <3>1, <3>2
  <2> QED
    BY <2>2, <2>3, <2>4, <2>5, <2>6
<1> QED
  BY <1>2

LEMMA ElementOf ==
    ASSUME NEW R, NEW s \in Seq(R), NEW x \in DOMAIN s
    PROVE  s[x] \in R
  OBVIOUS

LEMMA VersionIsNegotiated ==
    ASSUME FlowTypeOK, NEW k, NEW i \in Evidence(k), NEW tls \in Nat,
           tls \in UNION {pkts[j].versions : j \in Evidence(k)},
           \A v \in UNION {pkts[j].versions : j \in Evidence(k)} : v <= tls
    PROVE  Version(k) = tls
<1> DEFINE mentioned == UNION {pkts[j].versions : j \in Evidence(k)}
           told == {0} \cup mentioned
<1>1. \A j \in Evidence(k) : pkts[j].versions \subseteq Nat
  BY ListedFacts, PacketFacts DEF Evidence, PacketOK
<1>2. told \subseteq Nat
  BY <1>1
<1>3. tls \in told /\ \A w \in told : w <= tls
  OBVIOUS
<1>4. \A v \in told : (\A w \in told : w <= v) => v = tls
  BY <1>2, <1>3
<1> HIDE DEF told
<1>5. (CHOOSE v \in told : \A w \in told : w <= v) = tls
  BY <1>3, <1>4
<1> QED
  BY <1>5 DEF Version, told

LEMMA RangesTrue == FlowInv => RangesHold
<1> SUFFICES ASSUME FlowInv, stage \in {"inferred", "summarised", "verified"},
                    NEW n \in DOMAIN inferred, NEW i \in DOMAIN inferred[n].rows,
                    LET told == UNION {pkts[j].versions : j \in Evidence(inferred[n].key)}
                    IN  pkts[i].tls \in told /\ \A v \in told : v <= pkts[i].tls,
                    NEW x \in DOMAIN inferred[n].rows[i].guesses,
                    Len(pkts[i].recs[x].frames) = 1
             PROVE  LET g == inferred[n].rows[i].guesses[x]
                        rec == pkts[i].recs[x]
                        excess == rec.wire - rec.plain - LeastAdded(pkts[i].tls)
                    IN  g.lo = rec.frames[1].len + excess /\ g.hi = g.lo /\ excess >= 0
  BY DEF RangesHold
<1> DEFINE p == pkts[i]
           k == Named(n)
           oh == Overhead(Version(k))
           t == <<"inferred", "legacy">>
<1>1. FlowTypeOK /\ SplitSucceeds /\ inferred = InferredFiles
  BY DEF FlowInv, Inferred
<1>2. WholeTable(t) /\ FilesOf(t) = inferred /\ n \in Names
  BY <1>1 DEF WholeTable, Tables, FilesOf, InferredFiles
<1>3. inferred[n].key = k /\ i \in Listed /\ i \in RowsOf(k)
  BY <1>2, FileFacts, RowsAreOfName
<1>4. inferred[n].rows[i] = InferPacket(p, DirectionOf(k), oh)
  BY <1>1, <1>2, <1>3 DEF InferredFiles, InferredFile, FlowFile
<1>5. i \in Eligible /\ PacketOK(p)
  BY <1>1, <1>3, ListedFacts, PacketFacts
<1>6. PICK j \in Evidence(k) : TRUE
  BY <1>3
<1>7. Version(k) = p.tls
  BY <1>1, <1>3, <1>5, <1>6, VersionIsNegotiated DEF PacketOK
<1>8. oh \in Nat /\ oh = LeastAdded(p.tls)
  BY <1>7 DEF Overhead, LeastAdded
<1> HIDE DEF p, k, oh
<1> DEFINE row == InferPacket(p, DirectionOf(k), oh)
           gs == [y \in DOMAIN p.recs |-> InferSingleRecord(p.recs[y].wire, DirectionOf(k), oh)]
<1>9. row.guesses = <<>> \/ row.guesses = gs
  BY DEF InferPacket
<1>10. x \in DOMAIN row.guesses /\ Len(p.recs[x].frames) = 1
  BY <1>4 DEF p
<1>11. row.guesses = gs /\ x \in DOMAIN p.recs
  <2>1. row.guesses # <<>>
    BY <1>10
  <2> QED
    BY <1>9, <1>10, <2>1
<1>12. p.recs[x].plain = 9 + p.recs[x].frames[1].len /\ p.recs[x].wire >= p.recs[x].plain + oh
  BY <1>1, <1>5, <1>8, <1>10, <1>11, PacketFacts DEF p
<1>13. p.recs[x].frames[1].len \in Nat /\ p.recs[x].wire \in Nat
  <2>1. p.recs \in Seq([frames : Seq([type : STRING, len : Nat]), plain : Nat, wire : Nat])
    BY <1>5 DEF PacketOK
  <2>2. p.recs[x] \in [frames : Seq([type : STRING, len : Nat]), plain : Nat, wire : Nat]
    BY <1>11, <2>1, ElementOf
  <2>3. p.recs[x].frames \in Seq([type : STRING, len : Nat])
    BY <2>2
  <2>4. p.recs[x].frames[1] \in [type : STRING, len : Nat]
    <3>1. 1 \in DOMAIN p.recs[x].frames
      BY <1>10, <2>3
    <3> QED
      BY <2>3, <3>1, ElementOf
  <2> QED
    BY <2>2, <2>4
<1> DEFINE excess == p.recs[x].wire - p.recs[x].plain - oh
           length == p.recs[x].frames[1].len + excess
<1>14. excess >= 0 /\ length \in Nat /\ p.recs[x].wire = 9 + length + oh
  BY <1>8, <1>12, <1>13
<1> HIDE DEF excess, length
<1>15. gs[x] = InferSingleRecord(9 + length + oh, DirectionOf(k), oh)
  BY <1>11, <1>14
<1>16. gs[x].lo = length /\ gs[x].hi = length
  <2> HIDE DEF gs
  <2> DEFINE g == InferSingleRecord(9 + length + oh, DirectionOf(k), oh)
  <2>1. g.lo = length /\ g.hi = length
    <3> HIDE DEF k
    <3> QED
      BY <1>8, <1>14, OneFrame
  <2> QED
    BY <1>15, <2>1
<1> QED
  BY <1>4, <1>8, <1>11, <1>14, <1>16 DEF p, excess, length

-----------------------------------------------------------------------------
(* FlowTables: sums and finite sets.                                        *)

LEMMA IntervalCount ==
    ASSUME NEW n \in Nat
    PROVE  IsFiniteSet(1 .. n) /\ Cardinality(1 .. n) = n
<1>1. IsFiniteSet(1 .. n) /\ Cardinality(1 .. n) = IF 1 > n THEN 0 ELSE n - 1 + 1
  BY FS_Interval
<1> QED
  BY <1>1

LEMMA RowCount ==
    ASSUME NEW a, NEW n \in Nat
    PROVE  IsFiniteSet({a} \X (1 .. n)) /\ Cardinality({a} \X (1 .. n)) = n
<1> DEFINE S == {a}
           T == 1 .. n
<1>1. IsFiniteSet(S) /\ Cardinality(S) = 1
  BY FS_Singleton
<1>2. IsFiniteSet(T) /\ Cardinality(T) = n
  BY IntervalCount
<1> HIDE DEF S, T
<1>3. IsFiniteSet(S \X T) /\ Cardinality(S \X T) = Cardinality(S) * Cardinality(T)
  BY <1>1, <1>2, FS_Product
<1>4. Cardinality(S \X T) = 1 * n
  BY <1>1, <1>2, <1>3
<1>5. 1 * n = n
  OBVIOUS
<1> QED
  BY <1>3, <1>4, <1>5 DEF S, T

LEMMA SumOfOne ==
    ASSUME NEW f, NEW a, DOMAIN f = {a}, f[a] \in Nat
    PROVE  SumOf(f) = f[a]
<1>1. Marks(f) = {a} \X (1 .. f[a])
  BY DEF Marks
<1> QED
  BY <1>1, RowCount DEF SumOf

LEMMA SumOfTwo ==
    ASSUME NEW f, NEW a, NEW b, DOMAIN f = {a, b}, a # b, f[a] \in Nat, f[b] \in Nat
    PROVE  SumOf(f) = f[a] + f[b]
<1> DEFINE A == {a} \X (1 .. f[a])
           B == {b} \X (1 .. f[b])
<1>1. Marks(f) = A \cup B
  BY DEF Marks
<1>2. A \cap B = {}
  OBVIOUS
<1>3. IsFiniteSet(A) /\ Cardinality(A) = f[a]
  BY RowCount
<1>4. IsFiniteSet(B) /\ Cardinality(B) = f[b]
  BY RowCount
<1> HIDE DEF A, B
<1>5. Cardinality(A \cup B) = Cardinality(A) + Cardinality(B) - Cardinality(A \cap B)
  BY <1>3, <1>4, FS_Union
<1>6. Cardinality(A \cap B) = 0
  BY <1>2, FS_EmptySet
<1> QED
  BY <1>1, <1>3, <1>4, <1>5, <1>6 DEF SumOf

LEMMA FramesFinite ==
    ASSUME FlowTypeOK
    PROVE  IsFiniteSet(Listed) /\ IsFiniteSet(Eligible)
<1>1. Len(pkts) \in Nat
  BY DEF FlowTypeOK
<1>2. IsFiniteSet(1 .. Len(pkts))
  BY <1>1, FS_Interval
<1>3. Eligible \subseteq 1 .. Len(pkts) /\ Listed \subseteq Eligible
  BY DEF Eligible, Listed, Frames
<1>4. IsFiniteSet(Eligible)
  BY <1>2, <1>3, FS_Subset
<1> QED
  BY <1>3, <1>4, FS_Subset

LEMMA LengthsInFinite ==
    ASSUME NEW i, NEW lens, NEW side, IsFiniteSet(DOMAIN lens)
    PROVE  IsFiniteSet(LengthsIn(i, lens, side))
<1> DEFINE f == [x \in DOMAIN lens |-> Length(i, x, lens[x], side)]
           T == LengthsIn(i, lens, side)
<1>1. f \in [DOMAIN lens -> T] /\ \A e \in T : \E x \in DOMAIN lens : f[x] = e
  BY DEF LengthsIn
<1> HIDE DEF f
<1>2. f \in Surjection(DOMAIN lens, T)
  BY <1>1 DEF Surjection
<1> QED
  BY <1>2, FS_Surjection

LEMMA SentInFinite ==
    ASSUME FlowTypeOK, NEW t, NEW i \in Eligible
    PROVE  IsFiniteSet(SentIn(t, i))
<1> DEFINE p == pkts[i]
           lens == IF t[2] = "http1" THEN p.http1 ELSE HeaderLens(p.frames)
<1>1. p.frames \in Seq([type : STRING, len : Nat]) /\ p.http1 \in Seq(Nat)
  BY PacketFacts DEF PacketOK
<1>2. \A R : \A s \in Seq(R) : IsFiniteSet(DOMAIN s)
  <2> SUFFICES ASSUME NEW R, NEW s \in Seq(R) PROVE IsFiniteSet(DOMAIN s)
    OBVIOUS
  <2>1. DOMAIN s = 1 .. Len(s) /\ Len(s) \in Nat
    OBVIOUS
  <2> QED
    BY <2>1, FS_Interval
<1>3. IsFiniteSet(DOMAIN p.http1) /\ IsFiniteSet(DOMAIN p.frames)
  BY <1>1, <1>2
<1>4. DOMAIN HeaderLens(p.frames) \subseteq DOMAIN p.frames
  BY DEF HeaderLens
<1>5. IsFiniteSet(DOMAIN HeaderLens(p.frames))
  BY <1>3, <1>4, FS_Subset
<1>6. IsFiniteSet(DOMAIN lens)
  BY <1>3, <1>5
<1> HIDE DEF lens
<1>7. IsFiniteSet(LengthsIn(i, lens, Side(p)))
  BY <1>6, LengthsInFinite
<1> QED
  BY <1>7 DEF SentIn, Side, lens

LEMMA InferredLensFinite ==
    ASSUME NEW row
    PROVE  IsFiniteSet(DOMAIN InferredInfo(row).lens)
<1>1. CASE row.category = "header" /\ row.guesses[1].lo <= row.guesses[1].hi
  <2>1. InferredInfo(row).lens = <<row.guesses[1].lo>>
    BY <1>1 DEF InferredInfo
  <2>2. DOMAIN InferredInfo(row).lens = {1}
    BY <2>1
  <2> QED
    BY <2>2, FS_Singleton
<1>2. CASE ~(row.category = "header" /\ row.guesses[1].lo <= row.guesses[1].hi)
  <2>1. InferredInfo(row).lens = <<>>
    BY <1>2 DEF InferredInfo
  <2>2. DOMAIN InferredInfo(row).lens = {}
    BY <2>1
  <2> QED
    BY <2>2, FS_EmptySet
<1> QED
  BY <1>1, <1>2

\* A file has finitely many rows and header lengths; each is of one of its rows.
LEMMA FileIsFinite ==
    ASSUME NEW t, WholeTable(t), NEW n \in Names
    PROVE  LET file == FilesOf(t)[n]
           IN  /\ IsFiniteSet(DOMAIN file.rows) /\ IsFiniteSet(Lengths(t, file))
               /\ \A e \in Lengths(t, file) : e.frame \in DOMAIN file.rows
<1> DEFINE file == FilesOf(t)[n]
           parts == [i \in DOMAIN file.rows |-> LengthsIn(i, Info(t, file.rows[i]).lens, file.direction)]
           family == {parts[i] : i \in DOMAIN file.rows}
<1>1. \A i \in DOMAIN file.rows : i \in Listed /\ n = NameOf(pkts[i])
  BY RowsAreOfName
<1>2. IsFiniteSet(DOMAIN file.rows)
  <2>1. DOMAIN file.rows \subseteq Listed
    BY <1>1
  <2> QED
    BY <2>1, FramesFinite, FS_Subset DEF WholeTable
<1>3. ASSUME NEW i \in DOMAIN file.rows PROVE IsFiniteSet(parts[i])
  <2>1. CASE t[1] = "inferred"
    <3>1. Info(t, file.rows[i]) = InferredInfo(file.rows[i])
      BY <2>1 DEF Info
    <3> QED
      BY <3>1, InferredLensFinite, LengthsInFinite
  <2>2. CASE t[1] = "decrypted"
    <3>1. parts[i] = SentIn(t, i)
      BY <1>1, <2>2, LengthsAreSent
    <3> QED
      BY <1>1, <3>1, SentInFinite, ListedFacts DEF WholeTable
  <2> QED
    BY <2>1, <2>2 DEF WholeTable, Tables
<1>4. \A i \in DOMAIN file.rows : \A e \in parts[i] : e.frame = i
  BY DEF LengthsIn, Length
<1>5. Lengths(t, file) = UNION family
  BY DEF Lengths
<1>6. DOMAIN parts = DOMAIN file.rows
  OBVIOUS
<1> HIDE DEF parts
<1>7. parts \in Surjection(DOMAIN file.rows, family)
  <2>1. parts \in [DOMAIN file.rows -> family]
    BY <1>6 DEF parts
  <2>2. \A e \in family : \E i \in DOMAIN file.rows : parts[i] = e
    OBVIOUS
  <2> QED
    BY <2>1, <2>2 DEF Surjection
<1>8. IsFiniteSet(family)
  BY <1>2, <1>7, FS_Surjection
<1>9. IsFiniteSet(UNION family)
  <2>1. \A T \in family : IsFiniteSet(T)
    BY <1>3
  <2> HIDE DEF family
  <2> QED
    BY <1>8, <2>1, FS_UNION
<1>10. \A e \in UNION family : e.frame \in DOMAIN file.rows
  BY <1>4
<1> QED
  BY <1>2, <1>5, <1>9, <1>10

-----------------------------------------------------------------------------
(* FlowTables: what the verification finds when every connection is paired. *)

\* What a connection is known by in `single'.
Tag(c) == <<<<Port(c[1]), Port(c[2])>>, {c[3]} \cap CollidedStreams>>

LEMMA NameTag ==
    ASSUME FlowTypeOK, SplitSucceeds, NEW m \in Listed
    PROVE  LET n == NameOf(pkts[m])
               c == Conn(pkts[m])
           IN  /\ Side(pkts[m]) = "forward" => n.name = <<"forward", Port(c[1]), Port(c[2])>>
               /\ Side(pkts[m]) = "reverse" => n.name = <<"reverse", Port(c[2]), Port(c[1])>>
               /\ n = [name |-> n.name, suffix |-> {c[3]} \cap CollidedStreams]
               /\ PortsAndSuffix(n) = Tag(c)
<1> DEFINE p == pkts[m]
           k == PacketKey(p)
           n == NameOf(p)
           c == Conn(p)
<1>1. k.src = p.src /\ k.dst = p.dst /\ k.stream = p.stream
  BY DEF PacketKey
<1>2. DirectionOf(k) = Side(p)
  BY DirectionIsTrue DEF Side
<1>3. n = [name |-> <<Side(p), Port(p.src), Port(p.dst)>>, suffix |-> {p.stream} \cap CollidedStreams]
  BY <1>1, <1>2 DEF NameOf, FileName, PortName
<1>4. c[1] = ClientEnd(p) /\ c[2] = ServerEnd(p) /\ c[3] = p.stream
  BY DEF Conn
<1>5. CASE p.up
  <2>1. Side(p) = "forward" /\ p.src = c[1] /\ p.dst = c[2]
    BY <1>4, <1>5 DEF Side, ClientEnd, ServerEnd
  <2>2. n.name = <<"forward", Port(c[1]), Port(c[2])>> /\ n.suffix = {c[3]} \cap CollidedStreams
    BY <1>3, <1>4, <2>1
  <2>3. PortsAndSuffix(n) = Tag(c)
    BY <2>2 DEF PortsAndSuffix, Tag
  <2> QED
    BY <1>3, <1>4, <2>1, <2>2, <2>3
<1>6. CASE ~p.up
  <2>1. Side(p) = "reverse" /\ p.src = c[2] /\ p.dst = c[1]
    BY <1>4, <1>6 DEF Side, ClientEnd, ServerEnd
  <2>2. n.name = <<"reverse", Port(c[2]), Port(c[1])>> /\ n.suffix = {c[3]} \cap CollidedStreams
    BY <1>3, <1>4, <2>1
  <2>3. PortsAndSuffix(n) = Tag(c)
    BY <2>2 DEF PortsAndSuffix, Tag
  <2> QED
    BY <1>3, <1>4, <2>1, <2>2, <2>3
<1> QED
  BY <1>5, <1>6

\* The three rows of a paired connection have its tag.
LEMMA RowTags ==
    ASSUME NEW t, WholeTable(t), NEW c, Paired(t, c), NEW d \in {"forward", "reverse", "bidirectional"}
    PROVE  PortsAndSuffix(FlowName(t, c, d)) = Tag(c)
<1>1. DOMAIN Group(t, c) = {"forward", "reverse"}
  BY DEF Paired, Directions
<1>2. ASSUME NEW x \in {"forward", "reverse"} PROVE PortsAndSuffix(Group(t, c)[x]) = Tag(c)
  <2>1. PICK m \in Listed : Conn(pkts[m]) = c /\ Group(t, c)[x] = NameOf(pkts[m])
    BY <1>1, GroupHasPacket
  <2> QED
    BY <2>1, NameTag DEF WholeTable
<1>3. CASE d # "bidirectional"
  BY <1>2, <1>3 DEF FlowName
<1>4. CASE d = "bidirectional"
  <2>1. FlowName(t, c, d) = [name |-> <<"bidirectional", Port(c[1]), Port(c[2])>>,
                             suffix |-> Group(t, c)["forward"].suffix]
    BY <1>1, <1>4 DEF FlowName
  <2>2. PortsAndSuffix(Group(t, c)["forward"])[2] = Group(t, c)["forward"].suffix
    BY DEF PortsAndSuffix
  <2>3. Group(t, c)["forward"].suffix = {c[3]} \cap CollidedStreams
    BY <1>2, <2>2 DEF Tag
  <2> QED
    BY <2>1, <2>3 DEF PortsAndSuffix, Tag
<1> QED
  BY <1>3, <1>4

\* No two connections have the same tag: their files' names are different.
LEMMA TagsDiffer ==
    ASSUME NEW t, WholeTable(t), NEW c, Paired(t, c), NEW x, Paired(t, x), Tag(c) = Tag(x)
    PROVE  c = x
<1>1. "forward" \in DOMAIN Group(t, c) /\ "forward" \in DOMAIN Group(t, x)
  BY DEF Paired, Directions
<1>2. PICK m \in Listed : Conn(pkts[m]) = c /\ Side(pkts[m]) = "forward"
  BY <1>1, GroupHasPacket
<1>3. PICK n \in Listed : Conn(pkts[n]) = x /\ Side(pkts[n]) = "forward"
  BY <1>1, GroupHasPacket
<1>4. /\ Port(c[1]) = Port(x[1]) /\ Port(c[2]) = Port(x[2])
      /\ {c[3]} \cap CollidedStreams = {x[3]} \cap CollidedStreams
  BY DEF Tag
<1>5. NameOf(pkts[m]) = [name |-> <<"forward", Port(c[1]), Port(c[2])>>,
                         suffix |-> {c[3]} \cap CollidedStreams]
  BY <1>2, NameTag DEF WholeTable
<1>6. NameOf(pkts[n]) = [name |-> <<"forward", Port(x[1]), Port(x[2])>>,
                         suffix |-> {x[3]} \cap CollidedStreams]
  BY <1>3, NameTag DEF WholeTable
<1>7. NameOf(pkts[m]) = NameOf(pkts[n])
  BY <1>4, <1>5, <1>6
<1> QED
  BY <1>2, <1>3, <1>7, RowFacts

\* A file of a connection is finite, and its header column is as long as its set
\* of header lengths.
LEMMA SideFacts ==
    ASSUME NEW t, WholeTable(t), NEW c, NEW d \in DOMAIN Group(t, c)
    PROVE  LET file == FileOf(t, c, d)
           IN  /\ IsFiniteSet(Lengths(t, file)) /\ Cardinality(Lengths(t, file)) \in Nat
               /\ \A e \in Lengths(t, file) : e.frame \in DOMAIN file.rows
               /\ \A k : Count(t, file, k) \in Nat
<1> DEFINE file == FileOf(t, c, d)
<1>1. PICK m \in Listed : Group(t, c)[d] = NameOf(pkts[m])
  BY GroupHasPacket
<1>2. Group(t, c)[d] \in Names
  BY <1>1, RowFacts
<1>3. /\ IsFiniteSet(DOMAIN file.rows) /\ IsFiniteSet(Lengths(t, file))
      /\ \A e \in Lengths(t, file) : e.frame \in DOMAIN file.rows
  BY <1>2, FileIsFinite DEF FileOf
<1>4. \A S : IsFiniteSet(S) => Cardinality(S) \in Nat
  BY FS_CardinalityType
<1>5. \A k : Count(t, file, k) \in Nat
  <2> SUFFICES ASSUME NEW k PROVE Count(t, file, k) \in Nat
    OBVIOUS
  <2> DEFINE T == {i \in DOMAIN file.rows : Info(t, file.rows[i]).category = k}
  <2>1. T \subseteq DOMAIN file.rows
    OBVIOUS
  <2>2. Count(t, file, k) = Cardinality(T)
    BY DEF Count
  <2> HIDE DEF T
  <2>3. IsFiniteSet(T)
    BY <1>3, <2>1, FS_Subset
  <2> QED
    BY <1>4, <2>2, <2>3
<1> QED
  BY <1>3, <1>4, <1>5

LEMMA ColumnLength ==
    ASSUME NEW S, Cardinality(S) \in Nat, NEW d
    PROVE  Len(HeaderColumn(S, d)) = Cardinality(S)
<1> DEFINE n == Cardinality(S)
           col == HeaderColumn(S, d)
<1>1. DOMAIN col = 1 .. n
  BY DEF HeaderColumn
<1>2. col = [x \in 1 .. n |-> col[x]]
  BY DEF HeaderColumn
<1> HIDE DEF n, col
<1>3. n \in Nat
  BY DEF n
<1>4. Len([x \in 1 .. n |-> col[x]]) = n
  BY <1>3
<1> QED
  BY <1>2, <1>4 DEF n, col

\* What a row of a one-directional table says.
LEMMA SingleSums ==
    ASSUME NEW t, WholeTable(t), NEW c, NEW d \in DOMAIN Group(t, c)
    PROVE  LET file == FileOf(t, c, d)
               row == SummaryRow(t, c, d)
           IN  /\ Len(row.lens) = Cardinality(Lengths(t, file))
               /\ \A k \in Categories : row.counts[k] = Count(t, file, k)
<1> DEFINE file == FileOf(t, c, d)
           row == SummaryRow(t, c, d)
           lengths == UNION {Lengths(t, FileOf(t, c, x)) : x \in {d}}
           sum(k) == [x \in {d} |-> Count(t, FileOf(t, c, x), k)]
<1>1. d # "bidirectional"
  BY GroupHasPacket DEF Directions
<1>2. row.lens = HeaderColumn(lengths, d) /\ \A k \in Categories : row.counts[k] = SumOf(sum(k))
  BY <1>1 DEF SummaryRow
<1>3. lengths = Lengths(t, file)
  OBVIOUS
<1>4. \A k : DOMAIN sum(k) = {d} /\ sum(k)[d] = Count(t, file, k)
  OBVIOUS
<1>5. Cardinality(Lengths(t, file)) \in Nat /\ \A k : Count(t, file, k) \in Nat
  BY SideFacts
<1> HIDE DEF lengths, sum, row, file
<1>6. Len(row.lens) = Cardinality(Lengths(t, file))
  BY <1>2, <1>3, <1>5, ColumnLength
<1>7. \A k : SumOf(sum(k)) = Count(t, file, k)
  <2> TAKE k
  <2>1. DOMAIN sum(k) = {d} /\ sum(k)[d] \in Nat
    BY <1>4, <1>5
  <2>2. SumOf(sum(k)) = sum(k)[d]
    BY <2>1, SumOfOne
  <2> QED
    BY <1>4, <2>2
<1>8. \A k \in Categories : row.counts[k] = Count(t, file, k)
  BY <1>2, <1>7
<1> QED
  BY <1>6, <1>8 DEF row, file

\* A bidirectional row is the sum of its two files: no frame is in both.
LEMMA PairSums ==
    ASSUME NEW t, WholeTable(t), SummarySucceeds, NEW c \in Connections(t), Paired(t, c)
    PROVE  LET forward == FileOf(t, c, "forward")
               reverse == FileOf(t, c, "reverse")
               row == SummaryRow(t, c, "bidirectional")
           IN  /\ Len(row.lens) = Cardinality(Lengths(t, forward)) + Cardinality(Lengths(t, reverse))
               /\ \A k \in Categories :
                     row.counts[k] = Count(t, forward, k) + Count(t, reverse, k)
<1> DEFINE both == {"forward", "reverse"}
           f == FileOf(t, c, "forward")
           r == FileOf(t, c, "reverse")
           L == Lengths(t, f)
           M == Lengths(t, r)
           row == SummaryRow(t, c, "bidirectional")
           lengths == UNION {Lengths(t, FileOf(t, c, x)) : x \in both}
           sum(k) == [x \in both |-> Count(t, FileOf(t, c, x), k)]
<1>1. DOMAIN Group(t, c) = both
  BY DEF Paired, Directions
<1>2. row.lens = HeaderColumn(lengths, "bidirectional") /\ \A k \in Categories : row.counts[k] = SumOf(sum(k))
  BY <1>1 DEF SummaryRow
<1>3. lengths = L \cup M
  OBVIOUS
<1>4. \A k : DOMAIN sum(k) = both /\ sum(k)["forward"] = Count(t, f, k) /\ sum(k)["reverse"] = Count(t, r, k)
  OBVIOUS
<1>5. /\ IsFiniteSet(L) /\ Cardinality(L) \in Nat /\ \A e \in L : e.frame \in DOMAIN f.rows
      /\ \A k : Count(t, f, k) \in Nat
  BY <1>1, SideFacts
<1>6. /\ IsFiniteSet(M) /\ Cardinality(M) \in Nat /\ \A e \in M : e.frame \in DOMAIN r.rows
      /\ \A k : Count(t, r, k) \in Nat
  BY <1>1, SideFacts
<1>7. DOMAIN f.rows \cap DOMAIN r.rows = {}
  BY DEF SummarySucceeds, WholeTable
<1>8. L \cap M = {}
  BY <1>5, <1>6, <1>7
<1> HIDE DEF lengths, sum, row, f, r, L, M, both
<1>9. Cardinality(L \cup M) = Cardinality(L) + Cardinality(M)
  <2>1. Cardinality(L \cup M) = Cardinality(L) + Cardinality(M) - Cardinality(L \cap M)
    BY <1>5, <1>6, FS_Union
  <2>2. Cardinality(L \cap M) = 0
    BY <1>8, FS_EmptySet
  <2> QED
    BY <1>5, <1>6, <2>1, <2>2
<1>10. Len(row.lens) = Cardinality(L) + Cardinality(M)
  <2>1. Cardinality(lengths) \in Nat
    BY <1>3, <1>5, <1>6, <1>9
  <2> QED
    BY <1>2, <1>3, <1>9, <2>1, ColumnLength
<1>11. \A k : SumOf(sum(k)) = Count(t, f, k) + Count(t, r, k)
  <2> TAKE k
  <2>1. DOMAIN sum(k) = {"forward", "reverse"} /\ sum(k)["forward"] \in Nat /\ sum(k)["reverse"] \in Nat
    BY <1>4, <1>5, <1>6 DEF both
  <2>2. SumOf(sum(k)) = sum(k)["forward"] + sum(k)["reverse"]
    BY <2>1, SumOfTwo
  <2> QED
    BY <1>4, <2>2
<1>12. \A k \in Categories : row.counts[k] = Count(t, f, k) + Count(t, r, k)
  BY <1>2, <1>11
<1> QED
  BY <1>10, <1>12 DEF row, f, r, L, M

LEMMA Accounted ==
    ASSUME NEW t, WholeTable(t), SummarySucceeds, sequences = Summary, \A c \in Connections(t) : Paired(t, c)
    PROVE  RowsAccounted(t)
<1> DEFINE C == Connections(t)
           both == {"forward", "reverse"}
           pairRows == sequences[t].bidirectional
           F(c) == FileOf(t, c, "forward")
           R(c) == FileOf(t, c, "reverse")
<1>1. /\ sequences[t].forward = [c \in With(t, "forward") |-> SummaryRow(t, c, "forward")]
      /\ sequences[t].reverse = [c \in With(t, "reverse") |-> SummaryRow(t, c, "reverse")]
      /\ pairRows = [c \in C |-> SummaryRow(t, c, "bidirectional")]
  BY DEF Summary, WholeTable
<1>2. With(t, "forward") = C /\ With(t, "reverse") = C
  BY DEF With, Paired, Directions
<1>3. Single(t) = both \X C
  <2>1. DOMAIN sequences[t]["forward"] = C /\ DOMAIN sequences[t]["reverse"] = C
    BY <1>1, <1>2
  <2> HIDE DEF C
  <2>2. Single(t) = ({"forward"} \X C) \cup ({"reverse"} \X C)
    BY <2>1 DEF Single, Directions
  <2> QED
    BY <2>2
<1>4. \A c \in C : SingleRow(t, <<"forward", c>>) = SummaryRow(t, c, "forward")
                   /\ SingleRow(t, <<"reverse", c>>) = SummaryRow(t, c, "reverse")
  BY <1>1, <1>2 DEF SingleRow
<1>5. \A c, d : SummaryRow(t, c, d).flow = FlowName(t, c, d)
  BY DEF SummaryRow
<1>6. \A c \in C : \A d \in both : PortsAndSuffix(SingleRow(t, <<d, c>>).flow) = Tag(c)
  <2> SUFFICES ASSUME NEW c \in C, NEW d \in both
               PROVE  PortsAndSuffix(SingleRow(t, <<d, c>>).flow) = Tag(c)
    OBVIOUS
  <2>1. PortsAndSuffix(FlowName(t, c, d)) = Tag(c)
    BY RowTags
  <2>2. SingleRow(t, <<d, c>>) = SummaryRow(t, c, d)
    BY <1>4
  <2> QED
    BY <1>5, <2>1, <2>2
<1>7. \A c \in C : PortsAndSuffix(pairRows[c].flow) = Tag(c)
  BY <1>1, <1>5, RowTags
<1>8. \A c, x \in C : Tag(c) = Tag(x) => c = x
  BY TagsDiffer
<1>9. DOMAIN pairRows = C
  BY <1>1
<1> HIDE DEF C, pairRows
<1>10. \A c \in C : Sources(t, pairRows[c]) = {<<"forward", c>>, <<"reverse", c>>}
  <2> SUFFICES ASSUME NEW c \in C PROVE Sources(t, pairRows[c]) = {<<"forward", c>>, <<"reverse", c>>}
    OBVIOUS
  <2>1. \A s \in Single(t) : s \in Sources(t, pairRows[c]) <=> PortsAndSuffix(SingleRow(t, s).flow) = Tag(c)
    BY <1>7 DEF Sources
  <2>2. \A d \in both : \A x \in C : <<d, x>> \in Sources(t, pairRows[c]) <=> x = c
    BY <1>3, <1>6, <1>8, <2>1
  <2>3. Sources(t, pairRows[c]) \subseteq both \X C
    BY <1>3 DEF Sources
  <2>4. ASSUME NEW s \in Sources(t, pairRows[c]) PROVE s \in {<<"forward", c>>, <<"reverse", c>>}
    <3>1. PICK d \in both, x \in C : s = <<d, x>>
      BY <2>3, <2>4
    <3>2. x = c
      BY <2>2, <2>4, <3>1
    <3> QED
      BY <3>1, <3>2
  <2>5. <<"forward", c>> \in Sources(t, pairRows[c]) /\ <<"reverse", c>> \in Sources(t, pairRows[c])
    BY <2>2
  <2> QED
    BY <2>4, <2>5
<1>11. ASSUME NEW c \in C
       PROVE  /\ Len(SingleRow(t, <<"forward", c>>).lens) = Cardinality(Lengths(t, F(c)))
              /\ Len(SingleRow(t, <<"reverse", c>>).lens) = Cardinality(Lengths(t, R(c)))
              /\ Cardinality(Lengths(t, F(c))) \in Nat /\ Cardinality(Lengths(t, R(c))) \in Nat
              /\ \A k \in Categories :
                    /\ SingleRow(t, <<"forward", c>>).counts[k] = Count(t, F(c), k)
                    /\ SingleRow(t, <<"reverse", c>>).counts[k] = Count(t, R(c), k)
                    /\ Count(t, F(c), k) \in Nat /\ Count(t, R(c), k) \in Nat
  <2>1. "forward" \in DOMAIN Group(t, c) /\ "reverse" \in DOMAIN Group(t, c)
    BY DEF C, Paired, Directions
  <2>2. /\ Len(SingleRow(t, <<"forward", c>>).lens) = Cardinality(Lengths(t, F(c)))
        /\ \A k \in Categories : SingleRow(t, <<"forward", c>>).counts[k] = Count(t, F(c), k)
    BY <1>4, <2>1, SingleSums
  <2>3. /\ Len(SingleRow(t, <<"reverse", c>>).lens) = Cardinality(Lengths(t, R(c)))
        /\ \A k \in Categories : SingleRow(t, <<"reverse", c>>).counts[k] = Count(t, R(c), k)
    BY <1>4, <2>1, SingleSums
  <2>4. Cardinality(Lengths(t, F(c))) \in Nat /\ \A k : Count(t, F(c), k) \in Nat
    BY <2>1, SideFacts
  <2>5. Cardinality(Lengths(t, R(c))) \in Nat /\ \A k : Count(t, R(c), k) \in Nat
    BY <2>1, SideFacts
  <2> QED
    BY <2>2, <2>3, <2>4, <2>5
<1>12. ASSUME NEW c \in C
       PROVE  /\ Len(pairRows[c].lens) = Cardinality(Lengths(t, F(c))) + Cardinality(Lengths(t, R(c)))
              /\ \A k \in Categories : pairRows[c].counts[k] = Count(t, F(c), k) + Count(t, R(c), k)
  BY <1>1, PairSums DEF C
<1> HIDE DEF F, R
<1>13. ASSUME NEW c \in C
       PROVE  Len(pairRows[c].lens) = SumOf([s \in Sources(t, pairRows[c]) |-> Len(SingleRow(t, s).lens)])
  <2> DEFINE g == [s \in Sources(t, pairRows[c]) |-> Len(SingleRow(t, s).lens)]
             a == <<"forward", c>>
             b == <<"reverse", c>>
  <2>1. DOMAIN g = {a, b} /\ a # b
    BY <1>10
  <2>2. g[a] = Cardinality(Lengths(t, F(c))) /\ g[b] = Cardinality(Lengths(t, R(c)))
    BY <1>10, <1>11
  <2>3. g[a] \in Nat /\ g[b] \in Nat
    BY <1>11, <2>2
  <2> HIDE DEF g, a, b
  <2>4. SumOf(g) = g[a] + g[b]
    BY <2>1, <2>3, SumOfTwo
  <2> QED
    BY <1>12, <2>2, <2>4 DEF g
<1>14. ASSUME NEW c \in C, NEW k \in Categories
       PROVE  pairRows[c].counts[k] = SumOf([s \in Sources(t, pairRows[c]) |-> SingleRow(t, s).counts[k]])
  <2> DEFINE g == [s \in Sources(t, pairRows[c]) |-> SingleRow(t, s).counts[k]]
             a == <<"forward", c>>
             b == <<"reverse", c>>
  <2>1. DOMAIN g = {a, b} /\ a # b
    BY <1>10
  <2>2. g[a] = Count(t, F(c), k) /\ g[b] = Count(t, R(c), k)
    BY <1>10, <1>11
  <2>3. g[a] \in Nat /\ g[b] \in Nat
    BY <1>11, <2>2
  <2> HIDE DEF g, a, b
  <2>4. SumOf(g) = g[a] + g[b]
    BY <2>1, <2>3, SumOfTwo
  <2> QED
    BY <1>12, <2>2, <2>4 DEF g
<1>15. Single(t) = UNION {Sources(t, pairRows[c]) : c \in C}
  BY <1>3, <1>10
<1>16. \A c \in C : /\ Sources(t, pairRows[c]) # {}
                    /\ \A x \in C \ {c} : Sources(t, pairRows[x]) \cap Sources(t, pairRows[c]) = {}
  <2> SUFFICES ASSUME NEW c \in C
               PROVE  /\ Sources(t, pairRows[c]) # {}
                      /\ \A x \in C \ {c} : Sources(t, pairRows[x]) \cap Sources(t, pairRows[c]) = {}
    OBVIOUS
  <2>1. Sources(t, pairRows[c]) = {<<"forward", c>>, <<"reverse", c>>}
    BY <1>10
  <2>2. ASSUME NEW x \in C \ {c} PROVE Sources(t, pairRows[x]) \cap Sources(t, pairRows[c]) = {}
    <3>1. Sources(t, pairRows[x]) = {<<"forward", x>>, <<"reverse", x>>}
      BY <1>10
    <3>2. \A d, e : <<d, x>> # <<e, c>>
      BY <2>2
    <3> QED
      BY <2>1, <3>1, <3>2
  <2> QED
    BY <2>1, <2>2
<1> QED
  BY <1>9, <1>13, <1>14, <1>15, <1>16 DEF RowsAccounted, pairRows

\* Without a server name filter the tables have every TCP 443 packet.
LEMMA Covered ==
    ASSUME NEW t, WholeTable(t), table = FlowTable, input.wanted = {}
    PROVE  PacketsCovered(t)
<1>1. Listed = Eligible
  <2>1. table = {FlowKey(pkts[i]) : i \in Frames}
    BY DEF FlowTable
  <2>2. ASSUME NEW i \in Eligible PROVE i \in Listed
    <3>1. i \in Frames /\ pkts[i].transport = "TCP" /\ HTTPS \in {Port(pkts[i].src), Port(pkts[i].dst)}
      BY DEF Eligible
    <3>2. FlowKey(pkts[i]) \in TlsFlows
      BY <2>1, <3>1 DEF TlsFlows, FlowKey
    <3> QED
      BY <3>2 DEF Listed, Has, FlowKey
  <2> QED
    BY <2>2, ListedFacts
<1>2. DOMAIN FilesOf(t) = Names
  BY FileFacts
<1>3. \A n \in Names : DOMAIN FilesOf(t)[n].rows \subseteq Eligible
  BY <1>1, RowsAreOfName
<1>4. ASSUME NEW i \in Eligible
      PROVE  /\ Cardinality(FilesWith(t, i)) = 1
             /\ \A n \in FilesWith(t, i) : FilesOf(t)[n].key = PacketKey(pkts[i])
  <2> DEFINE m == NameOf(pkts[i])
  <2>1. FilesWith(t, i) = {m} /\ FilesOf(t)[m].key = PacketKey(pkts[i])
    BY <1>1, RowFacts
  <2> HIDE DEF m
  <2>2. Cardinality(FilesWith(t, i)) = 1
    BY <2>1, FS_Singleton
  <2> QED
    BY <2>1, <2>2
<1> QED
  BY <1>2, <1>3, <1>4 DEF PacketsCovered

LEMMA PairedVerify == FlowInv => PairedTablesVerify
<1> SUFFICES ASSUME FlowInv, stage = "rejected", \A t \in Tables : \A c \in Connections(t) : Paired(t, c)
             PROVE  FALSE
  BY DEF PairedTablesVerify
<1>1. ~TablesVerified /\ input.wanted = {} /\ SummarySucceeds /\ sequences = Summary /\ table = FlowTable
  BY DEF FlowInv, Summarised, Tabled
<1>2. ASSUME NEW t \in Tables, t[1] = "inferred" \/ input.usableKey
      PROVE  PacketsCovered(t) /\ RowsAccounted(t)
  <2>1. WholeTable(t)
    BY <1>2, StagesAreWhole DEF Inferred
  <2> QED
    BY <1>1, <2>1, Covered, Accounted
<1> QED
  BY <1>1, <1>2 DEF TablesVerified

-----------------------------------------------------------------------------

\* FlowTables: what every stage leaves behind is what it computes from the capture
\* and from the files of the stages before it.
THEOREM FlowInvariant == FlowSpec => []FlowInv
<1>1. FlowInit => FlowInv
  BY FlowInvStart
<1>2. FlowInv /\ [FlowNext]_flowVars => FlowInv'
  BY FlowInvKept
<1> QED
  BY <1>1, <1>2, PTL DEF FlowSpec

\* FlowTables: every packet of a listed flow is in one file of each kind, the one
\* of its stream and direction, and the tables of a capture whose connections are
\* all paired pass verify_sequences.py.
THEOREM FilesHoldTheirConnectionsAlways == FlowSpec => []FilesHoldTheirConnections
<1>1. FlowInv => FilesHoldTheirConnections
  BY PacketsOnce, PairedVerify DEF FilesHoldTheirConnections, FlowInv
<1> QED
  BY <1>1, FlowInvariant, PTL

\* FlowTables: the decrypted tables give what the two ends sent, in order, and the
\* inferred length of a frame is its own plus what its record has beyond TLS_OVERHEAD.
THEOREM LengthsAreTrueAlways == FlowSpec => []LengthsAreTrue
<1>1. FlowInv => LengthsAreTrue
  BY SequencesTrue, RangesTrue DEF LengthsAreTrue
<1> QED
  BY <1>1, FlowInvariant, PTL

-----------------------------------------------------------------------------
(* FlowTables: a header column lists in the order of the capture.           *)

Rank(S, e) == Cardinality(Before(S, e))
InOrder(S) == \A d, e \in S : d = e \/ Precedes(d, e) \/ Precedes(e, d)
Placed(S) == \A e \in S : e.frame \in Nat /\ e.at \in Nat

LEMMA RankBounds ==
    ASSUME NEW S, IsFiniteSet(S), Placed(S), NEW e \in S
    PROVE  /\ IsFiniteSet(Before(S, e)) /\ Rank(S, e) \in 0 .. Cardinality(S) - 1
           /\ e \notin Before(S, e)
<1>1. e.frame \in Nat /\ e.at \in Nat
  BY DEF Placed
<1>2. Before(S, e) \subseteq S /\ e \notin Before(S, e)
  BY <1>1 DEF Before, Precedes
<1>3. IsFiniteSet(Before(S, e)) /\ Cardinality(Before(S, e)) <= Cardinality(S)
  BY <1>2, FS_Subset
<1>4. Cardinality(Before(S, e)) \in Nat /\ Cardinality(S) \in Nat
  BY <1>3, FS_CardinalityType
<1>5. Cardinality(Before(S, e)) # Cardinality(S)
  BY <1>2, FS_Subset
<1> QED
  BY <1>2, <1>3, <1>4, <1>5 DEF Rank

LEMMA RankGrows ==
    ASSUME NEW S, IsFiniteSet(S), Placed(S), NEW d \in S, NEW e \in S, Precedes(d, e)
    PROVE  Rank(S, d) < Rank(S, e)
<1>1. d.frame \in Nat /\ d.at \in Nat /\ e.frame \in Nat /\ e.at \in Nat
  BY DEF Placed
<1>2. ASSUME NEW x \in Before(S, d) PROVE x \in Before(S, e)
  <2>1. x \in S /\ x.frame \in Nat /\ x.at \in Nat /\ Precedes(x, d)
    BY <1>2 DEF Before, Placed
  <2> QED
    BY <1>1, <2>1 DEF Before, Precedes
<1>3. d \in Before(S, e) /\ d \notin Before(S, d)
  BY RankBounds DEF Before
<1> DEFINE A == Before(S, d)
           B == Before(S, e)
<1>4. IsFiniteSet(A) /\ IsFiniteSet(B) /\ Cardinality(A) \in Nat /\ Cardinality(B) \in Nat
  BY RankBounds, FS_CardinalityType
<1>5. A \subseteq B /\ A # B
  BY <1>2, <1>3
<1> HIDE DEF A, B
<1>6. Cardinality(A) <= Cardinality(B) /\ Cardinality(A) # Cardinality(B)
  BY <1>4, <1>5, FS_Subset
<1> QED
  BY <1>4, <1>6 DEF Rank, A, B

\* The n-th length of a column exists for every n and a later one follows it, and
\* every length has its place (merge in extract_header_seqs.py sorts the two sides).
LEMMA ColumnInOrder ==
    ASSUME NEW S, IsFiniteSet(S), Placed(S), InOrder(S)
    PROVE  /\ \A n \in 1 .. Cardinality(S) : Nth(S, n) \in S
           /\ \A m, n \in 1 .. Cardinality(S) : m < n => Precedes(Nth(S, m), Nth(S, n))
           /\ \A e \in S : \E n \in 1 .. Cardinality(S) : Nth(S, n) = e
<1> DEFINE c == Cardinality(S)
           T == 0 .. c - 1
           rank == [e \in S |-> Rank(S, e)]
<1>1. c \in Nat
  BY FS_CardinalityType
<1>2. \A e \in S : Rank(S, e) \in T
  BY RankBounds
<1>3. \A d, e \in S : Rank(S, d) = Rank(S, e) => d = e
  <2> SUFFICES ASSUME NEW d \in S, NEW e \in S, Rank(S, d) = Rank(S, e), d # e PROVE FALSE
    OBVIOUS
  <2>1. Rank(S, d) \in Nat /\ Rank(S, e) \in Nat
    BY <1>1, <1>2
  <2>2. Precedes(d, e) \/ Precedes(e, d)
    BY DEF InOrder
  <2>3. Rank(S, d) < Rank(S, e) \/ Rank(S, e) < Rank(S, d)
    BY <2>2, RankGrows
  <2> QED
    BY <2>1, <2>3
<1>4. rank \in Injection(S, T)
  BY <1>2, <1>3 DEF Injection, IsInjective
<1>5. IsFiniteSet(T) /\ Cardinality(T) = c
  BY <1>1, FS_Interval
<1> HIDE DEF T, c
<1>6. rank \in Surjection(S, T)
  <2> HIDE DEF rank
  <2> QED
    BY <1>4, <1>5, FS_Injection DEF c
<1>7. \A r \in T : \E e \in S : Rank(S, e) = r
  BY <1>6 DEF Surjection
<1>8. ASSUME NEW n \in 1 .. c PROVE Nth(S, n) \in S /\ Rank(S, Nth(S, n)) = n - 1
  <2>1. n - 1 \in T
    BY <1>1 DEF T
  <2>2. PICK e \in S : Rank(S, e) = n - 1
    BY <1>7, <2>1
  <2> QED
    BY <2>2 DEF Nth, Rank
<1>9. ASSUME NEW m \in 1 .. c, NEW n \in 1 .. c, m < n PROVE Precedes(Nth(S, m), Nth(S, n))
  <2> DEFINE d == Nth(S, m)
             e == Nth(S, n)
  <2>1. d \in S /\ e \in S /\ Rank(S, d) = m - 1 /\ Rank(S, e) = n - 1
    BY <1>8
  <2> HIDE DEF d, e
  <2>2. m \in Nat /\ n \in Nat
    BY <1>1
  <2>3. d # e /\ ~(Rank(S, e) < Rank(S, d))
    BY <1>9, <2>1, <2>2
  <2>4. ~Precedes(e, d)
    BY <2>1, <2>3, RankGrows
  <2>5. Precedes(d, e)
    BY <2>1, <2>3, <2>4 DEF InOrder
  <2> QED
    BY <2>5 DEF d, e
<1>10. ASSUME NEW e \in S PROVE \E n \in 1 .. c : Nth(S, n) = e
  <2> DEFINE n == Rank(S, e) + 1
  <2>1. n \in 1 .. c /\ n - 1 = Rank(S, e)
    BY <1>1, <1>2 DEF T
  <2> HIDE DEF n
  <2>2. Nth(S, n) \in S /\ Rank(S, Nth(S, n)) = n - 1
    BY <1>8, <2>1
  <2>3. Nth(S, n) = e
    BY <1>3, <2>1, <2>2
  <2> QED
    BY <2>1, <2>3
<1> QED
  BY <1>8, <1>9, <1>10 DEF c

\* What the two ends of a stream sent is finite and has one order.
LEMMA SentPlaced ==
    ASSUME FlowTypeOK, NEW t, NEW s
    PROVE  IsFiniteSet(Sent(t, s)) /\ Placed(Sent(t, s)) /\ InOrder(Sent(t, s))
<1> DEFINE own == {j \in Eligible : pkts[j].stream = s}
           parts == [i \in own |-> SentIn(t, i)]
           family == {parts[i] : i \in own}
           lens(i) == IF t[2] = "http1" THEN pkts[i].http1 ELSE HeaderLens(pkts[i].frames)
<1>1. ASSUME NEW i \in Eligible
      PROVE  i \in Nat /\ \A e \in SentIn(t, i) :
                 e.frame = i /\ e.at \in Nat /\ e = Length(i, e.at, lens(i)[e.at], Side(pkts[i]))
  <2>1. i \in Frames /\ Len(pkts) \in Nat /\ PacketOK(pkts[i])
    BY PacketFacts
  <2>2. DOMAIN pkts[i].http1 \subseteq Nat /\ DOMAIN pkts[i].frames \subseteq Nat
    BY <2>1 DEF PacketOK
  <2>3. DOMAIN HeaderLens(pkts[i].frames) \subseteq DOMAIN pkts[i].frames
    BY DEF HeaderLens
  <2>4. DOMAIN lens(i) \subseteq Nat
    BY <2>2, <2>3
  <2>5. SentIn(t, i) = {Length(i, x, lens(i)[x], Side(pkts[i])) : x \in DOMAIN lens(i)}
    BY DEF SentIn, LengthsIn, Side
  <2> HIDE DEF lens
  <2>6. \A e \in SentIn(t, i) :
            e.frame = i /\ e.at \in Nat /\ e = Length(i, e.at, lens(i)[e.at], Side(pkts[i]))
    BY <2>4, <2>5 DEF Length
  <2> QED
    BY <2>1, <2>6 DEF Frames
<1> HIDE DEF lens
<1>2. \A e \in Sent(t, s) : \E i \in Eligible : e \in SentIn(t, i)
  BY DEF Sent
<1>3. Placed(Sent(t, s))
  BY <1>1, <1>2 DEF Placed
<1>4. InOrder(Sent(t, s))
  <2> SUFFICES ASSUME NEW d \in Sent(t, s), NEW e \in Sent(t, s), d # e
               PROVE  Precedes(d, e) \/ Precedes(e, d)
    BY DEF InOrder
  <2>1. PICK i \in Eligible : d \in SentIn(t, i)
    BY <1>2
  <2>2. PICK j \in Eligible : e \in SentIn(t, j)
    BY <1>2
  <2>3. d.frame = i /\ d.at \in Nat /\ d = Length(i, d.at, lens(i)[d.at], Side(pkts[i])) /\ i \in Nat
    BY <1>1, <2>1
  <2>4. e.frame = j /\ e.at \in Nat /\ e = Length(j, e.at, lens(j)[e.at], Side(pkts[j])) /\ j \in Nat
    BY <1>1, <2>2
  <2>5. i # j \/ d.at # e.at
    BY <2>3, <2>4
  <2> QED
    BY <2>3, <2>4, <2>5 DEF Precedes
<1>5. IsFiniteSet(Sent(t, s))
  <2>1. IsFiniteSet(own)
    BY FramesFinite, FS_Subset
  <2>2. \A T \in family : IsFiniteSet(T)
    BY SentInFinite
  <2>3. Sent(t, s) = UNION family
    BY DEF Sent
  <2>4. DOMAIN parts = own
    OBVIOUS
  <2> HIDE DEF parts, own
  <2>5. parts \in Surjection(own, family)
    <3>1. parts \in [own -> family]
      BY <2>4 DEF parts
    <3>2. \A e \in family : \E i \in own : parts[i] = e
      OBVIOUS
    <3> QED
      BY <3>1, <3>2 DEF Surjection
  <2>6. IsFiniteSet(family)
    BY <2>1, <2>5, FS_Surjection
  <2> HIDE DEF family
  <2> QED
    BY <2>2, <2>3, <2>6, FS_UNION
<1> QED
  BY <1>3, <1>4, <1>5

\* FlowTables: the lengths that the bidirectional table gives a connection, with
\* their signs, are those that its ends sent, each once and in the order of the
\* capture.
THEOREM SequencesInOrder ==
    FlowSpec => [](stage \in {"summarised", "verified"} /\ input.usableKey =>
        \A t \in Tables : t[1] = "decrypted" => \A i \in Listed :
            LET p == pkts[i]
                sent == Sent(t, p.stream)
                lens == sequences[t].bidirectional[<<ClientEnd(p), ServerEnd(p), p.stream>>].lens
            IN  sent # {} => \E order \in [DOMAIN lens -> sent] :
                    /\ \A e \in sent : \E n \in DOMAIN lens : order[n] = e
                    /\ \A m, n \in DOMAIN lens : m < n => Precedes(order[m], order[n])
                    /\ \A n \in DOMAIN lens :
                          lens[n] = <<Mark(order[n], "bidirectional"), order[n].len>>)
<1> DEFINE Ordered(lens, S) ==
               \E order \in [DOMAIN lens -> S] :
                   /\ \A e \in S : \E n \in DOMAIN lens : order[n] = e
                   /\ \A m, n \in DOMAIN lens : m < n => Precedes(order[m], order[n])
                   /\ \A n \in DOMAIN lens : lens[n] = <<Mark(order[n], "bidirectional"), order[n].len>>
           Lens(t, p) == sequences[t].bidirectional[<<ClientEnd(p), ServerEnd(p), p.stream>>].lens
           All == stage \in {"summarised", "verified"} /\ input.usableKey =>
                      \A t \in Tables : t[1] = "decrypted" => \A i \in Listed :
                          Sent(t, pkts[i].stream) # {} =>
                              Ordered(Lens(t, pkts[i]), Sent(t, pkts[i].stream))
<1>1. \A S : IsFiniteSet(S) /\ Placed(S) /\ InOrder(S) => Ordered(HeaderColumn(S, "bidirectional"), S)
  <2> SUFFICES ASSUME NEW S, IsFiniteSet(S), Placed(S), InOrder(S)
               PROVE  Ordered(HeaderColumn(S, "bidirectional"), S)
    OBVIOUS
  <2> DEFINE lens == HeaderColumn(S, "bidirectional")
             order == [n \in DOMAIN lens |-> Nth(S, n)]
  <2>1. DOMAIN lens = 1 .. Cardinality(S)
        /\ \A n \in DOMAIN lens : lens[n] = <<Mark(Nth(S, n), "bidirectional"), Nth(S, n).len>>
    BY DEF HeaderColumn
  <2> HIDE DEF lens
  <2>2. /\ \A n \in DOMAIN lens : Nth(S, n) \in S
        /\ \A m, n \in DOMAIN lens : m < n => Precedes(Nth(S, m), Nth(S, n))
        /\ \A e \in S : \E n \in DOMAIN lens : Nth(S, n) = e
    BY <2>1, ColumnInOrder
  <2>3. order \in [DOMAIN lens -> S]
    BY <2>2
  <2>4. \A n \in DOMAIN lens : order[n] = Nth(S, n)
    OBVIOUS
  <2> HIDE DEF order
  <2>5. \A e \in S : \E n \in DOMAIN lens : order[n] = e
    BY <2>2, <2>4
  <2>6. \A m, n \in DOMAIN lens : m < n => Precedes(order[m], order[n])
    BY <2>2, <2>4
  <2>7. \A n \in DOMAIN lens : lens[n] = <<Mark(order[n], "bidirectional"), order[n].len>>
    BY <2>1, <2>4
  <2> QED
    BY <2>3, <2>5, <2>6, <2>7 DEF lens
<1>2. FlowInv => All
  <2> SUFFICES ASSUME FlowInv, stage \in {"summarised", "verified"}, input.usableKey,
                      NEW t \in Tables, t[1] = "decrypted", NEW i \in Listed,
                      Sent(t, pkts[i].stream) # {}
               PROVE  Ordered(Lens(t, pkts[i]), Sent(t, pkts[i].stream))
    BY DEF All
  <2> HIDE DEF Ordered
  <2>1. FlowTypeOK /\ SequenceIsTruth
    BY SequencesTrue DEF FlowInv
  <2>2. Lens(t, pkts[i]) = HeaderColumn(Sent(t, pkts[i].stream), "bidirectional")
    BY <2>1 DEF SequenceIsTruth
  <2>3. pkts[i].stream \in Nat
    BY <2>1, ListedFacts, PacketFacts DEF PacketOK
  <2> HIDE DEF Lens
  <2>4. LET S == Sent(t, pkts[i].stream) IN IsFiniteSet(S) /\ Placed(S) /\ InOrder(S)
    BY <2>1, <2>3, SentPlaced
  <2> QED
    BY <1>1, <2>2, <2>4
<1>3. FlowSpec => []All
  <2> HIDE DEF All
  <2> QED
    BY <1>2, FlowInvariant, PTL
<1> QED
  BY <1>3

=============================================================================
