-------------------------- MODULE DurableEdit_proofs --------------------------
(***************************************************************************)
(* What holds of DurableEdit for any services, processes, identifiers and  *)
(* contents and any number of crashes, faults, outside writes and power    *)
(* losses.                                                                 *)
(*                                                                         *)
(* First the type, which says more than it seems to: the target never      *)
(* holds a write that did not finish.  The new content is linked from a    *)
(* temporary file, so the proof must know that the temporary file is       *)
(* complete by then (TempWritten), which holds because no two services     *)
(* ever write for one operation (OwnsOp), because each has made the        *)
(* operation's row itself and the row is still there (OwnsRow).  Then that,*)
(* without power losses, the services use the journal only as the store    *)
(* promises.                                                               *)
(*                                                                         *)
(* Then the file, what lies beside it, and the index.  What a row of the   *)
(* journal says is true of the files also between two calls, when nobody   *)
(* is at work: that is what a recovery starts from.  The invariants are in *)
(* layers, each of which needs those above it.                             *)
(*   ForeignInv   no request knows what an outside writer wrote            *)
(*   Leased       whoever is inside a request or a recovery has the lease  *)
(*   CopyInv      where a service is says where a copy of the file is      *)
(*   RowInv       where it is says which phase the row is in, what is      *)
(*                removed already, and that closed rows have no files      *)
(*   ContentInv   what the target, the backup, the temporary file and the  *)
(*                index hold, at each place and at each phase              *)
(*   DirInv       which places a service reaches without the directories   *)
(*   ReadyInv     that a service's calls find the files as they need them  *)
(* With RowInv and ContentInv the steps map to those of AtomicEdit.        *)
(*                                                                         *)
(* Each theorem states the least it needs.  TakeTurns: services of two     *)
(* processes are never inside at once, which the leases ensure only within *)
(* one process (OneProcess) and nothing ensures between two.  MaxPower = 0:*)
(* a power loss takes rows back.  MaxWrite = 0: an outside write removes a *)
(* content the service counts on.  Deletable = FALSE: deleting the project *)
(* takes rows and index away and leaves the files.                         *)
(***************************************************************************)
EXTENDS DurableEdit, TLAPS

JP == INSTANCE EditJournal_proofs WITH Path <- {Target}

-----------------------------------------------------------------------------
\* The inductive invariant.

\* The row is made; the temporary file is complete; the phase was read.
Begun == Requesting \ {"begin"}
Written == Begun \ {"mkdirs", "opentemp", "filltemp"}
PhaseRead == {"fwd_advance", "undo_rmtemp", "undo_linktemp", "undo_droptarget",
              "undo_linktarget", "undo_dropbackup", "undo_refresh",
              "undo_cleartemp", "undo_rmdirs", "undo_mark", "back_mark"}

IndexOK(i) == i \in Content \cup {Absent, NoProject}
RowsOK(rows) ==
    /\ rows \in [Op -> J!Row \cup {J!NoRow}]
    /\ \A o \in Op : rows[o] # J!NoRow =>
         J!HashesMatchKind(rows[o].kind, rows[o].old, rows[o].new)

FilesOK ==
    /\ dest \in Content \cup {Absent} /\ parent \in BOOLEAN
    /\ temp \in [Op -> FileState] /\ bak \in [Op -> Content \cup {Absent}]
DataOK == RowsOK(journal) /\ IndexOK(idx)
EnvOK ==
    /\ RowsOK(disk[1]) /\ IndexOK(disk[2])
    /\ crashes \in Nat /\ faults \in Nat /\ writes \in Nat /\ powers \in Nat
    /\ foreign \in Content \cup {Absent} /\ timely \in BOOLEAN

\* What a label says about the job of a worker that is there.
JobFits(label, j) ==
    /\ label \in Labels /\ j \in Job
    /\ label \in Requesting \cup Recovering => j.op \in Op
    /\ label = "begin" => j.kind \in J!Kind
    /\ label \in PhaseRead => j.phase \in J!Phase
    /\ label = "fwd_advance" => j.phase \in J!Active
ControlOK ==
    /\ lease \in [Host -> Worker \cup {NoWorker}]
    /\ DOMAIN pc = Worker /\ DOMAIN job = Worker
    /\ pc = [w \in Worker |-> pc[w]] /\ job = [w \in Worker |-> job[w]]
    /\ \A w \in Worker : JobFits(pc[w], job[w])

TempWritten == \A w \in Worker : pc[w] \in Written => temp[me(w)] # Torn
OwnsRow == \A w \in Worker : pc[w] \in Begun => J!Exists(me(w)) \/ idx = NoProject
OwnsOp ==
    \A v, w \in Worker :
       pc[v] \in Begun /\ pc[w] \in Begun /\ me(v) = me(w) => v = w

IInv ==
    /\ FilesOK /\ DataOK /\ EnvOK /\ ControlOK
    /\ TempWritten /\ OwnsRow /\ OwnsOp

USE ConstantsAssumption

-----------------------------------------------------------------------------
\* What every step of a service has in common, in three parts.

\* Control: only the worker itself moves, and to a place its job fits.
Control(w) ==
    /\ lease' \in [Host -> Worker \cup {NoWorker}]
    /\ pc' = [pc EXCEPT ![w] = pc'[w]] /\ job' = [job EXCEPT ![w] = job'[w]]
    /\ JobFits(pc'[w], job'[w])
    /\ pc'[w] \in Begun =>
         /\ job'[w].op = me(w)
         /\ \/ pc[w] \in Begun
            \/ ~J!Exists(me(w)) /\ idx # NoProject /\ J!Exists(me(w))'
    /\ pc'[w] \in Written => pc[w] \in Written \cup {"filltemp"}

\* Files: they stay well typed, and only OpenTemp leaves a write unfinished.
Files(w) ==
    /\ FilesOK'
    /\ \A o \in Op :
         temp'[o] = Torn => temp[o] = Torn \/ (o = me(w) /\ pc[w] = "opentemp")
    /\ pc[w] = "filltemp" /\ pc'[w] \in Written => temp'[me(w)] # Torn

\* Data: the journal is used as the store promises, the index stays well typed.
Data ==
    /\ [J!Next]_journal
    /\ \A o \in Op : J!Exists(o) => J!Exists(o)'
    /\ IndexOK(idx') /\ (idx = NoProject => idx' = NoProject)

\* Moves that keep the job: the label may demand no more of it than before.
Edge(from, to) ==
    /\ to \in Labels \ {"begin"}
    /\ to \in Requesting \cup Recovering => from \in Requesting \cup Recovering
    /\ to \in PhaseRead => from \in PhaseRead
    /\ to # "fwd_advance"
    /\ to \in Begun => from \in Begun
    /\ to \in Written => from \in Written \cup {"filltemp"}

LEMMA NoJobFits ==
    ASSUME NEW label \in {"start", "idle", "refused"}
    PROVE  JobFits(label, NoJob)
BY DEF JobFits, NoJob, Job, Labels, Requesting, Recovering, PhaseRead

LEMMA GotoControl ==
    ASSUME ControlOK, NEW w \in Worker, NEW to, Edge(pc[w], to),
           Goto(w, to), UNCHANGED <<lease, job>>
    PROVE  Control(w)
<1>1. pc'[w] = to /\ pc' = [pc EXCEPT ![w] = pc'[w]]
  BY DEF Goto, ControlOK
<1>2. job' = [job EXCEPT ![w] = job'[w]] /\ job'[w] = job[w]
  BY DEF ControlOK
<1>3. JobFits(pc[w], job[w])
  BY DEF ControlOK
<1>4. JobFits(to, job[w])
  BY <1>3 DEF JobFits, Edge
<1>5. lease' \in [Host -> Worker \cup {NoWorker}]
  BY DEF ControlOK
<1> QED
  BY <1>1, <1>2, <1>4, <1>5 DEF Control, Edge, me

LEMMA EndControl ==
    ASSUME ControlOK, NEW w \in Worker, NEW to \in {"start", "idle", "refused"},
           EndAt(w, to)
    PROVE  Control(w)
<1>1. pc'[w] = to /\ pc' = [pc EXCEPT ![w] = pc'[w]]
  BY DEF EndAt, Goto, ControlOK
<1>2. job'[w] = NoJob /\ job' = [job EXCEPT ![w] = job'[w]]
  BY DEF EndAt, ControlOK
<1>3. lease' \in [Host -> Worker \cup {NoWorker}]
  BY DEF EndAt, ControlOK
<1>4. to \notin Begun /\ to \notin Written
  BY DEF Begun, Written, Requesting
<1> QED
  BY <1>1, <1>2, <1>3, <1>4, NoJobFits DEF Control

LEMMA FailControl ==
    ASSUME ControlOK, NEW w \in Worker, Fail(w)
    PROVE  Control(w)
BY EndControl DEF Fail

LEMMA TryControl ==
    ASSUME ControlOK, NEW w \in Worker, NEW granted, NEW to, Edge(pc[w], to),
           Try(w, granted, to)
    PROVE  Control(w)
BY GotoControl, FailControl DEF Try

LEMMA MarkControl ==
    ASSUME ControlOK, NEW w \in Worker, NEW expected, NEW phase, NEW to,
           Edge(pc[w], to), Mark(w, expected, phase, to)
    PROVE  Control(w)
BY GotoControl, EndControl, FailControl DEF Mark

\* A step that keeps its operation and notes something else in its job.
LEMMA JobControl ==
    ASSUME ControlOK, NEW w \in Worker, NEW to, NEW j,
           Goto(w, to), job' = [job EXCEPT ![w] = j], UNCHANGED lease,
           JobFits(to, j), j.op = me(w),
           to \in Begun => pc[w] \in Begun,
           to \in Written => pc[w] \in Written
    PROVE  Control(w)
<1>1. pc'[w] = to /\ pc' = [pc EXCEPT ![w] = pc'[w]]
  BY DEF Goto, ControlOK
<1>2. job'[w] = j /\ job' = [job EXCEPT ![w] = job'[w]]
  BY DEF ControlOK
<1>3. lease' \in [Host -> Worker \cup {NoWorker}]
  BY DEF ControlOK
<1> QED
  BY <1>1, <1>2, <1>3 DEF Control

\* Noting a phase, or what was made of the directories, keeps a job a job.
LEMMA NotePhase ==
    ASSUME NEW j \in Job, NEW p \in J!Phase
    PROVE  /\ [j EXCEPT !.phase = p] \in Job
           /\ [j EXCEPT !.phase = p].op = j.op
           /\ [j EXCEPT !.phase = p].phase = p
BY DEF Job

LEMMA NoteParents ==
    ASSUME NEW j \in Job, NEW b \in BOOLEAN
    PROVE  /\ [j EXCEPT !.mkdirs = FALSE, !.parents = b] \in Job
           /\ [j EXCEPT !.mkdirs = FALSE, !.parents = b].op = j.op
BY DEF Job

\* The row that Begin makes.
NewRow(w) ==
    [phase |-> "prepared", path |-> Target, kind |-> job[w].kind,
     old |-> job[w].old, new |-> job[w].new, parents |-> job[w].parents]

LEMMA NewRowFacts ==
    ASSUME ControlOK, NEW w \in Worker, pc[w] = "begin"
    PROVE  NewRow(w) \in J!Row /\ NewRow(w) # J!NoRow
BY DEF ControlOK, JobFits, NewRow, Job, J!Row, J!NoRow, J!Phase, J!Active

LEMMA CommitControl ==
    ASSUME IInv, NEW w \in Worker, CommitStep(w)
    PROVE  Control(w)
<1> USE DEF Edge, Labels, Requesting, Recovering, PhaseRead, Begun, Written
<1>0. ControlOK /\ JobFits(pc[w], job[w])
  BY DEF IInv, ControlOK
<1>1. CASE Begin(w)
  <2>1. CASE EndAt(w, "idle")
    BY <1>0, <2>1, EndControl
  <2>2. CASE /\ idx # NoProject /\ J!CreateEditOperation(me(w), NewRow(w))
             /\ Goto(w, IF job[w].mkdirs THEN "mkdirs" ELSE "opentemp")
             /\ UNCHANGED <<lease, job>>
    <3>1. PICK to \in {"mkdirs", "opentemp"} : Goto(w, to)
      BY <2>2
    <3>2. pc[w] = "begin" /\ me(w) \in Op
      BY <1>0, <1>1 DEF Begin, JobFits, me
    <3>3. ~J!Exists(me(w)) /\ J!Exists(me(w))'
      <4>1. ~J!Exists(me(w)) /\ journal' = [journal EXCEPT ![me(w)] = NewRow(w)]
        BY <2>2 DEF J!CreateEditOperation, J!CanCreate
      <4>2. me(w)' = me(w) /\ journal'[me(w)] = NewRow(w)
        BY <2>2, <4>1, <3>2 DEF me, IInv, DataOK, RowsOK
      <4> QED BY <4>1, <4>2, <3>2, <1>0, NewRowFacts DEF J!Exists
    <3>4. pc'[w] = to /\ pc' = [pc EXCEPT ![w] = pc'[w]]
      BY <1>0, <3>1 DEF Goto, ControlOK
    <3>5. job' = [job EXCEPT ![w] = job'[w]] /\ job'[w] = job[w] /\ lease' = lease
      BY <1>0, <2>2 DEF ControlOK
    <3>6. JobFits(to, job[w])
      BY <1>0, <3>2 DEF JobFits
    <3> QED
      BY <1>0, <2>2, <3>3, <3>4, <3>5, <3>6 DEF Control, ControlOK, me
  <2> QED
    BY <1>1, <2>1, <2>2 DEF Begin, NewRow
<1>2. CASE MakeParents(w)
  <2>1. CASE Fail(w)
    BY <1>0, <2>1, FailControl
  <2>2. CASE ~Fail(w)
    <3> DEFINE j == [job[w] EXCEPT !.mkdirs = FALSE, !.parents = ~parent]
    <3>1. job' = [job EXCEPT ![w] = j] /\ Goto(w, "opentemp") /\ UNCHANGED lease
      BY <1>0, <1>2, <2>2 DEF MakeParents, ControlOK
    <3>2. pc[w] = "mkdirs" /\ job[w] \in Job /\ (~parent) \in BOOLEAN
      BY <1>0, <1>2 DEF MakeParents, JobFits
    <3>3. JobFits("opentemp", j) /\ j.op = me(w)
      BY <1>0, <3>2, NoteParents DEF JobFits, me
    <3> HIDE DEF j
    <3> QED BY <1>0, <3>1, <3>2, <3>3, JobControl
  <2> QED BY <2>1, <2>2
<1>3. CASE OpenTemp(w)
  BY <1>0, <1>3, TryControl DEF OpenTemp
<1>4. CASE FillTemp(w)
  BY <1>0, <1>4, GotoControl DEF FillTemp
<1>5. CASE Verify(w)
  BY <1>0, <1>5, TryControl DEF Verify
<1>6. CASE LinkBackup(w)
  BY <1>0, <1>6, TryControl DEF LinkBackup
<1>7. CASE DropTarget(w)
  BY <1>0, <1>7, TryControl DEF DropTarget
<1>8. CASE MarkBackupReady(w)
  BY <1>0, <1>8, MarkControl DEF MarkBackupReady
<1>9. CASE LinkTarget(w)
  BY <1>0, <1>9, TryControl DEF LinkTarget
<1>10. CASE DropTemp(w)
  BY <1>0, <1>10, TryControl DEF DropTemp
<1>11. CASE MarkReplaced(w)
  BY <1>0, <1>11, MarkControl DEF MarkReplaced
<1>12. CASE Refresh(w)
  BY <1>0, <1>12, GotoControl DEF Refresh
<1>13. CASE MarkIndexed(w)
  BY <1>0, <1>13, MarkControl DEF MarkIndexed
<1>14. CASE RemoveBackup(w)
  BY <1>0, <1>14, GotoControl DEF RemoveBackup
<1>15. CASE RemoveTemp(w)
  BY <1>0, <1>15, TryControl DEF RemoveTemp
<1>16. CASE MarkCommitted(w)
  BY <1>0, <1>16, EndControl, FailControl DEF MarkCommitted, Mark, J!Terminal
<1> QED
  BY <1>1, <1>2, <1>3, <1>4, <1>5, <1>6, <1>7, <1>8, <1>9, <1>10, <1>11, <1>12, <1>13, <1>14, <1>15, <1>16 DEF CommitStep

LEMMA UndoControl ==
    ASSUME IInv, NEW w \in Worker, UndoStep(w)
    PROVE  Control(w)
<1> USE DEF Edge, Labels, Requesting, Recovering, PhaseRead, Begun, Written
<1>0. ControlOK /\ JobFits(pc[w], job[w])
  BY DEF IInv, ControlOK
<1>1. CASE UndoVerify(w)
  <2>1. CASE Fail(w)
    BY <1>0, <2>1, FailControl
  <2>3. CASE J!Exists(me(w)) /\ UNCHANGED lease /\ Goto(w, "undo_rmtemp")
             /\ job' = [job EXCEPT ![w].phase = Row(w).phase]
    <3> DEFINE j == [job[w] EXCEPT !.phase = Row(w).phase]
    <3>1. job[w] \in Job /\ me(w) \in Op
      BY <1>0, <1>1 DEF UndoVerify, JobFits, me
    <3>2. Row(w).phase \in J!Phase
      BY <2>3, <3>1 DEF IInv, DataOK, RowsOK, Row, J!Row, J!Exists
    <3>3. job' = [job EXCEPT ![w] = j] /\ Goto(w, "undo_rmtemp") /\ UNCHANGED lease
      BY <1>0, <2>3 DEF ControlOK
    <3>4. JobFits("undo_rmtemp", j) /\ j.op = me(w)
      BY <3>1, <3>2, NotePhase DEF JobFits, me, J!Phase
    <3>5. pc[w] = "undo_verify"
      BY <1>1 DEF UndoVerify
    <3> HIDE DEF j
    <3> QED BY <1>0, <3>3, <3>4, <3>5, JobControl
  <2> QED BY <1>1, <2>1, <2>3 DEF UndoVerify
<1>2. CASE UndoRemoveTemp(w)
  BY <1>0, <1>2, GotoControl DEF UndoRemoveTemp
<1>3. CASE UndoLinkTemp(w)
  BY <1>0, <1>3, TryControl DEF UndoLinkTemp
<1>4. CASE UndoDropTarget(w)
  BY <1>0, <1>4, TryControl DEF UndoDropTarget
<1>5. CASE UndoLinkTarget(w)
  BY <1>0, <1>5, TryControl DEF UndoLinkTarget
<1>6. CASE UndoDropBackup(w)
  BY <1>0, <1>6, TryControl DEF UndoDropBackup
<1>7. CASE UndoRefresh(w)
  BY <1>0, <1>7, TryControl DEF UndoRefresh
<1>8. CASE UndoClearTemp(w)
  BY <1>0, <1>8, GotoControl DEF UndoClearTemp
<1>9. CASE UndoRemoveDirectories(w)
  BY <1>0, <1>9, GotoControl DEF UndoRemoveDirectories
<1>10. CASE UndoMark(w)
  BY <1>0, <1>10, EndControl, FailControl DEF UndoMark, Mark, J!Terminal
<1> QED
  BY <1>1, <1>2, <1>3, <1>4, <1>5, <1>6, <1>7, <1>8, <1>9, <1>10 DEF
     UndoStep

\* What recovery notes of a row that it lists.
Listed(o) == [NoJob EXCEPT !.op = o, !.kind = journal[o].kind,
                           !.old = journal[o].old, !.new = journal[o].new,
                           !.parents = journal[o].parents]

LEMMA RecoveryControl ==
    ASSUME IInv, NEW w \in Worker, RecoveryStep(w)
    PROVE  Control(w)
<1> USE DEF Edge, Labels, Requesting, Recovering, PhaseRead, Begun, Written
<1>0. ControlOK /\ JobFits(pc[w], job[w])
  BY DEF IInv, ControlOK
<1>1. CASE ListIncomplete(w)
  <2>1. CASE Goto(w, "idle") /\ UNCHANGED <<lease, job>>
    BY <1>0, <1>1, <2>1, GotoControl DEF ListIncomplete
  <2>2. CASE UNCHANGED lease /\ Goto(w, "rec_inspect") /\ \E o \in Op :
               /\ J!IsActive(o)
               /\ job' = [job EXCEPT ![w] = Listed(o)]
    <3>1. PICK o \in Op :
               /\ J!IsActive(o)
               /\ job' = [job EXCEPT ![w] = Listed(o)]
      BY <2>2
    <3>2. journal[o] \in J!Row
      BY <3>1 DEF IInv, DataOK, RowsOK, J!IsActive, J!NoRow, J!Active
    <3>3. JobFits("rec_inspect", Listed(o))
      BY <3>2 DEF Listed, JobFits, NoJob, Job, J!Row
    <3>4. pc'[w] = "rec_inspect" /\ pc' = [pc EXCEPT ![w] = pc'[w]]
      BY <1>0, <2>2 DEF Goto, ControlOK
    <3>5. job'[w] = Listed(o) /\ job' = [job EXCEPT ![w] = job'[w]]
      BY <1>0, <3>1 DEF ControlOK
    <3> QED BY <1>0, <2>2, <3>3, <3>4, <3>5 DEF Control, ControlOK
  <2> QED BY <1>1, <2>1, <2>2 DEF ListIncomplete, Listed
<1>2. CASE Inspect(w)
  <2>1. CASE Fail(w)
    BY <1>0, <2>1, FailControl
  <2>2. CASE ~Fail(w)
    <3>1. PICK to \in {"fwd_refresh", "back_refresh", "absent_refresh",
                       "rst_check", "ext_refresh"} : Goto(w, to)
      BY <1>2, <2>2 DEF Inspect
    <3>2. lease' = [lease EXCEPT ![HostOf[w]] = w] /\ UNCHANGED job
      BY <1>2, <2>2 DEF Inspect
    <3>3. pc'[w] = to /\ pc' = [pc EXCEPT ![w] = pc'[w]]
      BY <1>0, <3>1 DEF Goto, ControlOK
    <3>4. JobFits(to, job[w])
      BY <1>0, <1>2 DEF Inspect, JobFits
    <3>5. job' = [job EXCEPT ![w] = job'[w]] /\ job'[w] = job[w]
      BY <1>0, <3>2 DEF ControlOK
    <3>6. lease' \in [Host -> Worker \cup {NoWorker}]
      BY <1>0, <3>2 DEF ControlOK
    <3> QED BY <1>0, <3>3, <3>4, <3>5, <3>6 DEF Control
  <2> QED BY <2>1, <2>2
<1>3. CASE FwdRefresh(w)
  BY <1>0, <1>3, TryControl DEF FwdRefresh
<1>4. CASE FwdRead(w)
  <2>1. CASE Fail(w)
    BY <1>0, <2>1, FailControl
  <2>3. CASE J!IsActive(me(w)) /\ UNCHANGED lease /\ Goto(w, "fwd_advance")
             /\ job' = [job EXCEPT ![w].phase = Row(w).phase]
    <3> DEFINE j == [job[w] EXCEPT !.phase = Row(w).phase]
    <3>1. job[w] \in Job /\ me(w) \in Op
      BY <1>0, <1>4 DEF FwdRead, JobFits, me
    <3>2. Row(w).phase \in J!Active
      BY <2>3, <3>1 DEF IInv, DataOK, RowsOK, Row, J!Row, J!IsActive, J!NoRow, J!Active
    <3>3. job' = [job EXCEPT ![w] = j] /\ Goto(w, "fwd_advance") /\ UNCHANGED lease
      BY <1>0, <2>3 DEF ControlOK
    <3>4. JobFits("fwd_advance", j) /\ j.op = me(w)
      BY <3>1, <3>2, NotePhase DEF JobFits, me, J!Phase
    <3>5. pc[w] = "fwd_read"
      BY <1>4 DEF FwdRead
    <3> HIDE DEF j
    <3> QED BY <1>0, <3>3, <3>4, <3>5, JobControl
  <2> QED BY <1>4, <2>1, <2>3 DEF FwdRead
<1>5. CASE FwdAdvance(w)
  <2> DEFINE next == NextPhase[job[w].phase]
             j == [job[w] EXCEPT !.phase = next]
  <2>0. pc[w] = "fwd_advance" /\ job[w] \in Job /\ job[w].phase \in J!Active
    BY <1>0, <1>5 DEF FwdAdvance, JobFits
  <2>1. CASE Fail(w)
    BY <1>0, <2>1, FailControl
  <2>2. CASE Goto(w, "fwd_rmtemp") /\ UNCHANGED <<lease, job>>
    BY <1>0, <2>0, <2>2, GotoControl
  <2>3. CASE /\ job[w].phase # "indexed" /\ UNCHANGED <<pc, lease>>
             /\ job' = [job EXCEPT ![w].phase = next]
    <3>1. next \in J!Active
      BY <2>0, <2>3 DEF NextPhase, J!Active
    <3>2. job' = [job EXCEPT ![w] = j] /\ Goto(w, "fwd_advance") /\ UNCHANGED lease
      BY <1>0, <2>0, <2>3 DEF ControlOK, Goto
    <3>3. JobFits("fwd_advance", j) /\ j.op = me(w)
      BY <1>0, <2>0, <3>1, NotePhase DEF JobFits, me, J!Phase
    <3> HIDE DEF j, next
    <3> QED BY <1>0, <2>0, <3>2, <3>3, JobControl
  <2> QED BY <1>5, <2>1, <2>2, <2>3 DEF FwdAdvance
<1>6. CASE FwdRemoveTemp(w)
  BY <1>0, <1>6, GotoControl DEF FwdRemoveTemp
<1>7. CASE FwdRemoveBackup(w)
  BY <1>0, <1>7, TryControl DEF FwdRemoveBackup
<1>8. CASE FwdCommit(w)
  BY <1>0, <1>8, EndControl, FailControl DEF FwdCommit, Mark, J!Terminal
<1>9. CASE BackRefresh(w)
  BY <1>0, <1>9, TryControl DEF BackRefresh
<1>10. CASE BackRemoveTemp(w)
  BY <1>0, <1>10, GotoControl DEF BackRemoveTemp
<1>11. CASE BackRemoveBackup(w)
  BY <1>0, <1>11, GotoControl DEF BackRemoveBackup
<1>12. CASE BackRemoveDirectories(w)
  BY <1>0, <1>12, GotoControl DEF BackRemoveDirectories
<1>13. CASE BackRead(w)
  <2>1. CASE Fail(w)
    BY <1>0, <2>1, FailControl
  <2>2. CASE EndAt(w, "idle")
    BY <1>0, <2>2, EndControl
  <2>3. CASE J!Exists(me(w)) /\ UNCHANGED lease /\ Goto(w, "back_mark")
             /\ job' = [job EXCEPT ![w].phase = Row(w).phase]
    <3> DEFINE j == [job[w] EXCEPT !.phase = Row(w).phase]
    <3>1. job[w] \in Job /\ me(w) \in Op
      BY <1>0, <1>13 DEF BackRead, JobFits, me
    <3>2. Row(w).phase \in J!Phase
      BY <2>3, <3>1 DEF IInv, DataOK, RowsOK, Row, J!Row, J!Exists
    <3>3. job' = [job EXCEPT ![w] = j] /\ Goto(w, "back_mark") /\ UNCHANGED lease
      BY <1>0, <2>3 DEF ControlOK
    <3>4. JobFits("back_mark", j) /\ j.op = me(w)
      BY <3>1, <3>2, NotePhase DEF JobFits, me, J!Phase
    <3>5. pc[w] = "back_read"
      BY <1>13 DEF BackRead
    <3> HIDE DEF j
    <3> QED BY <1>0, <3>3, <3>4, <3>5, JobControl
  <2> QED BY <1>13, <2>1, <2>2, <2>3 DEF BackRead
<1>14. CASE BackMark(w)
  BY <1>0, <1>14, EndControl, FailControl DEF BackMark, Mark, J!Terminal
<1>15. CASE RestoreCheck(w)
  BY <1>0, <1>15, TryControl DEF RestoreCheck
<1>16. CASE RestoreLinkTarget(w)
  BY <1>0, <1>16, TryControl DEF RestoreLinkTarget
<1>17. CASE RestoreDropBackup(w)
  BY <1>0, <1>17, TryControl DEF RestoreDropBackup
<1>18. CASE RestoreRefresh(w)
  BY <1>0, <1>18, TryControl DEF RestoreRefresh
<1>19. CASE RestoreRemoveTemp(w)
  BY <1>0, <1>19, GotoControl DEF RestoreRemoveTemp
<1>20. CASE KeepConflict(w)
  BY <1>0, <1>20, FailControl DEF KeepConflict
<1> QED
  BY <1>1, <1>2, <1>3, <1>4, <1>5, <1>6, <1>7, <1>8, <1>9, <1>10, <1>11,
     <1>12, <1>13, <1>14, <1>15, <1>16, <1>17, <1>18, <1>19, <1>20 DEF
     RecoveryStep

-----------------------------------------------------------------------------
\* Files.

LEMMA SameFiles ==
    ASSUME IInv, NEW w \in Worker, UNCHANGED fs, pc[w] # "filltemp"
    PROVE  Files(w)
BY DEF IInv, FilesOK, Files, fs

LEMMA CommitFiles ==
    ASSUME IInv, NEW w \in Worker, CommitStep(w)
    PROVE  Files(w)
<1> USE DEF IInv, FilesOK, FileState, Files, Requesting, Recovering
<1>0. pc[w] \in Requesting \cup Recovering => me(w) \in Op /\ job[w] \in Job
  BY DEF ControlOK, JobFits, me
<1>1. CASE Begin(w) \/ Verify(w) \/ MarkBackupReady(w) \/
            MarkReplaced(w) \/ Refresh(w) \/ MarkIndexed(w) \/
            MarkCommitted(w)
  BY <1>1, SameFiles DEF Begin, Verify, MarkBackupReady, MarkReplaced,
     Refresh, MarkIndexed, MarkCommitted
<1>2. CASE MakeParents(w)
  BY <1>0, <1>2 DEF MakeParents
<1>3. CASE OpenTemp(w)
  BY <1>0, <1>3 DEF OpenTemp
<1>4. CASE FillTemp(w)
  BY <1>0, <1>4 DEF FillTemp, Job
<1>5. CASE LinkBackup(w)
  BY <1>0, <1>5 DEF LinkBackup
<1>6. CASE DropTarget(w)
  BY <1>0, <1>6 DEF DropTarget
<1>7. CASE LinkTarget(w)
  BY <1>0, <1>7 DEF LinkTarget, TempWritten, Written, Begun
<1>8. CASE DropTemp(w)
  BY <1>0, <1>8 DEF DropTemp
<1>9. CASE RemoveBackup(w)
  BY <1>0, <1>9 DEF RemoveBackup
<1>10. CASE RemoveTemp(w)
  BY <1>0, <1>10 DEF RemoveTemp
<1> QED
  BY <1>1, <1>2, <1>3, <1>4, <1>5, <1>6, <1>7, <1>8, <1>9, <1>10 DEF
     CommitStep

LEMMA UndoFiles ==
    ASSUME IInv, NEW w \in Worker, UndoStep(w)
    PROVE  Files(w)
<1> USE DEF IInv, FilesOK, FileState, Files, Requesting, Recovering
<1>0. pc[w] \in Requesting \cup Recovering => me(w) \in Op /\ job[w] \in Job
  BY DEF ControlOK, JobFits, me
<1>1. CASE UndoVerify(w) \/ UndoRefresh(w) \/ UndoMark(w)
  BY <1>1, SameFiles DEF UndoVerify, UndoRefresh, UndoMark
<1>2. CASE UndoRemoveTemp(w)
  BY <1>0, <1>2 DEF UndoRemoveTemp
<1>3. CASE UndoLinkTemp(w)
  BY <1>0, <1>3 DEF UndoLinkTemp
<1>4. CASE UndoDropTarget(w)
  BY <1>0, <1>4 DEF UndoDropTarget
<1>5. CASE UndoLinkTarget(w)
  BY <1>0, <1>5 DEF UndoLinkTarget
<1>6. CASE UndoDropBackup(w)
  BY <1>0, <1>6 DEF UndoDropBackup
<1>7. CASE UndoClearTemp(w)
  BY <1>0, <1>7 DEF UndoClearTemp
<1>8. CASE UndoRemoveDirectories(w)
  BY <1>0, <1>8 DEF UndoRemoveDirectories
<1> QED
  BY <1>1, <1>2, <1>3, <1>4, <1>5, <1>6, <1>7, <1>8 DEF UndoStep

LEMMA RecoveryFiles ==
    ASSUME IInv, NEW w \in Worker, RecoveryStep(w)
    PROVE  Files(w)
<1> USE DEF IInv, FilesOK, FileState, Files, Requesting, Recovering
<1>0. pc[w] \in Requesting \cup Recovering => me(w) \in Op /\ job[w] \in Job
  BY DEF ControlOK, JobFits, me
<1>1. CASE ListIncomplete(w) \/ Inspect(w) \/ FwdRefresh(w) \/
            FwdRead(w) \/ FwdAdvance(w) \/ FwdCommit(w) \/
            BackRefresh(w) \/ BackRead(w) \/ BackMark(w) \/
            RestoreCheck(w) \/ RestoreRefresh(w) \/ KeepConflict(w)
  BY <1>1, SameFiles DEF ListIncomplete, Inspect, FwdRefresh, FwdRead,
     FwdAdvance, FwdCommit, BackRefresh, BackRead, BackMark, RestoreCheck,
     RestoreRefresh, KeepConflict
<1>2. CASE FwdRemoveTemp(w)
  BY <1>0, <1>2 DEF FwdRemoveTemp
<1>3. CASE FwdRemoveBackup(w)
  BY <1>0, <1>3 DEF FwdRemoveBackup
<1>4. CASE BackRemoveTemp(w)
  BY <1>0, <1>4 DEF BackRemoveTemp
<1>5. CASE BackRemoveBackup(w)
  BY <1>0, <1>5 DEF BackRemoveBackup
<1>6. CASE BackRemoveDirectories(w)
  BY <1>0, <1>6 DEF BackRemoveDirectories
<1>7. CASE RestoreLinkTarget(w)
  BY <1>0, <1>7 DEF RestoreLinkTarget
<1>8. CASE RestoreDropBackup(w)
  BY <1>0, <1>8 DEF RestoreDropBackup
<1>9. CASE RestoreRemoveTemp(w)
  BY <1>0, <1>9 DEF RestoreRemoveTemp
<1> QED
  BY <1>1, <1>2, <1>3, <1>4, <1>5, <1>6, <1>7, <1>8, <1>9 DEF RecoveryStep

-----------------------------------------------------------------------------
\* Data.

\* A transition moves one row that exists, and leaves it a row.
LEMMA MarkData ==
    ASSUME IInv, NEW w \in Worker, me(w) \in Op, UNCHANGED idx,
           NEW expected \in J!Phase, NEW phase \in J!Phase, NEW to,
           Mark(w, expected, phase, to)
    PROVE  Data
<1>1. CASE UNCHANGED journal
  BY <1>1 DEF Data, IInv, DataOK, J!Exists
<1>2. CASE J!TransitionEditOperation(me(w), expected, phase)
  <2>1. journal[me(w)] \in J!Row
    BY <1>2 DEF J!TransitionEditOperation, J!TransitionAccepted, J!Exists,
                IInv, DataOK, RowsOK
  <2>2. [journal[me(w)] EXCEPT !.phase = phase] # J!NoRow
    BY <2>1 DEF J!Row, J!NoRow, J!Phase, J!Active, J!Terminal
  <2>3. journal' = [journal EXCEPT ![me(w)] = [journal[me(w)] EXCEPT !.phase = phase]]
    BY <1>2 DEF J!TransitionEditOperation
  <2>4. J!Next
    BY <1>2 DEF J!Next
  <2> QED
    BY <2>2, <2>3, <2>4 DEF Data, J!Exists, IInv, DataOK, RowsOK
<1> QED
  BY <1>1, <1>2 DEF Mark

LEMMA RefreshData ==
    ASSUME IInv, UNCHANGED journal, idx' \in {idx, Refreshed}
    PROVE  Data
BY DEF Data, IInv, DataOK, FilesOK, IndexOK, Refreshed, J!Exists

LEMMA BeginData ==
    ASSUME IInv, NEW w \in Worker, Begin(w)
    PROVE  Data
<1>1. CASE UNCHANGED journal
  BY <1>1 DEF Begin, Data, IInv, DataOK, J!Exists
<1>2. CASE J!CreateEditOperation(me(w), NewRow(w))
  <2>1. pc[w] = "begin" /\ me(w) \in Op
    BY DEF Begin, IInv, ControlOK, JobFits, me, Requesting
  <2>2. NewRow(w) \in J!Row /\ NewRow(w) # J!NoRow
    BY <2>1, NewRowFacts DEF IInv
  <2>3. J!Next
    BY <1>2, <2>1, <2>2 DEF J!Next
  <2>4. journal' = [journal EXCEPT ![me(w)] = NewRow(w)] /\ UNCHANGED idx
    BY <1>2 DEF J!CreateEditOperation, Begin
  <2> QED
    BY <2>1, <2>2, <2>3, <2>4 DEF Data, IInv, DataOK, RowsOK, J!Exists
<1> QED
  BY <1>1, <1>2 DEF Begin, NewRow

LEMMA CommitData ==
    ASSUME IInv, NEW w \in Worker, CommitStep(w)
    PROVE  Data
<1>0. pc[w] \in Requesting \cup Recovering => JobFits(pc[w], job[w]) /\ me(w) \in Op
  BY DEF IInv, ControlOK, JobFits, me
<1>1. CASE MakeParents(w) \/ OpenTemp(w) \/ FillTemp(w) \/ Verify(w) \/
            LinkBackup(w) \/ DropTarget(w) \/ LinkTarget(w) \/
            DropTemp(w) \/ Refresh(w) \/ RemoveBackup(w) \/
            RemoveTemp(w)
  BY <1>1, RefreshData DEF MakeParents, OpenTemp, FillTemp, Verify,
     LinkBackup, DropTarget, LinkTarget, DropTemp, Refresh, RemoveBackup,
     RemoveTemp, db
<1>2. CASE MarkBackupReady(w)
  BY <1>0, <1>2, MarkData DEF MarkBackupReady, J!Phase, J!Active, J!Terminal,
     Requesting, Recovering, JobFits, PhaseRead
<1>3. CASE MarkReplaced(w)
  BY <1>0, <1>3, MarkData DEF MarkReplaced, J!Phase, J!Active, J!Terminal,
     Requesting, Recovering, JobFits, PhaseRead
<1>4. CASE MarkIndexed(w)
  BY <1>0, <1>4, MarkData DEF MarkIndexed, J!Phase, J!Active, J!Terminal,
     Requesting, Recovering, JobFits, PhaseRead
<1>5. CASE MarkCommitted(w)
  BY <1>0, <1>5, MarkData DEF MarkCommitted, J!Phase, J!Active, J!Terminal,
     Requesting, Recovering, JobFits, PhaseRead
<1>6. CASE Begin(w)
  BY <1>6, BeginData
<1> QED
  BY <1>1, <1>2, <1>3, <1>4, <1>5, <1>6 DEF CommitStep

LEMMA UndoData ==
    ASSUME IInv, NEW w \in Worker, UndoStep(w)
    PROVE  Data
<1>0. pc[w] \in Requesting \cup Recovering => JobFits(pc[w], job[w]) /\ me(w) \in Op
  BY DEF IInv, ControlOK, JobFits, me
<1>1. CASE UndoVerify(w) \/ UndoRemoveTemp(w) \/ UndoLinkTemp(w) \/
            UndoDropTarget(w) \/ UndoLinkTarget(w) \/ UndoDropBackup(w)
            \/ UndoRefresh(w) \/ UndoClearTemp(w) \/
            UndoRemoveDirectories(w)
  BY <1>1, RefreshData DEF UndoVerify, UndoRemoveTemp, UndoLinkTemp,
     UndoDropTarget, UndoLinkTarget, UndoDropBackup, UndoRefresh,
     UndoClearTemp, UndoRemoveDirectories, db
<1>2. CASE UndoMark(w)
  BY <1>0, <1>2, MarkData DEF UndoMark, J!Phase, J!Active, J!Terminal,
     Requesting, Recovering, JobFits, PhaseRead
<1> QED
  BY <1>1, <1>2 DEF UndoStep

LEMMA RecoveryData ==
    ASSUME IInv, NEW w \in Worker, RecoveryStep(w)
    PROVE  Data
<1>0. pc[w] \in Requesting \cup Recovering => JobFits(pc[w], job[w]) /\ me(w) \in Op
  BY DEF IInv, ControlOK, JobFits, me
<1>1. CASE ListIncomplete(w) \/ Inspect(w) \/ FwdRefresh(w) \/
            FwdRead(w) \/ FwdRemoveTemp(w) \/ FwdRemoveBackup(w) \/
            BackRefresh(w) \/ BackRemoveTemp(w) \/ BackRemoveBackup(w)
            \/ BackRemoveDirectories(w) \/ BackRead(w) \/
            RestoreCheck(w) \/ RestoreLinkTarget(w) \/
            RestoreDropBackup(w) \/ RestoreRefresh(w) \/
            RestoreRemoveTemp(w) \/ KeepConflict(w)
  BY <1>1, RefreshData DEF ListIncomplete, Inspect, FwdRefresh, FwdRead,
     FwdRemoveTemp, FwdRemoveBackup, BackRefresh, BackRemoveTemp,
     BackRemoveBackup, BackRemoveDirectories, BackRead, RestoreCheck,
     RestoreLinkTarget, RestoreDropBackup, RestoreRefresh,
     RestoreRemoveTemp, KeepConflict, db
<1>2. CASE FwdCommit(w)
  BY <1>0, <1>2, MarkData DEF FwdCommit, J!Phase, J!Active, J!Terminal,
     Requesting, Recovering, JobFits, PhaseRead
<1>3. CASE BackMark(w)
  BY <1>0, <1>3, MarkData DEF BackMark, J!Phase, J!Active, J!Terminal,
     Requesting, Recovering, JobFits, PhaseRead
<1>4. CASE FwdAdvance(w)
  <2> DEFINE next == NextPhase[job[w].phase]
  <2>1. pc[w] = "fwd_advance" /\ me(w) \in Op /\ job[w].phase \in J!Active
    BY <1>0, <1>4 DEF FwdAdvance, JobFits, Recovering
  <2>2. CASE UNCHANGED journal
    BY <1>4, <2>2, RefreshData DEF FwdAdvance
  <2>3. CASE /\ job[w].phase # "indexed"
             /\ J!TransitionEditOperation(me(w), job[w].phase, next)
    <3>1. next \in J!Active
      BY <2>1, <2>3 DEF NextPhase, J!Active
    <3>2. J!Next
      BY <2>1, <2>3, <3>1 DEF J!Next, J!Phase
    <3>3. journal[me(w)] \in J!Row
      BY <2>1, <2>3 DEF J!TransitionEditOperation, J!TransitionAccepted, J!Exists,
                  IInv, DataOK, RowsOK
    <3>4. [journal[me(w)] EXCEPT !.phase = next] # J!NoRow
      BY <3>3, <3>1 DEF J!Row, J!NoRow, J!Active
    <3>5. journal' = [journal EXCEPT ![me(w)] = [journal[me(w)] EXCEPT !.phase = next]]
      BY <2>3 DEF J!TransitionEditOperation
    <3> QED
      BY <1>4, <2>1, <3>2, <3>4, <3>5 DEF FwdAdvance, Data, J!Exists, IInv, DataOK, RowsOK
  <2> QED BY <1>4, <2>2, <2>3 DEF FwdAdvance
<1> QED
  BY <1>1, <1>2, <1>3, <1>4 DEF RecoveryStep

-----------------------------------------------------------------------------
\* The three parts of a step keep the invariant.

LEMMA RowsStayOK ==
    ASSUME DataOK, [J!Next]_journal
    PROVE  RowsOK(journal')
<1> USE DEF RowsOK, JP!TypeOK, JP!Row, J!Row, JP!NoRow, J!NoRow, JP!Phase, J!Phase,
            JP!Active, J!Active, JP!Terminal, J!Terminal, JP!Kind, J!Kind,
            JP!Exists, J!Exists, JP!HashesMatchKind, J!HashesMatchKind
<1>1. JP!TypeOK
  BY DEF DataOK
<1>2. [JP!Next]_journal
  BY DEF J!Next, JP!Next, J!CreateEditOperation, JP!CreateEditOperation,
         J!CanCreate, JP!CanCreate, J!IsActive, JP!IsActive,
         J!TransitionEditOperation, JP!TransitionEditOperation,
         J!TransitionAccepted, JP!TransitionAccepted, J!CanTransition,
         JP!CanTransition, J!DeleteEditOperation, JP!DeleteEditOperation,
         J!DeleteProject, JP!DeleteProject
<1>3. JP!TypeOK'
  BY <1>1, <1>2, JP!NextTypeOK
<1> QED
  BY <1>3

LEMMA PartsKeepInvariant ==
    ASSUME IInv, NEW w \in Worker, Control(w), Files(w), Data, EnvOK'
    PROVE  IInv'
<1>1. FilesOK' /\ EnvOK'
  BY DEF Files
<1>2. DataOK'
  BY RowsStayOK DEF IInv, Data, DataOK
<1>3. \A v \in Worker : v # w => pc'[v] = pc[v] /\ job'[v] = job[v]
  BY DEF Control, IInv, ControlOK
<1>4. ControlOK'
  BY <1>3 DEF Control, IInv, ControlOK
<1>5. TempWritten'
  <2> SUFFICES ASSUME NEW v \in Worker, pc'[v] \in Written
               PROVE  temp'[me(v)'] # Torn
    BY DEF TempWritten
  <2>1. pc'[v] \in Begun /\ me(v)' = me(v) /\ me(v) \in Op
    BY <1>3 DEF Control, IInv, ControlOK, JobFits, me, Written, Begun
  <2>2. CASE v = w
    <3>1. pc[w] \in Written \cup {"filltemp"}
      BY <2>2 DEF Control
    <3>2. pc[w] = "opentemp" => pc[w] \notin Written \cup {"filltemp"}
      BY DEF Written
    <3> QED
      BY <2>1, <2>2, <3>1, <3>2 DEF Files, IInv, TempWritten
  <2>3. CASE v # w
    <3>1. pc[v] \in Written /\ pc[v] \in Begun
      BY <1>3, <2>1, <2>3
    <3>2. temp[me(v)] # Torn
      BY <3>1 DEF IInv, TempWritten
    <3>3. pc[w] = "opentemp" => pc[w] \in Begun
      BY DEF Begun, Requesting
    <3> QED
      BY <2>1, <2>3, <3>1, <3>2, <3>3 DEF Files, IInv, OwnsOp
  <2> QED BY <2>2, <2>3
<1>6. OwnsRow'
  <2> SUFFICES ASSUME NEW v \in Worker, pc'[v] \in Begun
               PROVE  J!Exists(me(v))' \/ idx' = NoProject
    BY DEF OwnsRow
  <2>1. me(v)' = me(v) /\ me(v) \in Op
    BY <1>3 DEF Control, IInv, ControlOK, JobFits, me, Begun
  <2>2. CASE pc[v] \in Begun
    BY <2>1, <2>2 DEF IInv, OwnsRow, Data, J!Exists
  <2>3. CASE pc[v] \notin Begun
    BY <1>3, <2>3 DEF Control
  <2> QED BY <2>2, <2>3
<1>7. OwnsOp'
  <2> SUFFICES ASSUME NEW u \in Worker, NEW v \in Worker, u # v,
                      pc'[u] \in Begun, pc'[v] \in Begun, me(u)' = me(v)'
               PROVE  FALSE
    BY DEF OwnsOp
  <2>1. me(u)' = me(u) /\ me(v)' = me(v)
    BY <1>3 DEF Control, me
  <2>2. CASE pc[u] \in Begun /\ pc[v] \in Begun
    BY <2>1, <2>2 DEF IInv, OwnsOp
  <2>3. CASE u = w /\ pc[u] \notin Begun
    <3>1. pc[v] \in Begun
      BY <1>3, <2>3
    <3> QED
      BY <2>1, <2>3, <3>1 DEF Control, IInv, OwnsRow
  <2>4. CASE v = w /\ pc[v] \notin Begun
    <3>1. pc[u] \in Begun
      BY <1>3, <2>4
    <3> QED
      BY <2>1, <2>4, <3>1 DEF Control, IInv, OwnsRow
  <2> QED
    BY <1>3, <2>2, <2>3, <2>4
<1> QED
  BY <1>1, <1>2, <1>4, <1>5, <1>6, <1>7 DEF IInv

LEMMA StepKeepsInvariant ==
    ASSUME IInv, NEW w \in Worker, Step(w)
    PROVE  IInv'
<1>1. Control(w) /\ Files(w) /\ Data
  BY CommitControl, UndoControl, RecoveryControl, CommitFiles, UndoFiles,
     RecoveryFiles, CommitData, UndoData, RecoveryData DEF Step
<1>2. UNCHANGED env
  BY DEF Step, CommitStep, UndoStep, RecoveryStep, Begin, MakeParents, OpenTemp,
      FillTemp, Verify, LinkBackup, DropTarget, MarkBackupReady,
      LinkTarget, DropTemp, MarkReplaced, Refresh, MarkIndexed,
      RemoveBackup, RemoveTemp, MarkCommitted, UndoVerify,
      UndoRemoveTemp, UndoLinkTemp, UndoDropTarget, UndoLinkTarget,
      UndoDropBackup, UndoRefresh, UndoClearTemp, UndoRemoveDirectories,
      UndoMark, ListIncomplete, Inspect, FwdRefresh, FwdRead,
      FwdAdvance, FwdRemoveTemp, FwdRemoveBackup, FwdCommit,
      BackRefresh, BackRemoveTemp, BackRemoveBackup,
      BackRemoveDirectories, BackRead, BackMark, RestoreCheck,
      RestoreLinkTarget, RestoreDropBackup, RestoreRefresh,
      RestoreRemoveTemp, KeepConflict
<1>3. EnvOK'
  BY <1>2 DEF IInv, EnvOK, env, count, ghost
<1> QED
  BY <1>1, <1>3, PartsKeepInvariant

-----------------------------------------------------------------------------
\* Requests, faults and restarts are steps of the same kind.

LEMMA RequestKeepsInvariant ==
    ASSUME IInv, NEW w \in Worker, Request(w)
    PROVE  IInv'
<1>0. ControlOK /\ Goto(w, "begin") /\ UNCHANGED <<fs, db, disk, count>>
  BY DEF IInv, Request, PrepareEdit, PrepareCreate
<1>1. PICK j : job' = [job EXCEPT ![w] = j] /\ JobFits("begin", j)
  <2> USE DEF JobFits, Labels, Requesting, Recovering, PhaseRead, Job, NoJob, J!Kind
  <2>1. ASSUME NEW o \in Op, NEW new \in Content, PrepareEdit(w, o, new)
        PROVE  \E j : job' = [job EXCEPT ![w] = j] /\ JobFits("begin", j)
    <3> DEFINE j == [NoJob EXCEPT !.op = o, !.kind = "update", !.old = dest, !.new = new]
    <3>1. JobFits("begin", j)
      BY DEF IInv, FilesOK
    <3> QED BY <2>1, <3>1 DEF PrepareEdit
  <2>2. ASSUME NEW o \in Op, NEW new \in Content, NEW mkdirs \in BOOLEAN,
               PrepareCreate(w, o, new, mkdirs)
        PROVE  \E j : job' = [job EXCEPT ![w] = j] /\ JobFits("begin", j)
    <3> DEFINE j == [NoJob EXCEPT !.op = o, !.kind = "create", !.new = new,
                       !.mkdirs = mkdirs, !.parents = mkdirs /\ ~parent]
    <3>1. (mkdirs /\ ~parent) \in BOOLEAN
      OBVIOUS
    <3>2. JobFits("begin", j)
      BY <3>1
    <3> QED BY <2>2, <3>2 DEF PrepareCreate
  <2> QED
    BY <2>1, <2>2 DEF Request
<1>3. pc'[w] = "begin" /\ pc' = [pc EXCEPT ![w] = pc'[w]]
  BY <1>0 DEF Goto, ControlOK
<1>4. job'[w] = j /\ job' = [job EXCEPT ![w] = job'[w]]
  BY <1>0, <1>1 DEF ControlOK
<1>5. lease' = [lease EXCEPT ![HostOf[w]] = w]
  BY DEF Request, PrepareEdit, PrepareCreate
<1>6. Control(w)
  BY <1>0, <1>1, <1>3, <1>4, <1>5 DEF Control, ControlOK, Begun, Written
<1>7. Files(w) /\ Data
  <2>1. pc[w] = "idle"
    BY DEF Request, PrepareEdit, PrepareCreate
  <2> QED
    BY <1>0, <2>1, SameFiles, RefreshData DEF db
<1>8. EnvOK'
  BY <1>0 DEF IInv, EnvOK, count, Request, PrepareEdit, PrepareCreate
<1> QED
  BY <1>6, <1>7, <1>8, PartsKeepInvariant

LEMMA IoErrorKeepsInvariant ==
    ASSUME IInv, NEW w \in Worker, IoError(w)
    PROVE  IInv'
<1>1. Control(w)
  <2>1. CASE pc[w] = "refresh"
    BY <2>1, GotoControl DEF IoError, IInv, Edge, Labels, Requesting, Recovering,
       PhaseRead, Begun, Written
  <2>2. CASE pc[w] # "refresh"
    BY <2>2, FailControl DEF IoError, IInv
  <2> QED BY <2>1, <2>2
<1>2. Files(w)
  <2>1. CASE pc[w] # "filltemp"
    BY <2>1, SameFiles DEF IoError
  <2>2. CASE pc[w] = "filltemp"
    <3>1. pc'[w] = "idle"
      BY <2>2 DEF IoError, Fail, EndAt, Goto, Recovering, IInv, ControlOK
    <3> QED
      BY <2>2, <3>1 DEF IoError, IInv, FilesOK, Files, fs, Written, Begun, Requesting
  <2> QED BY <2>1, <2>2
<1>3. Data
  BY RefreshData DEF IoError
<1>4. EnvOK'
  BY DEF IoError, IInv, EnvOK, ghost
<1> QED
  BY <1>1, <1>2, <1>3, <1>4, PartsKeepInvariant

LEMMA ReopenKeepsInvariant ==
    ASSUME IInv, NEW w \in Worker, Reopen(w)
    PROVE  IInv'
<1>1. Control(w)
  BY GotoControl DEF Reopen, IInv, Edge, Labels, Requesting, Recovering,
     PhaseRead, Begun, Written
<1>2. Files(w) /\ Data
  BY SameFiles, RefreshData DEF Reopen, db
<1>3. EnvOK'
  BY DEF Reopen, IInv, EnvOK, env, count, ghost
<1> QED
  BY <1>1, <1>2, <1>3, PartsKeepInvariant

-----------------------------------------------------------------------------
\* The environment.

\* Services that are forgotten are inside no request; the others stay.
LEMMA ForgottenControl ==
    ASSUME ControlOK, NEW hosts, Forgotten(hosts)
    PROVE  /\ ControlOK'
           /\ \A v \in Worker : pc'[v] \in Begun => /\ HostOf[v] \notin hosts
                                                    /\ pc'[v] = pc[v] /\ job'[v] = job[v]
<1>1. lease' \in [Host -> Worker \cup {NoWorker}]
  BY DEF Forgotten, ControlOK
<1>2. \A v \in Worker : \/ pc'[v] = "start" /\ job'[v] = NoJob
                        \/ HostOf[v] \notin hosts /\ pc'[v] = pc[v] /\ job'[v] = job[v]
  BY DEF Forgotten
<1>3. \A v \in Worker : JobFits(pc'[v], job'[v])
  BY <1>2, NoJobFits DEF ControlOK
<1>4. ControlOK'
  BY <1>1, <1>3 DEF Forgotten, ControlOK
<1> QED
  BY <1>2, <1>4 DEF Begun, Requesting

\* A step that moves no service keeps what the invariant says of their files.
LEMMA ControlStays ==
    ASSUME IInv, UNCHANGED <<temp, local>>,
           \A o \in Op : J!Exists(o) => J!Exists(o)' \/ idx' = NoProject,
           idx = NoProject => idx' = NoProject
    PROVE  ControlOK' /\ TempWritten' /\ OwnsRow' /\ OwnsOp'
<1>1. UNCHANGED <<lease, pc, job>>
  BY DEF local
<1>2. \A v \in Worker : me(v)' = me(v) /\ (pc[v] \in Begun => me(v) \in Op)
  BY <1>1 DEF IInv, ControlOK, JobFits, me, Begun
<1>3. ControlOK'
  BY <1>1 DEF IInv, ControlOK
<1>4. TempWritten'
  BY <1>1, <1>2 DEF IInv, TempWritten
<1>5. OwnsRow'
  BY <1>1, <1>2 DEF IInv, OwnsRow
<1>6. OwnsOp'
  BY <1>1, <1>2 DEF IInv, OwnsOp
<1> QED
  BY <1>3, <1>4, <1>5, <1>6

LEMMA CrashKeepsInvariant ==
    ASSUME IInv, NEW h \in Host, Crash(h)
    PROVE  IInv'
<1>1. ControlOK' /\ \A v \in Worker : pc'[v] \in Begun => pc'[v] = pc[v] /\ job'[v] = job[v]
  BY ForgottenControl DEF Crash, IInv
<1>2. UNCHANGED <<dest, temp, bak, parent, journal, idx>>
  BY DEF Crash, fs, db
<1>3. FilesOK' /\ DataOK' /\ EnvOK'
  BY <1>2 DEF Crash, IInv, FilesOK, DataOK, EnvOK, ghost
<1>4. TempWritten'
  BY <1>1, <1>2 DEF IInv, TempWritten, Written, me
<1>5. OwnsRow' /\ OwnsOp'
  BY <1>1, <1>2 DEF IInv, OwnsRow, OwnsOp, J!Exists, me
<1> QED
  BY <1>1, <1>3, <1>4, <1>5 DEF IInv

LEMMA PowerLossKeepsInvariant ==
    ASSUME IInv, PowerLoss
    PROVE  IInv'
<1>1. ControlOK' /\ \A v \in Worker : pc'[v] \notin Begun
  BY ForgottenControl DEF PowerLoss, IInv
<1>2. FilesOK'
  BY DEF PowerLoss, IInv, FilesOK, fs
<1>3. DataOK' /\ EnvOK'
  BY DEF PowerLoss, IInv, DataOK, EnvOK, ghost
<1>4. TempWritten' /\ OwnsRow' /\ OwnsOp'
  BY <1>1 DEF TempWritten, OwnsRow, OwnsOp, Written
<1> QED
  BY <1>1, <1>2, <1>3, <1>4 DEF IInv

LEMMA FlushKeepsInvariant ==
    ASSUME IInv, Flush
    PROVE  IInv'
<1>1. FilesOK' /\ DataOK' /\ EnvOK'
  BY DEF Flush, IInv, FilesOK, DataOK, EnvOK, fs, db, count, ghost
<1>2. ControlOK' /\ TempWritten' /\ OwnsRow' /\ OwnsOp'
  BY ControlStays DEF Flush, fs, db, J!Exists
<1> QED
  BY <1>1, <1>2 DEF IInv

LEMMA ExternalWriteKeepsInvariant ==
    ASSUME IInv, NEW content \in Content \cup {Absent}, ExternalWrite(content)
    PROVE  IInv'
<1>1. FilesOK'
  BY DEF ExternalWrite, IInv, FilesOK
<1>2. timely' \in BOOLEAN
  BY DEF ExternalWrite
<1>3. DataOK' /\ EnvOK'
  BY <1>2 DEF ExternalWrite, IInv, DataOK, EnvOK, db
<1>4. ControlOK' /\ TempWritten' /\ OwnsRow' /\ OwnsOp'
  BY ControlStays DEF ExternalWrite, db, J!Exists
<1> QED
  BY <1>1, <1>3, <1>4 DEF IInv

LEMMA DeleteProjectKeepsInvariant ==
    ASSUME IInv, DeleteProject
    PROVE  IInv'
<1>1. FilesOK' /\ DataOK' /\ EnvOK'
  BY DEF DeleteProject, IInv, FilesOK, DataOK, EnvOK, RowsOK, IndexOK,
         fs, env, count, ghost
<1>2. ControlOK' /\ TempWritten' /\ OwnsRow' /\ OwnsOp'
  BY ControlStays DEF DeleteProject, fs
<1> QED
  BY <1>1, <1>2 DEF IInv

-----------------------------------------------------------------------------
\* The theorems.

LEMMA InitInvariant == Init => IInv
<1> SUFFICES ASSUME Init PROVE IInv
  OBVIOUS
<1>1. FilesOK
  BY DEF Init, FilesOK, FileState
<1>2. DataOK /\ EnvOK
  BY DEF Init, DataOK, EnvOK, RowsOK, IndexOK
<1>3. \A w \in Worker : pc[w] \in {"start", "idle"} /\ job[w] = NoJob
  BY DEF Init
<1>4. ControlOK
  BY <1>3, NoJobFits DEF Init, ControlOK
<1>5. TempWritten /\ OwnsRow /\ OwnsOp
  BY <1>3 DEF TempWritten, OwnsRow, OwnsOp, Written, Begun, Requesting
<1> QED
  BY <1>1, <1>2, <1>4, <1>5 DEF IInv

LEMMA NextInvariant ==
    ASSUME IInv, [Next]_vars
    PROVE  IInv'
<1>1. CASE UNCHANGED vars
  <2>1. FilesOK' /\ DataOK' /\ EnvOK'
    BY <1>1 DEF vars, IInv, FilesOK, DataOK, EnvOK, fs, db, env, count, ghost
  <2>2. ControlOK' /\ TempWritten' /\ OwnsRow' /\ OwnsOp'
    BY <1>1, ControlStays DEF vars, fs, db, J!Exists
  <2> QED BY <2>1, <2>2 DEF IInv
<1>2. ASSUME NEW w \in Worker, Request(w) \/ Step(w) \/ IoError(w) \/ Reopen(w)
      PROVE  IInv'
  BY <1>2, RequestKeepsInvariant, StepKeepsInvariant, IoErrorKeepsInvariant,
     ReopenKeepsInvariant
<1>3. CASE Environment
  BY <1>3, CrashKeepsInvariant, PowerLossKeepsInvariant, FlushKeepsInvariant,
     ExternalWriteKeepsInvariant, DeleteProjectKeepsInvariant DEF Environment
<1> QED
  BY <1>1, <1>2, <1>3 DEF Next

LEMMA InvariantHolds == Spec => []IInv
BY InitInvariant, NextInvariant, PTL DEF Spec

LEMMA InvariantTypes ==
    ASSUME IInv
    PROVE  TypeOK
<1>1. J!TypeOK /\ idx \in Content \cup {Absent, NoProject}
  BY DEF IInv, DataOK, RowsOK, IndexOK, J!TypeOK, J!Exists
<1>2. pc \in [Worker -> Labels] /\ job \in [Worker -> Job]
  BY DEF IInv, ControlOK, JobFits
<1> QED
  BY <1>1, <1>2 DEF IInv, FilesOK, EnvOK, ControlOK, TypeOK

\* Every variable keeps its type, and so the target is never seen half written,
\* whatever crashes, fails, writes from outside or loses power, and however many
\* services of however many processes work on it.
THEOREM TypeCorrect == Spec => []TypeOK
BY InvariantHolds, InvariantTypes, PTL

\* Deleting the project is an operation of the journal too.
LEMMA DeleteProjectData ==
    ASSUME IInv, DeleteProject
    PROVE  [J!Next]_journal
<1>1. CASE \A o \in Op : ~J!Exists(o)
  BY <1>1 DEF DeleteProject, IInv, DataOK, RowsOK, J!Exists
<1>2. CASE \E o \in Op : J!Exists(o)
  <2>1. \A o \in Op : J!Exists(o) => journal[o].path = Target
    BY DEF IInv, DataOK, RowsOK, J!Exists, J!Row
  <2>2. journal' = [o \in Op |-> IF J!Exists(o) /\ journal[o].path \in {Target}
                                 THEN J!NoRow ELSE journal[o]]
    BY <2>1 DEF DeleteProject, J!Exists
  <2>3. J!DeleteProject({Target})
    BY <1>2, <2>1, <2>2 DEF J!DeleteProject
  <2> QED BY <2>3 DEF J!Next
<1> QED
  BY <1>1, <1>2

LEMMA NextUsesJournal ==
    ASSUME MaxPower = 0, IInv, [Next]_vars
    PROVE  [J!Next]_journal
<1>1. CASE UNCHANGED vars
  BY <1>1 DEF vars, db
<1>2. ASSUME NEW w \in Worker, Request(w) \/ Step(w) \/ IoError(w) \/ Reopen(w)
      PROVE  [J!Next]_journal
  <2>1. CASE Step(w)
    BY <2>1, CommitData, UndoData, RecoveryData DEF Step, Data
  <2>2. CASE Request(w) \/ IoError(w) \/ Reopen(w)
    BY <2>2 DEF Request, PrepareEdit, PrepareCreate, IoError, Reopen, db
  <2> QED BY <1>2, <2>1, <2>2
<1>3. CASE Environment
  <2>1. ~PowerLoss
    BY DEF PowerLoss, IInv, EnvOK
  <2>2. ASSUME NEW h \in Host, Crash(h)
        PROVE  UNCHANGED journal
    BY <2>2 DEF Crash, db
  <2>3. ASSUME NEW content \in Content \cup {Absent}, ExternalWrite(content)
        PROVE  UNCHANGED journal
    BY <2>3 DEF ExternalWrite, db
  <2>4. ASSUME Flush PROVE UNCHANGED journal
    BY <2>4 DEF Flush, db
  <2> QED
    BY <1>3, <2>1, <2>2, <2>3, <2>4, DeleteProjectData DEF Environment
<1> QED
  BY <1>1, <1>2, <1>3 DEF Next

\* Without power losses, any number of edit services in any number of processes
\* use the journal as the store promises it: rows are made for free targets,
\* leave a phase only for one that the automaton allows, and end at most once.
THEOREM JournalImplemented ==
    ASSUME MaxPower = 0
    PROVE  Spec => JournalSpec
<1>1. Init => J!Init
  BY DEF Init, J!Init
<1>2. IInv /\ [Next]_vars => [UNCHANGED journal \/ J!Next]_journal
  BY NextUsesJournal
<1> QED
  BY <1>1, <1>2, InvariantHolds, PTL DEF Spec, JournalSpec

-----------------------------------------------------------------------------

\* A step of a service touches the files of its own operation only.
OwnFiles(w) ==
    \A o \in Op \ {me(w)} : temp'[o] = temp[o] /\ bak'[o] = bak[o]

LEMMA StepOwnFiles ==
    ASSUME IInv, NEW w \in Worker, Step(w)
    PROVE  OwnFiles(w)
<1> USE DEF OwnFiles, IInv, FilesOK, fs
<1>1. CASE CommitStep(w)
  BY <1>1 DEF CommitStep, Begin, MakeParents, OpenTemp, FillTemp, Verify, LinkBackup,
     DropTarget, MarkBackupReady, LinkTarget, DropTemp, MarkReplaced, Refresh,
     MarkIndexed, RemoveBackup, RemoveTemp, MarkCommitted
<1>2. CASE UndoStep(w)
  BY <1>2 DEF UndoStep, UndoVerify, UndoRemoveTemp, UndoLinkTemp, UndoDropTarget,
     UndoLinkTarget, UndoDropBackup, UndoRefresh, UndoClearTemp,
     UndoRemoveDirectories, UndoMark
<1>3. CASE RecoveryStep(w)
  BY <1>3 DEF RecoveryStep, ListIncomplete, Inspect, FwdRefresh, FwdRead, FwdAdvance,
     FwdRemoveTemp, FwdRemoveBackup, FwdCommit, BackRefresh, BackRemoveTemp,
     BackRemoveBackup, BackRemoveDirectories, BackRead, BackMark, RestoreCheck,
     RestoreLinkTarget, RestoreDropBackup, RestoreRefresh, RestoreRemoveTemp,
     KeepConflict
<1> QED
  BY <1>1, <1>2, <1>3 DEF Step

\* A step of a service makes the row of its operation, moves it to a phase that may
\* follow, or leaves the journal alone.
Makes(w) ==
    /\ pc[w] = "begin" /\ pc'[w] \in {"mkdirs", "opentemp"} /\ idx # NoProject
    /\ me(w) \in Op /\ UNCHANGED <<fs, idx, job, lease>>
    /\ J!CanCreate(me(w), NewRow(w))
    /\ journal' = [journal EXCEPT ![me(w)] = NewRow(w)]
Advances(w, phase) ==
    /\ me(w) \in Op /\ J!Exists(me(w)) /\ J!CanTransition(Row(w).phase, phase)
    /\ journal' = [journal EXCEPT ![me(w)].phase = phase]
OwnRow(w) ==
    \/ UNCHANGED journal
    \/ Makes(w)
    \/ \E phase \in J!Phase : Advances(w, phase)

LEMMA TransitionOwnRow ==
    ASSUME IInv, NEW w \in Worker, me(w) \in Op, NEW expected, NEW phase \in J!Phase,
           J!TransitionEditOperation(me(w), expected, phase)
    PROVE  OwnRow(w)
<1>1. CASE Row(w).phase = phase
  <2>1. journal[me(w)] \in J!Row
    BY DEF J!TransitionEditOperation, J!TransitionAccepted, J!Exists,
           IInv, DataOK, RowsOK
  <2>2. [journal[me(w)] EXCEPT !.phase = phase] = journal[me(w)]
    BY <1>1, <2>1 DEF J!Row, Row
  <2>3. journal' = journal
    BY <2>2 DEF J!TransitionEditOperation, IInv, DataOK, RowsOK
  <2> QED BY <2>3 DEF OwnRow
<1>2. CASE Row(w).phase # phase
  BY <1>2 DEF J!TransitionEditOperation, J!TransitionAccepted, Row, OwnRow, Advances
<1> QED BY <1>1, <1>2

LEMMA MarkOwnRow ==
    ASSUME IInv, NEW w \in Worker, me(w) \in Op, NEW expected, NEW phase \in J!Phase, NEW to,
           Mark(w, expected, phase, to)
    PROVE  OwnRow(w)
BY TransitionOwnRow DEF Mark, OwnRow

LEMMA StepOwnRow ==
    ASSUME IInv, NEW w \in Worker, Step(w)
    PROVE  OwnRow(w)
<1>0. pc[w] \in Requesting \cup Recovering => me(w) \in Op /\ JobFits(pc[w], job[w])
  BY DEF IInv, ControlOK, JobFits, me
<1> USE DEF Requesting, Recovering, J!Phase, J!Active, J!Terminal
<1>1. CASE CommitStep(w)
  <2>1. CASE Begin(w)
    <3>1. CASE UNCHANGED journal
      BY <3>1 DEF OwnRow
    <3>2. CASE /\ idx # NoProject /\ J!CreateEditOperation(me(w), NewRow(w))
               /\ Goto(w, IF job[w].mkdirs THEN "mkdirs" ELSE "opentemp")
               /\ UNCHANGED <<lease, job>>
      BY <1>0, <2>1, <3>2 DEF Begin, OwnRow, Makes, J!CreateEditOperation, Goto, env,
           IInv, ControlOK
    <3> QED BY <2>1, <3>1, <3>2 DEF Begin, NewRow
  <2>2. CASE MarkBackupReady(w) \/ MarkReplaced(w) \/ MarkIndexed(w) \/ MarkCommitted(w)
    BY <1>0, <2>2, MarkOwnRow DEF MarkBackupReady, MarkReplaced, MarkIndexed, MarkCommitted
  <2> QED
    BY <1>1, <2>1, <2>2 DEF CommitStep, MakeParents, OpenTemp, FillTemp, Verify,
       LinkBackup, DropTarget, LinkTarget, DropTemp, Refresh, RemoveBackup,
       RemoveTemp, OwnRow, db
<1>2. CASE UndoStep(w)
  <2>1. CASE UndoMark(w)
    BY <1>0, <2>1, MarkOwnRow DEF UndoMark
  <2> QED
    BY <1>2, <2>1 DEF UndoStep, UndoVerify, UndoRemoveTemp, UndoLinkTemp,
       UndoDropTarget, UndoLinkTarget, UndoDropBackup, UndoRefresh, UndoClearTemp,
       UndoRemoveDirectories, OwnRow, db
<1>3. CASE RecoveryStep(w)
  <2>1. CASE FwdCommit(w) \/ BackMark(w)
    BY <1>0, <2>1, MarkOwnRow DEF FwdCommit, BackMark
  <2>2. CASE FwdAdvance(w)
    <3> DEFINE next == NextPhase[job[w].phase]
    <3>1. CASE UNCHANGED journal
      BY <3>1 DEF OwnRow
    <3>2. CASE job[w].phase # "indexed" /\ J!TransitionEditOperation(me(w), job[w].phase, next)
      <4>1. job[w].phase \in {"prepared", "backup_ready", "replaced"}
        BY <1>0, <2>2, <3>2 DEF FwdAdvance, JobFits
      <4>2. next \in J!Phase
        BY <4>1 DEF NextPhase
      <4> QED
        BY <1>0, <2>2, <3>2, <4>2, TransitionOwnRow DEF FwdAdvance
    <3> QED BY <2>2, <3>1, <3>2 DEF FwdAdvance
  <2> QED
    BY <1>3, <2>1, <2>2 DEF RecoveryStep, ListIncomplete, Inspect, FwdRefresh,
       FwdRead, FwdRemoveTemp, FwdRemoveBackup, BackRefresh, BackRemoveTemp,
       BackRemoveBackup, BackRemoveDirectories, BackRead, RestoreCheck,
       RestoreLinkTarget, RestoreDropBackup, RestoreRefresh, RestoreRemoveTemp,
       KeepConflict, OwnRow, db
<1> QED
  BY <1>1, <1>2, <1>3 DEF Step

LEMMA StepControl ==
    ASSUME IInv, NEW w \in Worker, Step(w)
    PROVE  Control(w)
BY CommitControl, UndoControl, RecoveryControl DEF Step

LEMMA StepKeepsEnv ==
    ASSUME NEW w \in Worker, Step(w)
    PROVE  UNCHANGED env
BY DEF Step, CommitStep, UndoStep, RecoveryStep, Begin, MakeParents, OpenTemp,
      FillTemp, Verify, LinkBackup, DropTarget, MarkBackupReady,
      LinkTarget, DropTemp, MarkReplaced, Refresh, MarkIndexed,
      RemoveBackup, RemoveTemp, MarkCommitted, UndoVerify,
      UndoRemoveTemp, UndoLinkTemp, UndoDropTarget, UndoLinkTarget,
      UndoDropBackup, UndoRefresh, UndoClearTemp, UndoRemoveDirectories,
      UndoMark, ListIncomplete, Inspect, FwdRefresh, FwdRead,
      FwdAdvance, FwdRemoveTemp, FwdRemoveBackup, FwdCommit,
      BackRefresh, BackRemoveTemp, BackRemoveBackup,
      BackRemoveDirectories, BackRead, BackMark, RestoreCheck,
      RestoreLinkTarget, RestoreDropBackup, RestoreRefresh,
      RestoreRemoveTemp, KeepConflict

-----------------------------------------------------------------------------
\* What an outside writer put in the target.  No request under way knows that
\* content, and every service has still to take its last look.

Blind(w) ==
    /\ pc[w] \notin Unwatched
    /\ pc[w] \in Requesting => foreign \notin Versions(job[w])

ForeignInv ==
    foreign # Absent /\ timely => dest = foreign /\ \A w \in Worker : Blind(w)

\* What a step of a service does about it.
Spares(w) == dest' = dest /\ Blind(w)'

LEMMA PlaceOfRequest ==
    ASSUME NEW w \in Worker, CommitStep(w) \/ UndoStep(w)
    PROVE  pc[w] \in Requesting
BY DEF CommitStep, Begin, MakeParents, OpenTemp, FillTemp, Verify, LinkBackup,
       DropTarget, MarkBackupReady, LinkTarget, DropTemp, MarkReplaced, Refresh,
       MarkIndexed, RemoveBackup, RemoveTemp, MarkCommitted,
       UndoStep, UndoVerify, UndoRemoveTemp, UndoLinkTemp, UndoDropTarget,
       UndoLinkTarget, UndoDropBackup, UndoRefresh, UndoClearTemp,
       UndoRemoveDirectories, UndoMark, Requesting

LEMMA RecoveryGoesTo ==
    ASSUME IInv, NEW w \in Worker, RecoveryStep(w)
    PROVE  pc'[w] \in Recovering \cup {"start", "idle", "refused"}
<1> USE DEF IInv, ControlOK, Recovering, Mark, Try, Fail, EndAt, Goto
<1>1. CASE ListIncomplete(w) \/ Inspect(w)
  BY <1>1 DEF ListIncomplete, Inspect
<1>2. CASE \/ FwdRefresh(w) \/ FwdRead(w) \/ FwdAdvance(w) \/ FwdRemoveTemp(w)
           \/ FwdRemoveBackup(w) \/ FwdCommit(w)
  BY <1>2 DEF FwdRefresh, FwdRead, FwdAdvance, FwdRemoveTemp, FwdRemoveBackup, FwdCommit
<1>3. CASE \/ BackRefresh(w) \/ BackRemoveTemp(w) \/ BackRemoveBackup(w)
           \/ BackRemoveDirectories(w) \/ BackRead(w) \/ BackMark(w)
  BY <1>3 DEF BackRefresh, BackRemoveTemp, BackRemoveBackup, BackRemoveDirectories,
     BackRead, BackMark
<1>4. CASE \/ RestoreCheck(w) \/ RestoreLinkTarget(w) \/ RestoreDropBackup(w)
           \/ RestoreRefresh(w) \/ RestoreRemoveTemp(w) \/ KeepConflict(w)
  BY <1>4 DEF RestoreCheck, RestoreLinkTarget, RestoreDropBackup, RestoreRefresh,
     RestoreRemoveTemp, KeepConflict
<1> QED
  BY <1>1, <1>2, <1>3, <1>4 DEF RecoveryStep

LEMMA NoJobIsBlind == foreign # Absent => foreign \notin Versions(NoJob)
BY DEF Versions, NoJob

LEMMA CommitSpares ==
    ASSUME IInv, ForeignInv, NEW w \in Worker, CommitStep(w), foreign # Absent, timely
    PROVE  Spares(w)
<1>1. /\ dest = foreign /\ pc[w] \notin Unwatched /\ foreign' = foreign
      /\ foreign \notin Versions(job[w]) /\ foreign \notin Versions(NoJob)
  BY NoJobIsBlind, StepKeepsEnv, PlaceOfRequest DEF ForeignInv, Blind, Step, env, ghost
<1> USE <1>1 DEF IInv, ControlOK, Unwatched, Versions, Spares, Blind, Mark, Try, Fail, EndAt,
       Goto, fs
<1>2. CASE Begin(w) \/ MakeParents(w) \/ OpenTemp(w) \/ FillTemp(w)
  BY <1>2 DEF Begin, MakeParents, OpenTemp, FillTemp
<1>3. CASE Verify(w) \/ LinkBackup(w) \/ DropTarget(w) \/ LinkTarget(w) \/ DropTemp(w)
  BY <1>3 DEF Verify, LinkBackup, DropTarget, LinkTarget, DropTemp
<1>4. CASE MarkBackupReady(w) \/ MarkReplaced(w) \/ MarkIndexed(w) \/ MarkCommitted(w)
  BY <1>4 DEF MarkBackupReady, MarkReplaced, MarkIndexed, MarkCommitted
<1>5. CASE Refresh(w) \/ RemoveBackup(w) \/ RemoveTemp(w)
  BY <1>5 DEF Refresh, RemoveBackup, RemoveTemp
<1> QED
  BY <1>2, <1>3, <1>4, <1>5 DEF CommitStep

LEMMA UndoSpares ==
    ASSUME IInv, ForeignInv, NEW w \in Worker, UndoStep(w), foreign # Absent, timely
    PROVE  Spares(w)
<1>1. /\ dest = foreign /\ pc[w] \notin Unwatched /\ foreign' = foreign
      /\ foreign \notin Versions(job[w]) /\ foreign \notin Versions(NoJob)
  BY NoJobIsBlind, StepKeepsEnv, PlaceOfRequest DEF ForeignInv, Blind, Step, env, ghost
<1> USE <1>1 DEF IInv, ControlOK, Unwatched, Versions, Spares, Blind, Mark, Try, Fail, EndAt,
       Goto, fs
<1>2. CASE UndoVerify(w) \/ UndoRemoveTemp(w) \/ UndoLinkTemp(w) \/ UndoDropTarget(w)
  BY <1>2 DEF UndoVerify, UndoRemoveTemp, UndoLinkTemp, UndoDropTarget
<1>3. CASE UndoLinkTarget(w) \/ UndoDropBackup(w) \/ UndoRefresh(w) \/ UndoClearTemp(w)
  BY <1>3 DEF UndoLinkTarget, UndoDropBackup, UndoRefresh, UndoClearTemp
<1>4. CASE UndoRemoveDirectories(w) \/ UndoMark(w)
  BY <1>4 DEF UndoRemoveDirectories, UndoMark
<1> QED
  BY <1>2, <1>3, <1>4 DEF UndoStep

\* A recovery takes no target away, and puts one in place only where there is none.
LEMMA RecoverySpares ==
    ASSUME IInv, ForeignInv, NEW w \in Worker, RecoveryStep(w), foreign # Absent, timely
    PROVE  Spares(w)
<1>1. dest # Absent /\ pc'[w] \notin Requesting
  <2>1. pc'[w] \in Recovering \cup {"start", "idle", "refused"}
    BY RecoveryGoesTo
  <2> QED BY <2>1 DEF ForeignInv, Requesting, Recovering
<1>2. dest' = dest
  BY <1>1 DEF RecoveryStep, ListIncomplete, Inspect, FwdRefresh, FwdRead, FwdAdvance,
     FwdRemoveTemp, FwdRemoveBackup, FwdCommit, BackRefresh, BackRemoveTemp,
     BackRemoveBackup, BackRemoveDirectories, BackRead, BackMark, RestoreCheck,
     RestoreLinkTarget, RestoreDropBackup, RestoreRefresh, RestoreRemoveTemp, KeepConflict,
     fs
<1> QED
  BY <1>1, <1>2 DEF Spares, Blind, Unwatched, Requesting

LEMMA StepKeepsForeign ==
    ASSUME IInv, ForeignInv, NEW w \in Worker, Step(w)
    PROVE  ForeignInv'
<1>1. UNCHANGED <<foreign, timely>>
  BY StepKeepsEnv DEF env, ghost
<1> SUFFICES ASSUME foreign # Absent, timely
             PROVE  ForeignInv'
  BY <1>1 DEF ForeignInv
<1>2. Spares(w)
  BY CommitSpares, UndoSpares, RecoverySpares DEF Step
<1>3. \A v \in Worker \ {w} : pc'[v] = pc[v] /\ job'[v] = job[v]
  BY StepControl DEF Control, IInv, ControlOK
<1>4. dest = foreign /\ \A v \in Worker \ {w} : Blind(v)'
  BY <1>1, <1>3 DEF ForeignInv, Blind
<1> QED
  BY <1>1, <1>2, <1>4 DEF Spares, ForeignInv

LEMMA NextKeepsForeign ==
    ASSUME IInv, ForeignInv, [Next]_vars
    PROVE  ForeignInv'
<1> USE DEF Blind
<1>1. CASE UNCHANGED vars
  BY <1>1 DEF vars, fs, env, ghost, local, ForeignInv
<1>2. ASSUME NEW w \in Worker, Step(w)
      PROVE  ForeignInv'
  BY <1>2, StepKeepsForeign
<1>3. ASSUME NEW w \in Worker, Request(w)
      PROVE  ForeignInv'
  BY <1>3 DEF Request, PrepareEdit, PrepareCreate, ForeignInv
<1>4. ASSUME NEW w \in Worker, IoError(w) \/ Reopen(w)
      PROVE  ForeignInv'
  <2>1. UNCHANGED <<dest, foreign, timely>>
    BY <1>4 DEF IoError, Reopen, fs, env, ghost
  <2>2. \A v \in Worker : \/ pc'[v] = pc[v] /\ job'[v] = job[v]
                          \/ pc'[v] \notin Unwatched \cup Requesting
                          \/ /\ pc[v] = "refresh" /\ pc'[v] = "undo_verify"
                             /\ job'[v] = job[v]
    BY <1>4 DEF IoError, Reopen, Fail, EndAt, Goto, Unwatched, Requesting, IInv, ControlOK
  <2> QED
    BY <2>1, <2>2 DEF ForeignInv, Unwatched, Requesting
<1>5. ASSUME NEW h \in Host, Crash(h)
      PROVE  ForeignInv'
  BY <1>5 DEF Crash, Forgotten, fs, ghost, Unwatched, Requesting, ForeignInv
<1>6. ASSUME NEW content \in Content \cup {Absent}, ExternalWrite(content)
      PROVE  ForeignInv'
  BY <1>6 DEF ExternalWrite, local, ForeignInv
<1>7. CASE Flush \/ DeleteProject
  BY <1>7 DEF Flush, DeleteProject, fs, env, ghost, local, ForeignInv
<1>8. CASE PowerLoss
  BY <1>8 DEF PowerLoss, Forgotten, fs, ghost, Unwatched, Requesting, ForeignInv
<1> QED
  BY <1>1, <1>2, <1>3, <1>4, <1>5, <1>6, <1>7, <1>8 DEF Next, Environment

\* What an outside writer put in the target before any service took its last look
\* stays there until somebody asks for an edit of it: whatever crashes, fails and
\* loses rows, and however many processes recover and edit.
THEOREM OutsideWritesAreKept == Spec => []ForeignKept
<1>1. Init => ForeignInv
  BY DEF Init, ForeignInv
<1>2. IInv /\ ForeignInv /\ [Next]_vars => ForeignInv'
  BY NextKeepsForeign
<1>3. ForeignInv => ForeignKept
  BY DEF ForeignInv, ForeignKept
<1> QED
  BY <1>1, <1>2, <1>3, InvariantHolds, PTL DEF Spec

-----------------------------------------------------------------------------
\* The lease.  A service that is inside a request, or past the inspection of a
\* recovery, holds the lease of its process: no other service of the process is.

Outside == {"start", "idle", "refused", "rec_inspect"}
Inside(w) == pc[w] \notin Outside

Leased == \A w \in Worker : Inside(w) => lease[HostOf[w]] = w

OneProcess == \A v, w \in Worker : HostOf[v] = HostOf[w]

\* What a step of a service does to the lease of its process.
StaysIn(w) == UNCHANGED lease /\ (Inside(w)' => Inside(w))
Leaves(w) ==
    /\ ~Inside(w)'
    /\ lease' = [lease EXCEPT ![HostOf[w]] = IF @ = w THEN NoWorker ELSE @]
Enters(w) ==
    /\ lease[HostOf[w]] = NoWorker
    /\ lease' = [lease EXCEPT ![HostOf[w]] = w]

LEMMA StepLease ==
    ASSUME IInv, NEW w \in Worker, Step(w)
    PROVE  StaysIn(w) \/ Leaves(w) \/ Enters(w)
<1> USE DEF IInv, ControlOK, Mark, Try, Fail, EndAt, Goto, Inside, Outside,
            StaysIn, Leaves, Enters
<1>1. CASE CommitStep(w)
  BY <1>1 DEF CommitStep, Begin, MakeParents, OpenTemp, FillTemp, Verify, LinkBackup,
     DropTarget, MarkBackupReady, LinkTarget, DropTemp, MarkReplaced, Refresh,
     MarkIndexed, RemoveBackup, RemoveTemp, MarkCommitted
<1>2. CASE UndoStep(w)
  BY <1>2 DEF UndoStep, UndoVerify, UndoRemoveTemp, UndoLinkTemp, UndoDropTarget,
     UndoLinkTarget, UndoDropBackup, UndoRefresh, UndoClearTemp,
     UndoRemoveDirectories, UndoMark
<1>3. CASE RecoveryStep(w)
  BY <1>3 DEF RecoveryStep, ListIncomplete, Inspect, FwdRefresh, FwdRead, FwdAdvance,
     FwdRemoveTemp, FwdRemoveBackup, FwdCommit, BackRefresh, BackRemoveTemp,
     BackRemoveBackup, BackRemoveDirectories, BackRead, BackMark, RestoreCheck,
     RestoreLinkTarget, RestoreDropBackup, RestoreRefresh, RestoreRemoveTemp,
     KeepConflict
<1> QED
  BY <1>1, <1>2, <1>3 DEF Step

LEMMA LeaseMoves ==
    ASSUME IInv, Leased, NEW w \in Worker, StaysIn(w) \/ Leaves(w) \/ Enters(w),
           \A v \in Worker \ {w} : pc'[v] = pc[v]
    PROVE  Leased'
<1>1. HostOf[w] \in Host /\ lease \in [Host -> Worker \cup {NoWorker}]
  BY DEF IInv, ControlOK
<1> SUFFICES ASSUME NEW v \in Worker, Inside(v)'
             PROVE  lease'[HostOf[v]] = v
  BY DEF Leased
<1>2. CASE v = w
  BY <1>1, <1>2 DEF Leased, StaysIn, Leaves, Enters
<1>3. CASE v # w
  <2>1. lease[HostOf[v]] = v /\ HostOf[v] \in Host
    BY <1>3 DEF Leased, Inside
  <2> QED
    BY <1>1, <1>3, <2>1 DEF StaysIn, Leaves, Enters
<1> QED
  BY <1>2, <1>3

LEMMA NextKeepsLease ==
    ASSUME IInv, Leased, [Next]_vars
    PROVE  Leased'
<1>1. CASE UNCHANGED vars
  BY <1>1 DEF vars, local, Leased, Inside
<1>2. ASSUME NEW w \in Worker, Step(w)
      PROVE  Leased'
  BY <1>2, StepLease, StepControl, LeaseMoves DEF Control, IInv, ControlOK
<1>3. ASSUME NEW w \in Worker, Request(w)
      PROVE  Leased'
  <2>1. Enters(w) /\ \A v \in Worker \ {w} : pc'[v] = pc[v]
    BY <1>3 DEF Request, PrepareEdit, PrepareCreate, Enters, Goto, IInv, ControlOK
  <2> QED BY <2>1, LeaseMoves
<1>4. ASSUME NEW w \in Worker, IoError(w) \/ Reopen(w)
      PROVE  Leased'
  <2>1. (StaysIn(w) \/ Leaves(w)) /\ \A v \in Worker \ {w} : pc'[v] = pc[v]
    BY <1>4 DEF IoError, Reopen, StaysIn, Leaves, Fail, EndAt, Goto, Inside, Outside,
       IInv, ControlOK
  <2> QED BY <2>1, LeaseMoves
<1>5. ASSUME NEW hosts, Forgotten(hosts)
      PROVE  Leased'
  BY <1>5 DEF Forgotten, Leased, Inside, Outside
<1>6. CASE \/ \E content \in Content \cup {Absent} : ExternalWrite(content)
           \/ Flush \/ DeleteProject
  BY <1>6 DEF ExternalWrite, Flush, DeleteProject, local, Leased, Inside
<1> QED
  BY <1>1, <1>2, <1>3, <1>4, <1>5, <1>6 DEF Next, Environment, Crash, PowerLoss

LEMMA InitLease == Init => Leased
BY DEF Init, Leased, Inside, Outside

\* Processes take turns when a service enters a request or a recovery only after
\* those of every other process have left theirs.  Nothing in the code makes them;
\* one process does by itself.
TakeTurns == \A v, w \in Worker : Inside(v) /\ Inside(w) => HostOf[v] = HostOf[w]

LEMMA OneProcessTakesTurns == OneProcess => TakeTurns
BY DEF OneProcess, TakeTurns

\* Among them, then, one service at a time is inside.
LEMMA Alone ==
    ASSUME TakeTurns, Leased, NEW v \in Worker, NEW w \in Worker, Inside(v), Inside(w)
    PROVE  v = w
BY DEF TakeTurns, Leased

-----------------------------------------------------------------------------
\* The last copy of the file, of processes that take turns.  It does not depend on the
\* database: where a service is inside an update says where a copy is.

OfUpdate == {"linkbackup", "droptarget", "rmbackup", "undo_linktarget", "undo_dropbackup"}
Copied == {"droptarget", "undo_rmtemp", "undo_linktemp", "undo_droptarget"}
InPlace == {"droptemp", "markreplaced", "refresh", "markindexed", "rmbackup",
            "undo_verify", "undo_dropbackup", "fwd_refresh", "fwd_read",
            "fwd_advance", "fwd_rmtemp", "fwd_rmbackup", "back_refresh",
            "absent_refresh", "back_rmtemp", "back_rmbackup", "rst_dropbackup"}

KindFits(label, j) ==
    /\ label \in Requesting => j.kind \in {"create", "update"}
    /\ label \in Requesting \cup Recovering => (j.kind = "create" <=> j.old = Absent)
    /\ label \in OfUpdate => j.kind = "update"
CopyFits(label, j, b, d) ==
    /\ label \in Copied => b[j.op] # Absent \/ j.kind = "create"
    /\ label \in InPlace => d # Absent \/ j.kind = "create"

CopyAt(w) == KindFits(pc[w], job[w]) /\ CopyFits(pc[w], job[w], bak, dest)
CopyInv == \A w \in Worker : CopyAt(w)

\* What a step of a service must do.
Copies(w) ==
    /\ CopyAt(w)'
    /\ Saved => Saved' \/ job[w].kind = "create"

LEMMA CommitCopies ==
    ASSUME IInv, CopyInv, NEW w \in Worker, CommitStep(w)
    PROVE  Copies(w)
<1>1. CopyAt(w) /\ (pc[w] \in Requesting => me(w) \in Op /\ job[w] \in Job)
  BY DEF CopyInv, IInv, ControlOK, JobFits, me
<1> USE <1>1 DEF CopyAt, KindFits, CopyFits, Copies, Saved, OfUpdate, Copied, InPlace,
       Requesting, Recovering, IInv, ControlOK, FilesOK, FileState, Mark, Try, Fail,
       EndAt, Goto, me, fs,
       NoJob, Updating
<1>2. CASE Begin(w)
  BY <1>2 DEF Begin
<1>3. CASE MakeParents(w)
  BY <1>3 DEF MakeParents, Job
<1>4. CASE OpenTemp(w)
  BY <1>4 DEF OpenTemp
<1>5. CASE FillTemp(w)
  BY <1>5 DEF FillTemp
<1>6. CASE Verify(w)
  BY <1>6 DEF Verify
<1>7. CASE LinkBackup(w)
  BY <1>7 DEF LinkBackup
<1>8. CASE DropTarget(w)
  BY <1>8 DEF DropTarget
<1>9. CASE MarkBackupReady(w) \/ MarkReplaced(w) \/ MarkIndexed(w) \/ MarkCommitted(w)
  BY <1>9 DEF MarkBackupReady, MarkReplaced, MarkIndexed, MarkCommitted
<1>10. CASE LinkTarget(w)
  BY <1>10 DEF LinkTarget
<1>11. CASE DropTemp(w)
  BY <1>11 DEF DropTemp
<1>12. CASE Refresh(w)
  BY <1>12 DEF Refresh
<1>13. CASE RemoveBackup(w)
  BY <1>13 DEF RemoveBackup
<1>14. CASE RemoveTemp(w)
  BY <1>14 DEF RemoveTemp
<1> QED
  BY <1>2, <1>3, <1>4, <1>5, <1>6, <1>7, <1>8, <1>9, <1>10, <1>11, <1>12, <1>13, <1>14
     DEF CommitStep

LEMMA UndoCopies ==
    ASSUME IInv, CopyInv, NEW w \in Worker, UndoStep(w)
    PROVE  Copies(w)
<1>1. CopyAt(w) /\ (pc[w] \in Requesting => me(w) \in Op /\ job[w] \in Job)
  BY DEF CopyInv, IInv, ControlOK, JobFits, me
<1> USE <1>1 DEF CopyAt, KindFits, CopyFits, Copies, Saved, OfUpdate, Copied, InPlace,
       Requesting, Recovering, IInv, ControlOK, FilesOK, Mark, Try, Fail,
       EndAt, Goto, me, fs,
       NoJob, Updating
<1>2. CASE UndoVerify(w)
  BY <1>2 DEF UndoVerify, Job
<1>3. CASE UndoRemoveTemp(w) \/ UndoLinkTemp(w)
  BY <1>3 DEF UndoRemoveTemp, UndoLinkTemp
<1>4. CASE UndoDropTarget(w)
  BY <1>4 DEF UndoDropTarget
<1>5. CASE UndoLinkTarget(w)
  BY <1>5 DEF UndoLinkTarget
<1>6. CASE UndoDropBackup(w)
  BY <1>6 DEF UndoDropBackup
<1>7. CASE UndoRefresh(w) \/ UndoClearTemp(w) \/ UndoRemoveDirectories(w) \/ UndoMark(w)
  BY <1>7 DEF UndoRefresh, UndoClearTemp, UndoRemoveDirectories, UndoMark
<1> QED
  BY <1>2, <1>3, <1>4, <1>5, <1>6, <1>7 DEF UndoStep

LEMMA RecoveryCopies ==
    ASSUME IInv, CopyInv, NEW w \in Worker, RecoveryStep(w)
    PROVE  Copies(w)
<1>1. CopyAt(w) /\ (pc[w] \in Recovering => me(w) \in Op /\ job[w] \in Job)
  BY DEF CopyInv, IInv, ControlOK, JobFits, me
<1> USE <1>1 DEF CopyAt, KindFits, CopyFits, Copies, Saved, OfUpdate, Copied, InPlace,
       Requesting, Recovering, IInv, ControlOK, FilesOK, Mark, Try, Fail,
       EndAt, Goto, me, fs,
       NoJob
<1>2. CASE ListIncomplete(w)
  <2>1. CASE job' = job /\ pc'[w] = "idle"
    BY <1>2, <2>1 DEF ListIncomplete
  <2>2. ASSUME NEW o \in Op, J!IsActive(o), job' = [job EXCEPT ![w] = Listed(o)]
        PROVE  job'[w].kind = "create" <=> job'[w].old = Absent
    <3>1. J!Exists(o)
      BY <2>2 DEF J!IsActive, J!Exists, J!NoRow, J!Active
    <3> QED
      BY <2>2, <3>1 DEF Listed, DataOK, RowsOK, J!HashesMatchKind, J!Exists
  <2> QED
    BY <1>2, <2>1, <2>2 DEF ListIncomplete, Listed
<1>3. CASE Inspect(w)
  BY <1>3 DEF Inspect
<1>4. CASE FwdRefresh(w) \/ FwdCommit(w) \/ FwdRemoveTemp(w)
  BY <1>4 DEF FwdRefresh, FwdCommit, FwdRemoveTemp
<1>5. CASE FwdRead(w) \/ BackRead(w) \/ FwdAdvance(w)
  BY <1>5 DEF FwdRead, BackRead, FwdAdvance, Job
<1>6. CASE FwdRemoveBackup(w)
  BY <1>6 DEF FwdRemoveBackup
<1>7. CASE BackRefresh(w) \/ BackRemoveTemp(w) \/ BackRemoveDirectories(w) \/ BackMark(w)
  BY <1>7 DEF BackRefresh, BackRemoveTemp, BackRemoveDirectories, BackMark
<1>8. CASE BackRemoveBackup(w)
  BY <1>8 DEF BackRemoveBackup
<1>9. CASE RestoreCheck(w) \/ RestoreLinkTarget(w)
  BY <1>9 DEF RestoreCheck, RestoreLinkTarget
<1>10. CASE RestoreDropBackup(w)
  BY <1>10 DEF RestoreDropBackup
<1>11. CASE RestoreRefresh(w) \/ RestoreRemoveTemp(w) \/ KeepConflict(w)
  BY <1>11 DEF RestoreRefresh, RestoreRemoveTemp, KeepConflict
<1> QED
  BY <1>2, <1>3, <1>4, <1>5, <1>6, <1>7, <1>8, <1>9, <1>10, <1>11 DEF RecoveryStep

\* A step from outside touches nothing but the service itself.
LEMMA OutsideStep ==
    ASSUME NEW w \in Worker, Step(w), ~Inside(w)
    PROVE  UNCHANGED <<fs, db>> /\ (ListIncomplete(w) \/ Inspect(w))
<1> USE DEF Inside, Outside
<1>1. ~CommitStep(w)
  BY DEF CommitStep, Begin, MakeParents, OpenTemp, FillTemp, Verify, LinkBackup,
     DropTarget, MarkBackupReady, LinkTarget, DropTemp, MarkReplaced, Refresh,
     MarkIndexed, RemoveBackup, RemoveTemp, MarkCommitted
<1>2. ~UndoStep(w)
  BY DEF UndoStep, UndoVerify, UndoRemoveTemp, UndoLinkTemp, UndoDropTarget,
     UndoLinkTarget, UndoDropBackup, UndoRefresh, UndoClearTemp,
     UndoRemoveDirectories, UndoMark
<1>3. RecoveryStep(w) => ListIncomplete(w) \/ Inspect(w)
  BY DEF RecoveryStep, ListIncomplete, Inspect, FwdRefresh, FwdRead, FwdAdvance,
     FwdRemoveTemp, FwdRemoveBackup, FwdCommit, BackRefresh, BackRemoveTemp,
     BackRemoveBackup, BackRemoveDirectories, BackRead, BackMark, RestoreCheck,
     RestoreLinkTarget, RestoreDropBackup, RestoreRefresh, RestoreRemoveTemp,
     KeepConflict
<1> QED
  BY <1>1, <1>2, <1>3 DEF Step, ListIncomplete, Inspect

LEMMA StepKeepsCopy ==
    ASSUME TakeTurns, IInv, Leased, CopyInv, NEW w \in Worker, Step(w)
    PROVE  CopyInv' /\ Copies(w)
<1>1. Copies(w)
  BY CommitCopies, UndoCopies, RecoveryCopies DEF Step
<1>2. ASSUME NEW v \in Worker, v # w
      PROVE  CopyAt(v)'
  <2>1. pc'[v] = pc[v] /\ job'[v] = job[v] /\ CopyAt(v)
    BY <1>2, StepControl DEF Control, IInv, ControlOK, CopyInv
  <2>2. CASE Inside(v)
    <3>1. UNCHANGED <<dest, bak>>
      BY <1>2, <2>2, Alone, OutsideStep DEF fs
    <3> QED BY <2>1, <3>1 DEF CopyAt
  <2>3. CASE ~Inside(v)
    BY <2>1, <2>3 DEF CopyAt, KindFits, CopyFits, Inside, Outside, Copied, InPlace
  <2> QED BY <2>2, <2>3
<1> QED
  BY <1>1, <1>2 DEF Copies, CopyInv

LEMMA NextKeepsCopy ==
    ASSUME TakeTurns, MaxWrite = 0, IInv, Leased, CopyInv, [Next]_vars
    PROVE  CopyInv' /\ (Saved => Saved' \/ \E w \in Worker : job[w].kind = "create")
<1> USE DEF CopyInv, CopyAt
<1>1. CASE UNCHANGED vars
  BY <1>1 DEF vars, fs, local, Saved
<1>2. ASSUME NEW w \in Worker, Step(w)
      PROVE  CopyInv' /\ (Saved => Saved' \/ job[w].kind = "create")
  BY <1>2, StepKeepsCopy DEF Copies
<1>3. ASSUME NEW w \in Worker, Request(w)
      PROVE  CopyInv' /\ (Saved => Saved')
  <2>1. UNCHANGED <<dest, bak>> /\ pc' = [pc EXCEPT ![w] = "begin"]
    BY <1>3 DEF Request, PrepareEdit, PrepareCreate, Goto, fs
  <2>2. CopyAt(w)'
    <3>1. pc'[w] = "begin"
      BY <2>1 DEF IInv, ControlOK
    <3>2. \/ job'[w].kind = "update" /\ job'[w].old # Absent
          \/ job'[w].kind = "create" /\ job'[w].old = Absent
      <4>1. ASSUME NEW o \in Op, NEW new \in Content, PrepareEdit(w, o, new)
            PROVE  job'[w].kind = "update" /\ job'[w].old # Absent
        BY <4>1 DEF PrepareEdit, NoJob, IInv, ControlOK
      <4>2. ASSUME NEW o \in Op, NEW new \in Content, NEW mkdirs, PrepareCreate(w, o, new, mkdirs)
            PROVE  job'[w].kind = "create" /\ job'[w].old = Absent
        BY <4>2 DEF PrepareCreate, NoJob, IInv, ControlOK
      <4> QED BY <1>3, <4>1, <4>2 DEF Request
    <3> QED
      BY <3>1, <3>2 DEF KindFits, CopyFits, OfUpdate, Copied, InPlace, Requesting, Recovering
  <2>3. \A v \in Worker \ {w} : pc'[v] = pc[v] /\ job'[v] = job[v]
    BY <1>3 DEF Request, PrepareEdit, PrepareCreate, Goto, IInv, ControlOK
  <2> QED BY <2>1, <2>2, <2>3 DEF Saved
<1>4. ASSUME NEW w \in Worker, IoError(w) \/ Reopen(w)
      PROVE  CopyInv' /\ (Saved => Saved')
  <2>1. UNCHANGED fs
    BY <1>4 DEF IoError, Reopen
  <2>2. \A v \in Worker \ {w} : pc'[v] = pc[v] /\ job'[v] = job[v]
    BY <1>4 DEF IoError, Reopen, Fail, EndAt, Goto, IInv, ControlOK
  <2>3. \/ pc[w] = "refresh" /\ pc'[w] = "undo_verify" /\ job'[w] = job[w]
        \/ pc'[w] \in {"idle", "refused", "start"}
    BY <1>4 DEF IoError, Reopen, Fail, EndAt, Goto, IInv, ControlOK
  <2>4. CopyAt(w)'
    <3>1. CASE pc[w] = "refresh" /\ pc'[w] = "undo_verify" /\ job'[w] = job[w]
      BY <2>1, <3>1 DEF fs, KindFits, CopyFits, OfUpdate, Copied, InPlace, Requesting, Recovering
    <3>2. CASE pc'[w] \in {"idle", "refused", "start"}
      BY <3>2 DEF KindFits, CopyFits, OfUpdate, Copied, InPlace, Requesting, Recovering
    <3> QED BY <2>3, <3>1, <3>2
  <2> QED BY <2>1, <2>2, <2>4 DEF Saved, fs
<1>5. ASSUME NEW hosts, Forgotten(hosts), UNCHANGED fs
      PROVE  CopyInv' /\ (Saved => Saved')
  <2>1. \A v \in Worker : (pc'[v] = pc[v] /\ job'[v] = job[v]) \/ pc'[v] = "start"
    BY <1>5 DEF Forgotten
  <2> QED
    BY <1>5, <2>1 DEF fs, Saved, KindFits, CopyFits, OfUpdate, Copied, InPlace,
         Requesting, Recovering
<1>6. CASE Flush \/ DeleteProject
  BY <1>6 DEF Flush, DeleteProject, fs, local, Saved
<1>7. ASSUME NEW content, ExternalWrite(content)
      PROVE  FALSE
  BY <1>7 DEF ExternalWrite, IInv, EnvOK
<1> QED
  BY <1>1, <1>2, <1>3, <1>4, <1>5, <1>6, <1>7 DEF Next, Environment, Crash, PowerLoss

\* Where processes take turns and nobody writes past them, no update and no recovery
\* destroys the last copy of the file, whatever the database loses to power failures
\* and to the deletion of the project.
THEOREM LastCopyIsKeptInTurns ==
    ASSUME MaxWrite = 0
    PROVE  Spec /\ []TakeTurns => LastCopyKept
<1>1. Init => CopyInv
  <2> SUFFICES ASSUME Init, NEW w \in Worker PROVE CopyAt(w)
    BY DEF CopyInv
  <2>1. pc[w] \in {"start", "idle"}
    BY DEF Init
  <2> QED
    BY <2>1 DEF CopyAt, KindFits, CopyFits, OfUpdate, Copied, InPlace, Requesting, Recovering
<1>2. TakeTurns /\ IInv /\ Leased /\ CopyInv /\ [Next]_vars => CopyInv'
  BY NextKeepsCopy
<1>3. TakeTurns /\ IInv /\ Leased /\ CopyInv /\ [Next]_vars
      => [Saved => Saved' \/ \E w \in Worker : job[w].kind = "create"]_vars
  BY NextKeepsCopy
<1>4. IInv /\ Leased /\ [Next]_vars => Leased'
  BY NextKeepsLease
<1> QED
  BY <1>1, <1>2, <1>3, <1>4, InitLease, InvariantHolds, PTL DEF Spec, LastCopyKept

\* In one process, then, no update and no recovery destroys the last copy of the file.
THEOREM LastCopyIsKept ==
    ASSUME OneProcess, MaxWrite = 0
    PROVE  Spec => LastCopyKept
BY LastCopyIsKeptInTurns, OneProcessTakesTurns, PTL

-----------------------------------------------------------------------------
\* Rows and what is left of files beside the target, without power losses.

InPrepared == {"mkdirs", "opentemp", "filltemp", "verify", "linkbackup",
               "droptarget", "markbackup"}
InBackupReady == {"linktarget", "droptemp", "markreplaced"}
InReplaced == {"refresh", "markindexed", "undo_verify", "undo_rmtemp",
               "undo_linktemp", "undo_droptarget", "undo_linktarget",
               "undo_dropbackup", "undo_refresh", "undo_cleartemp",
               "undo_rmdirs", "undo_mark"}
InIndexed == {"rmbackup", "rmtemp", "markcommitted", "fwd_rmtemp",
              "fwd_rmbackup", "fwd_commit"}
InActive == {"fwd_advance", "rst_linktarget", "rst_dropbackup", "rst_refresh",
             "rst_rmtemp"}
NoTemp == {"undo_rmdirs", "undo_mark", "markcommitted", "fwd_rmbackup",
           "fwd_commit", "back_rmbackup", "back_rmdirs", "back_read", "back_mark"}
NoBackup == {"rmtemp", "markcommitted", "undo_refresh", "undo_cleartemp",
             "undo_rmdirs", "undo_mark", "fwd_commit", "back_rmdirs",
             "back_read", "back_mark", "rst_refresh", "rst_rmtemp"}

\* A service that is inside an operation knows the row of it.
JobIsRow(w) ==
    /\ pc[w] \in Begun \cup Recovering =>
         /\ J!Exists(me(w))
         /\ Row(w).kind = job[w].kind /\ Row(w).old = job[w].old /\ Row(w).new = job[w].new
    /\ pc[w] \in PhaseRead => Row(w).phase = job[w].phase
    /\ pc[w] \in OfUpdate => job[w].kind = "update"
    /\ pc[w] = "undo_rmdirs" => job[w].kind = "create"
    /\ pc[w] \in {"rst_check", "back_refresh"} => job[w].old # Absent
    /\ pc[w] = "absent_refresh" => job[w].old = Absent

\* Its place says which phase the row is in,
PhaseAt(w) ==
    /\ pc[w] \in InPrepared => Row(w).phase = "prepared"
    /\ pc[w] \in InBackupReady => Row(w).phase = "backup_ready"
    /\ pc[w] \in InReplaced => Row(w).phase = "replaced"
    /\ pc[w] \in InIndexed => Row(w).phase = "indexed"
    /\ pc[w] \in InActive => J!IsActive(me(w))

\* and which of the operation's files are removed.
Cleared(w) ==
    /\ pc[w] \in NoTemp => temp[me(w)] = Absent
    /\ pc[w] \in NoBackup => bak[me(w)] = Absent

Planned(plan) ==
    /\ plan.kind \in {"create", "update"} /\ plan.new \in Content /\ plan.old # plan.new
    /\ plan.parents => plan.kind = "create"
PlannedJobs == \A w \in Worker : pc[w] = "begin" => Planned(job[w])
PlannedRows == \A o \in Op : J!Exists(o) => Planned(journal[o])
OneActive == \A o, p \in Op : J!IsActive(o) /\ J!IsActive(p) => o = p

\* Only an open operation has files beside the target, and a creation no backup.
Tidy(o) ==
    /\ ~J!IsActive(o) => temp[o] = Absent /\ bak[o] = Absent
    /\ J!Exists(o) /\ journal[o].kind = "create" => bak[o] = Absent

ServedRow(w) == JobIsRow(w) /\ PhaseAt(w) /\ Cleared(w)

RowInv ==
    /\ PlannedJobs
    /\ idx = NoProject => \A o \in Op : ~J!Exists(o)
    /\ idx # NoProject =>
         /\ PlannedRows /\ OneActive
         /\ \A o \in Op : Tidy(o)
         /\ \A w \in Worker : ServedRow(w)

\* A place outside every operation.
Ended(w) == pc'[w] \in {"start", "idle", "refused"}

LEMMA EndServesRow ==
    ASSUME NEW w \in Worker, Ended(w)
    PROVE  ServedRow(w)'
BY DEF Ended, ServedRow, JobIsRow, PhaseAt, Cleared, InPrepared, InBackupReady,
       InReplaced, InIndexed, InActive, NoTemp, NoBackup, OfUpdate, PhaseRead, Begun,
       Requesting, Recovering

\* A move that keeps the job and the row: the new place may claim no more about
\* the row than the old one,
RowEdge(from, to) ==
    /\ to \in Begun \cup Recovering => from \in Begun \cup Recovering
    /\ to \in PhaseRead => from \in PhaseRead
    /\ to \in InPrepared => from \in InPrepared
    /\ to \in InBackupReady => from \in InBackupReady
    /\ to \in InReplaced => from \in InReplaced
    /\ to \in InIndexed => from \in InIndexed
    /\ to \in InActive => from \in InActive
    /\ to \notin {"rst_check", "back_refresh", "absent_refresh"}

\* and of the kind and of the files only what is so.
Claims(w, to) ==
    /\ to \in OfUpdate => job[w].kind = "update"
    /\ to = "undo_rmdirs" => job[w].kind = "create"
    /\ to \in NoTemp => temp'[me(w)] = Absent
    /\ to \in NoBackup => bak'[me(w)] = Absent

LEMMA GotoServesRow ==
    ASSUME IInv, NEW w \in Worker, ServedRow(w), UNCHANGED <<journal, job>>,
           NEW to, RowEdge(pc[w], to), Claims(w, to), Goto(w, to)
    PROVE  ServedRow(w)'
<1> USE DEF ServedRow, me, Row
<1>0. pc'[w] = to /\ me(w)' = me(w) /\ job'[w] = job[w] /\ Row(w)' = Row(w)
  BY DEF Goto, IInv, ControlOK
<1>1. JobIsRow(w)'
  BY <1>0 DEF JobIsRow, J!Exists, RowEdge, Claims
<1>2. PhaseAt(w)'
  BY <1>0 DEF PhaseAt, J!IsActive, RowEdge
<1>3. Cleared(w)'
  BY <1>0 DEF Cleared, Claims
<1> QED
  BY <1>1, <1>2, <1>3

LEMMA FailServesRow ==
    ASSUME IInv, NEW w \in Worker, Fail(w) \/ EndAt(w, "idle")
    PROVE  ServedRow(w)'
<1>1. Ended(w)
  BY DEF Fail, EndAt, Goto, Ended, IInv, ControlOK
<1> QED BY <1>1, EndServesRow

LEMMA TryServesRow ==
    ASSUME IInv, NEW w \in Worker, ServedRow(w), UNCHANGED journal, NEW granted,
           NEW to, RowEdge(pc[w], to), granted => Claims(w, to), Try(w, granted, to)
    PROVE  ServedRow(w)'
BY GotoServesRow, FailServesRow DEF Try

\* A transition that is accepted moves the row to the phase the new place says.
PhaseEdge(from, phase, to) ==
    /\ to \in (Begun \cup Recovering) \ PhaseRead
    /\ from \in Begun \cup Recovering
    /\ phase \in J!Active
    /\ to \in InPrepared => phase = "prepared"
    /\ to \in InBackupReady => phase = "backup_ready"
    /\ to \in InReplaced => phase = "replaced"
    /\ to \in InIndexed => phase = "indexed"
    /\ to \notin {"rst_check", "back_refresh", "absent_refresh"}

LEMMA MarkServesRow ==
    ASSUME IInv, NEW w \in Worker, ServedRow(w), me(w) \in Op,
           NEW expected, NEW phase, NEW to, PhaseEdge(pc[w], phase, to), Claims(w, to),
           Mark(w, expected, phase, to)
    PROVE  ServedRow(w)'
<1>1. CASE Fail(w)
  BY <1>1, FailServesRow
<1>2. CASE /\ J!TransitionEditOperation(me(w), expected, phase)
           /\ Goto(w, to) /\ UNCHANGED <<lease, job>>
  <2>1. pc'[w] = to /\ me(w)' = me(w) /\ job'[w] = job[w]
    BY <1>2 DEF Goto, IInv, ControlOK, me
  <2>2. journal[me(w)] \in J!Row
    BY <1>2 DEF J!TransitionEditOperation, J!TransitionAccepted, J!Exists, IInv, DataOK, RowsOK
  <2>3. journal'[me(w)] = [journal[me(w)] EXCEPT !.phase = phase]
    BY <1>2 DEF J!TransitionEditOperation, IInv, DataOK, RowsOK
  <2>4. /\ journal'[me(w)].phase = phase
        /\ journal'[me(w)].kind = Row(w).kind /\ journal'[me(w)].old = Row(w).old
        /\ journal'[me(w)].new = Row(w).new
    BY <2>2, <2>3 DEF J!Row, Row
  <2>5. phase # "none" /\ J!NoRow.phase = "none"
    BY DEF PhaseEdge, J!Active, J!NoRow
  <2>6. JobIsRow(w)'
    BY <2>1, <2>4, <2>5 DEF JobIsRow, ServedRow, PhaseEdge, Claims, J!Exists, Row
  <2>7. PhaseAt(w)'
    BY <2>1, <2>4 DEF PhaseAt, PhaseEdge, J!IsActive, Row
  <2>8. Cleared(w)'
    BY <2>1 DEF Cleared, Claims
  <2> QED
    BY <2>6, <2>7, <2>8 DEF ServedRow
<1> QED
  BY <1>1, <1>2 DEF Mark, PhaseEdge, J!Active, J!Terminal

LEMMA BeginServesRow ==
    ASSUME IInv, RowInv, idx # NoProject, NEW w \in Worker, Begin(w)
    PROVE  ServedRow(w)'
<1>1. CASE EndAt(w, "idle")
  BY <1>1, FailServesRow
<1>2. CASE /\ J!CreateEditOperation(me(w), NewRow(w))
           /\ Goto(w, IF job[w].mkdirs THEN "mkdirs" ELSE "opentemp")
           /\ UNCHANGED <<lease, job>>
  <2>1. me(w) \in Op
    BY DEF Begin, IInv, ControlOK, JobFits, me, Requesting
  <2>2. pc'[w] \in {"mkdirs", "opentemp"} /\ me(w)' = me(w) /\ job'[w] = job[w]
    BY <1>2 DEF Goto, IInv, ControlOK, me
  <2>3. journal'[me(w)] = NewRow(w)
    BY <1>2, <2>1 DEF J!CreateEditOperation, IInv, DataOK, RowsOK
  <2>4. /\ journal'[me(w)].phase = "prepared" /\ journal'[me(w)].kind = job[w].kind
        /\ journal'[me(w)].old = job[w].old /\ journal'[me(w)].new = job[w].new
    BY <2>3 DEF NewRow
  <2>5. J!NoRow.phase = "none"
    BY DEF J!NoRow
  <2> QED
    BY <2>2, <2>4, <2>5 DEF ServedRow, JobIsRow, PhaseAt, Cleared, InPrepared,
       InBackupReady, InReplaced, InIndexed, InActive, NoTemp, NoBackup, OfUpdate,
       PhaseRead, J!Exists, Row
<1> QED
  BY <1>1, <1>2 DEF Begin, NewRow

LEMMA MakeParentsServesRow ==
    ASSUME IInv, NEW w \in Worker, ServedRow(w), MakeParents(w)
    PROVE  ServedRow(w)'
<1>1. CASE Fail(w)
  BY <1>1, FailServesRow
<1>2. CASE /\ job' = [job EXCEPT ![w].mkdirs = FALSE, ![w].parents = ~parent]
           /\ Goto(w, "opentemp")
  <2>1. job[w] \in Job /\ pc[w] = "mkdirs"
    BY DEF MakeParents, IInv, ControlOK, JobFits
  <2>2. /\ pc'[w] = "opentemp" /\ me(w)' = me(w) /\ journal' = journal
        /\ job'[w].kind = job[w].kind /\ job'[w].old = job[w].old /\ job'[w].new = job[w].new
    BY <1>2, <2>1 DEF Goto, IInv, ControlOK, me, Job, MakeParents, db
  <2> QED
    BY <2>1, <2>2 DEF ServedRow, JobIsRow, PhaseAt, Cleared, InPrepared,
       InBackupReady, InReplaced, InIndexed, InActive, NoTemp, NoBackup, OfUpdate,
       PhaseRead, J!Exists, Row, Begun, Requesting
<1> QED
  BY <1>1, <1>2 DEF MakeParents

LEMMA CommitServesRow ==
    ASSUME IInv, RowInv, idx # NoProject, NEW w \in Worker, CommitStep(w)
    PROVE  ServedRow(w)'
<1>0. ServedRow(w) /\ (pc[w] \in Requesting => me(w) \in Op /\ job[w] \in Job)
  BY DEF RowInv, IInv, ControlOK, JobFits, me
<1>1. FilesOK
  BY DEF IInv
<1> USE DEF RowEdge, PhaseEdge, Claims, InPrepared, InBackupReady, InReplaced, InIndexed,
       InActive, NoTemp, NoBackup, OfUpdate, PhaseRead, Begun, Requesting, Recovering
<1>2. CASE Begin(w)
  BY <1>2, BeginServesRow
<1>3. CASE MakeParents(w)
  BY <1>0, <1>3, MakeParentsServesRow
<1>4. CASE OpenTemp(w)
  BY <1>0, <1>4, TryServesRow DEF OpenTemp, db
<1>5. CASE FillTemp(w)
  BY <1>0, <1>5, GotoServesRow DEF FillTemp, db
<1>6. CASE Verify(w)
  BY <1>0, <1>6, TryServesRow DEF Verify, Updating, db
<1>7. CASE LinkBackup(w)
  BY <1>0, <1>7, TryServesRow DEF LinkBackup, db, ServedRow, JobIsRow
<1>8. CASE DropTarget(w)
  BY <1>0, <1>8, TryServesRow DEF DropTarget, db
<1>9. CASE MarkBackupReady(w)
  BY <1>0, <1>9, MarkServesRow DEF MarkBackupReady, J!Active
<1>10. CASE LinkTarget(w)
  BY <1>0, <1>10, TryServesRow DEF LinkTarget, db
<1>11. CASE DropTemp(w)
  BY <1>0, <1>11, TryServesRow DEF DropTemp, db
<1>12. CASE MarkReplaced(w)
  BY <1>0, <1>12, MarkServesRow DEF MarkReplaced, J!Active
<1>13. CASE Refresh(w)
  BY <1>0, <1>13, GotoServesRow DEF Refresh
<1>14. CASE MarkIndexed(w)
  <2>1. CASE Updating(w)
    BY <1>0, <1>14, <2>1, MarkServesRow DEF MarkIndexed, Updating, J!Active
  <2>2. CASE ~Updating(w)
    <3>1. bak'[me(w)] = Absent
      <4>1. job[w].kind = "create" /\ J!Exists(me(w)) /\ Row(w).kind = "create"
        BY <1>0, <1>14, <2>2 DEF MarkIndexed, ServedRow, JobIsRow, RowInv, PlannedRows,
           Planned, Updating, Row
      <4> QED BY <1>0, <1>14, <4>1 DEF MarkIndexed, RowInv, Tidy, Row, fs
    <3> QED
      BY <1>0, <1>14, <2>2, <3>1, MarkServesRow DEF MarkIndexed, Updating, J!Active
  <2> QED BY <2>1, <2>2
<1>15. CASE RemoveBackup(w)
  BY <1>0, <1>1, <1>15, GotoServesRow DEF RemoveBackup, FilesOK, db
<1>16. CASE RemoveTemp(w)
  BY <1>0, <1>1, <1>16, TryServesRow DEF RemoveTemp, FilesOK, db, Cleared, ServedRow
<1>17. CASE MarkCommitted(w)
  BY <1>17, FailServesRow DEF MarkCommitted, Mark, J!Terminal
<1> QED
  BY <1>2, <1>3, <1>4, <1>5, <1>6, <1>7, <1>8, <1>9, <1>10, <1>11, <1>12, <1>13,
     <1>14, <1>15, <1>16, <1>17 DEF CommitStep

\* A place where only the phase is noted.
LEMMA NoteServesRow ==
    ASSUME IInv, NEW w \in Worker, ServedRow(w), UNCHANGED journal,
           job' = [job EXCEPT ![w].phase = Row(w).phase],
           NEW to, to \in {"undo_rmtemp", "fwd_advance", "back_mark"}, Goto(w, to),
           pc[w] \in Begun \cup Recovering,
           to = "undo_rmtemp" => pc[w] \in InReplaced,
           to = "fwd_advance" => J!IsActive(me(w)),
           to = "back_mark" => pc[w] = "back_read" /\ UNCHANGED <<temp, bak>>
    PROVE  ServedRow(w)'
<1>0. pc'[w] = to /\ me(w)' = me(w) /\ job[w] \in Job
  BY DEF Goto, IInv, ControlOK, JobFits, me, Job
<1>1. /\ job'[w].phase = Row(w).phase /\ job'[w].kind = job[w].kind
      /\ job'[w].old = job[w].old /\ job'[w].new = job[w].new
  BY <1>0 DEF IInv, ControlOK, Job
<1>2. Row(w)' = Row(w)
  BY <1>0 DEF Row
<1>3. JobIsRow(w)'
  BY <1>0, <1>1, <1>2 DEF ServedRow, JobIsRow, J!Exists, Row, OfUpdate
<1>4. PhaseAt(w)' /\ Cleared(w)'
  BY <1>0, <1>2 DEF ServedRow, PhaseAt, Cleared, InPrepared, InBackupReady, InReplaced,
     InIndexed, InActive, NoTemp, NoBackup, J!IsActive, Row
<1> QED
  BY <1>3, <1>4 DEF ServedRow

LEMMA UndoServesRow ==
    ASSUME IInv, RowInv, idx # NoProject, NEW w \in Worker, UndoStep(w)
    PROVE  ServedRow(w)'
<1>0. ServedRow(w) /\ (pc[w] \in Requesting => me(w) \in Op /\ job[w] \in Job)
  BY DEF RowInv, IInv, ControlOK, JobFits, me
<1>1. FilesOK
  BY DEF IInv
<1> USE DEF RowEdge, PhaseEdge, Claims, InPrepared, InBackupReady, InReplaced, InIndexed,
       InActive, NoTemp, NoBackup, OfUpdate, PhaseRead, Begun, Requesting, Recovering
<1>2. CASE UndoVerify(w)
  <2>1. CASE Fail(w)
    BY <2>1, FailServesRow
  <2>2. CASE job' = [job EXCEPT ![w].phase = Row(w).phase] /\ Goto(w, "undo_rmtemp")
    BY <1>0, <1>2, <2>2, NoteServesRow DEF UndoVerify, db
  <2> QED BY <1>2, <2>1, <2>2 DEF UndoVerify
<1>3. CASE UndoRemoveTemp(w)
  BY <1>0, <1>1, <1>3, GotoServesRow DEF UndoRemoveTemp, db
<1>4. CASE UndoLinkTemp(w)
  BY <1>0, <1>4, TryServesRow DEF UndoLinkTemp, db
<1>5. CASE UndoDropTarget(w)
  <2>1. ~Updating(w) => bak'[me(w)] = Absent
    <3>1. ~Updating(w) => J!Exists(me(w)) /\ Row(w).kind = "create"
      BY <1>0, <1>5 DEF UndoDropTarget, ServedRow, JobIsRow, RowInv, PlannedRows,
         Planned, Updating, Row
    <3> QED BY <1>0, <1>5, <3>1 DEF UndoDropTarget, RowInv, Tidy, Row
  <2>2. CASE Updating(w)
    BY <1>0, <1>5, <2>2, TryServesRow DEF UndoDropTarget, Updating, db
  <2>3. CASE ~Updating(w)
    BY <1>0, <1>5, <2>1, <2>3, TryServesRow DEF UndoDropTarget, Updating, db
  <2> QED BY <2>2, <2>3
<1>6. CASE UndoLinkTarget(w)
  BY <1>0, <1>6, TryServesRow DEF UndoLinkTarget, db, ServedRow, JobIsRow
<1>7. CASE UndoDropBackup(w)
  BY <1>0, <1>1, <1>7, TryServesRow DEF UndoDropBackup, FilesOK, db
<1>8. CASE UndoRefresh(w)
  BY <1>0, <1>8, TryServesRow DEF UndoRefresh, ServedRow, Cleared, fs
<1>9. CASE UndoClearTemp(w)
  <2>1. ~Updating(w) => job[w].kind = "create"
    BY <1>0, <1>9 DEF UndoClearTemp, ServedRow, JobIsRow, RowInv, PlannedRows,
       Planned, Updating, Row
  <2>2. Claims(w, IF Updating(w) THEN "undo_mark" ELSE "undo_rmdirs")
    BY <1>0, <1>1, <1>9, <2>1 DEF UndoClearTemp, FilesOK, ServedRow, Cleared
  <2> QED
    BY <1>0, <1>9, <2>2, GotoServesRow DEF UndoClearTemp, db
<1>10. CASE UndoRemoveDirectories(w)
  BY <1>0, <1>10, GotoServesRow DEF UndoRemoveDirectories, db, ServedRow, Cleared
<1>11. CASE UndoMark(w)
  BY <1>11, FailServesRow DEF UndoMark, Mark, J!Terminal
<1> QED
  BY <1>2, <1>3, <1>4, <1>5, <1>6, <1>7, <1>8, <1>9, <1>10, <1>11 DEF UndoStep

LEMMA RecoveryServesRow ==
    ASSUME IInv, RowInv, idx # NoProject, NEW w \in Worker, RecoveryStep(w)
    PROVE  ServedRow(w)'
<1>0. ServedRow(w) /\ (pc[w] \in Recovering => me(w) \in Op /\ job[w] \in Job)
  BY DEF RowInv, IInv, ControlOK, JobFits, me
<1>1. FilesOK
  BY DEF IInv
<1> USE DEF RowEdge, PhaseEdge, Claims, InPrepared, InBackupReady, InReplaced, InIndexed,
       InActive, NoTemp, NoBackup, OfUpdate, PhaseRead, Begun, Requesting, Recovering
<1>2. CASE ListIncomplete(w)
  <2>1. CASE Goto(w, "idle")
    BY <2>1, EndServesRow DEF Ended, Goto, IInv, ControlOK
  <2>2. ASSUME NEW o \in Op, J!IsActive(o), job' = [job EXCEPT ![w] = Listed(o)],
               Goto(w, "rec_inspect")
        PROVE  ServedRow(w)'
    <3>1. pc'[w] = "rec_inspect" /\ job'[w] = Listed(o) /\ journal' = journal
      BY <1>2, <2>2 DEF ListIncomplete, Goto, db, IInv, ControlOK
    <3>2. J!Exists(o)
      BY <2>2 DEF J!IsActive, J!Exists, J!NoRow, J!Active
    <3>3. /\ me(w)' = o /\ job'[w].kind = journal[o].kind
          /\ job'[w].old = journal[o].old /\ job'[w].new = journal[o].new
      BY <3>1 DEF me, Listed, NoJob
    <3> QED
      BY <3>1, <3>2, <3>3 DEF ServedRow, JobIsRow, PhaseAt, Cleared, J!Exists, Row
  <2> QED BY <1>2, <2>1, <2>2 DEF ListIncomplete, Listed
<1>3. CASE Inspect(w)
  <2>1. CASE Fail(w)
    BY <2>1, FailServesRow
  <2>2. CASE /\ pc'[w] \in {"fwd_refresh", "back_refresh", "absent_refresh", "rst_check",
                            "ext_refresh"}
             /\ pc'[w] \in {"rst_check", "back_refresh"} => job[w].old # Absent
             /\ pc'[w] = "absent_refresh" => job[w].old = Absent
             /\ job' = job /\ journal' = journal
    <3>1. me(w)' = me(w) /\ Row(w)' = Row(w)
      BY <2>2 DEF me, Row
    <3> QED
      BY <1>0, <1>3, <2>2, <3>1 DEF Inspect, ServedRow, JobIsRow, PhaseAt, Cleared,
         J!Exists, Row
  <2> QED BY <1>3, <2>1, <2>2 DEF Inspect, Goto, db, IInv, ControlOK
<1>4. CASE FwdRefresh(w)
  BY <1>0, <1>4, TryServesRow DEF FwdRefresh
<1>5. CASE FwdRead(w)
  <2>1. CASE Fail(w)
    BY <2>1, FailServesRow
  <2>2. CASE /\ job' = [job EXCEPT ![w].phase = Row(w).phase] /\ Goto(w, "fwd_advance")
             /\ J!IsActive(me(w))
    BY <1>0, <1>5, <2>2, NoteServesRow DEF FwdRead, db
  <2> QED BY <1>5, <2>1, <2>2 DEF FwdRead
<1>6. CASE FwdAdvance(w)
  <2> DEFINE next == NextPhase[job[w].phase]
  <2>0. JobFits(pc[w], job[w]) /\ pc[w] = "fwd_advance"
    BY <1>6 DEF FwdAdvance, IInv, ControlOK
  <2>1. CASE Fail(w)
    BY <2>1, FailServesRow
  <2>2. CASE job[w].phase = "indexed" /\ Goto(w, "fwd_rmtemp") /\ UNCHANGED <<journal, job>>
    <3>1. pc'[w] = "fwd_rmtemp" /\ me(w)' = me(w) /\ Row(w)' = Row(w)
      BY <2>2 DEF Goto, IInv, ControlOK, me, Row
    <3> QED
      BY <1>0, <2>0, <2>2, <3>1 DEF ServedRow, JobIsRow, PhaseAt, Cleared, J!Exists, Row
  <2>3. CASE /\ job[w].phase # "indexed"
             /\ J!TransitionEditOperation(me(w), job[w].phase, next)
             /\ job' = [job EXCEPT ![w].phase = next] /\ UNCHANGED pc
    <3>1. job[w].phase \in {"prepared", "backup_ready", "replaced"}
      BY <2>0, <2>3 DEF JobFits, J!Active
    <3>2. next \in J!Active
      BY <3>1 DEF NextPhase, J!Active
    <3>3. journal[me(w)] \in J!Row /\ me(w) \in Op
      BY <1>0, <2>0, <2>3 DEF J!TransitionEditOperation, J!TransitionAccepted, J!Exists,
         IInv, DataOK, RowsOK
    <3>4. journal'[me(w)] = [journal[me(w)] EXCEPT !.phase = next]
      BY <2>3, <3>3 DEF J!TransitionEditOperation, IInv, DataOK, RowsOK
    <3>5. /\ journal'[me(w)].phase = next /\ journal'[me(w)].kind = Row(w).kind
          /\ journal'[me(w)].old = Row(w).old /\ journal'[me(w)].new = Row(w).new
      BY <3>3, <3>4 DEF J!Row, Row
    <3>6. /\ me(w)' = me(w) /\ job'[w].phase = next /\ job'[w].kind = job[w].kind
          /\ job'[w].old = job[w].old /\ job'[w].new = job[w].new
      BY <1>0, <2>0, <2>3 DEF IInv, ControlOK, Job, me
    <3>7. next # "none" /\ J!NoRow.phase = "none"
      BY <3>2 DEF J!Active, J!NoRow
    <3> QED
      BY <1>0, <2>0, <2>3, <3>2, <3>5, <3>6, <3>7 DEF ServedRow, JobIsRow, PhaseAt,
         Cleared, J!Exists, J!IsActive, Row
  <2> QED BY <1>6, <2>1, <2>2, <2>3 DEF FwdAdvance
<1>7. CASE FwdRemoveTemp(w)
  BY <1>0, <1>1, <1>7, GotoServesRow DEF FwdRemoveTemp, FilesOK, db
<1>8. CASE FwdRemoveBackup(w)
  BY <1>0, <1>1, <1>8, TryServesRow DEF FwdRemoveBackup, FilesOK, db, ServedRow, Cleared
<1>9. CASE FwdCommit(w) \/ BackMark(w)
  BY <1>9, FailServesRow DEF FwdCommit, BackMark, Mark, J!Terminal
<1>10. CASE BackRefresh(w)
  BY <1>0, <1>10, TryServesRow DEF BackRefresh
<1>11. CASE BackRemoveTemp(w)
  BY <1>0, <1>1, <1>11, GotoServesRow DEF BackRemoveTemp, FilesOK, db
<1>12. CASE BackRemoveBackup(w)
  BY <1>0, <1>1, <1>12, GotoServesRow DEF BackRemoveBackup, FilesOK, db, ServedRow, Cleared
<1>13. CASE BackRemoveDirectories(w)
  BY <1>0, <1>13, GotoServesRow DEF BackRemoveDirectories, db, ServedRow, Cleared
<1>14. CASE BackRead(w)
  <2>1. CASE Fail(w) \/ EndAt(w, "idle")
    BY <2>1, FailServesRow
  <2>2. CASE job' = [job EXCEPT ![w].phase = Row(w).phase] /\ Goto(w, "back_mark")
    BY <1>0, <1>14, <2>2, NoteServesRow DEF BackRead, db, fs
  <2> QED BY <1>14, <2>1, <2>2 DEF BackRead
<1>15. CASE RestoreCheck(w)
  <2>1. CASE Fail(w)
    BY <2>1, FailServesRow
  <2>2. CASE bak[me(w)] = job[w].old /\ Goto(w, "rst_linktarget") /\ UNCHANGED job
    <3>1. J!IsActive(me(w))
      BY <1>0, <1>15, <2>2 DEF RestoreCheck, ServedRow, JobIsRow, RowInv, Tidy
    <3>2. pc'[w] = "rst_linktarget" /\ me(w)' = me(w) /\ Row(w)' = Row(w) /\ journal' = journal
      BY <1>15, <2>2 DEF RestoreCheck, Goto, db, IInv, ControlOK, me, Row
    <3> QED
      BY <1>0, <1>15, <2>2, <3>1, <3>2 DEF RestoreCheck, ServedRow, JobIsRow, PhaseAt,
         Cleared, J!Exists, J!IsActive, Row
  <2> QED BY <1>15, <2>1, <2>2 DEF RestoreCheck, Try
<1>16. CASE RestoreLinkTarget(w)
  BY <1>0, <1>16, TryServesRow DEF RestoreLinkTarget, db
<1>17. CASE RestoreDropBackup(w)
  BY <1>0, <1>1, <1>17, TryServesRow DEF RestoreDropBackup, FilesOK, db
<1>18. CASE RestoreRefresh(w)
  BY <1>0, <1>18, TryServesRow DEF RestoreRefresh, ServedRow, Cleared, fs
<1>19. CASE RestoreRemoveTemp(w)
  BY <1>0, <1>1, <1>19, GotoServesRow DEF RestoreRemoveTemp, FilesOK, db, ServedRow, Cleared
<1>20. CASE KeepConflict(w)
  BY <1>20, FailServesRow DEF KeepConflict
<1> QED
  BY <1>2, <1>3, <1>4, <1>5, <1>6, <1>7, <1>8, <1>9, <1>10, <1>11, <1>12, <1>13,
     <1>14, <1>15, <1>16, <1>17, <1>18, <1>19, <1>20 DEF RecoveryStep

\* What a step of a service may do to the files beside the target, to the phase
\* of its row and to the index.
Closing == {"markcommitted", "undo_mark", "fwd_commit", "back_mark"}
StepShape(w) ==
    /\ pc'[w] # "begin" /\ idx' \in {idx, Refreshed}
    /\ temp'[me(w)] # Absent => temp[me(w)] # Absent \/ pc[w] \in {"opentemp", "undo_linktemp"}
    /\ bak'[me(w)] # Absent => bak[me(w)] # Absent \/ pc[w] = "linkbackup"
    /\ UNCHANGED journal \/ UNCHANGED <<temp, bak>>
    /\ J!IsActive(me(w)) => journal'[me(w)].phase \in J!Active \/ pc[w] \in Closing

\* A transition to a phase of an open operation keeps the row open.
LEMMA MarkShape ==
    ASSUME IInv, NEW w \in Worker, me(w) \in Op, NEW expected, NEW phase \in J!Active, NEW to,
           J!IsActive(me(w)), Mark(w, expected, phase, to)
    PROVE  journal'[me(w)].phase \in J!Active
<1>1. CASE UNCHANGED journal
  BY <1>1 DEF J!IsActive
<1>2. CASE J!TransitionEditOperation(me(w), expected, phase)
  <2>1. journal[me(w)] \in J!Row
    BY <1>2 DEF J!TransitionEditOperation, J!TransitionAccepted, J!Exists, IInv, DataOK, RowsOK
  <2>2. journal'[me(w)] = [journal[me(w)] EXCEPT !.phase = phase]
    BY <1>2 DEF J!TransitionEditOperation, IInv, DataOK, RowsOK
  <2> QED BY <2>1, <2>2 DEF J!Row
<1> QED
  BY <1>1, <1>2 DEF Mark

LEMMA CommitShape ==
    ASSUME IInv, NEW w \in Worker, CommitStep(w)
    PROVE  StepShape(w)
<1>0. pc[w] \in Requesting => me(w) \in Op
  BY DEF IInv, ControlOK, JobFits, me
<1> USE DEF StepShape, Requesting, J!IsActive
<1>1. CASE Begin(w)
  <2>1. journal' = journal \/ journal' = [journal EXCEPT ![me(w)] = NewRow(w)]
    BY <1>1 DEF Begin, J!CreateEditOperation, NewRow
  <2>2. journal[me(w)].phase \in J!Active => journal'[me(w)].phase \in J!Active
    BY <1>0, <1>1, <2>1 DEF Begin, J!Active, IInv, DataOK, RowsOK, NewRow
  <2>3. pc'[w] # "begin"
    BY <1>1 DEF Begin, EndAt, Goto, IInv, ControlOK
  <2> QED BY <1>1, <2>2, <2>3 DEF Begin, fs
<1> USE DEF Try, Fail, EndAt, Goto, IInv, ControlOK, FilesOK
<1>2. CASE \/ MakeParents(w) \/ OpenTemp(w) \/ FillTemp(w) \/ Verify(w)
           \/ LinkBackup(w) \/ DropTarget(w)
  BY <1>0, <1>2 DEF MakeParents, OpenTemp, FillTemp, Verify, LinkBackup, DropTarget, fs, db
<1>3. CASE LinkTarget(w) \/ DropTemp(w) \/ Refresh(w) \/ RemoveBackup(w) \/ RemoveTemp(w)
  BY <1>0, <1>3 DEF LinkTarget, DropTemp, Refresh, RemoveBackup, RemoveTemp, fs, db
<1>4. CASE MarkBackupReady(w) \/ MarkReplaced(w) \/ MarkIndexed(w)
  <2>1. me(w) \in Op /\ UNCHANGED <<fs, idx>>
        /\ \E expected, to : \E phase \in J!Active : Mark(w, expected, phase, to) /\ to # "begin"
    BY <1>0, <1>4 DEF MarkBackupReady, MarkReplaced, MarkIndexed, J!Active
  <2>2. journal[me(w)].phase \in J!Active => journal'[me(w)].phase \in J!Active
    BY <2>1, MarkShape
  <2>3. pc'[w] # "begin"
    BY <2>1 DEF Mark
  <2> QED BY <2>1, <2>2, <2>3 DEF fs
<1>5. CASE MarkCommitted(w)
  BY <1>0, <1>5 DEF MarkCommitted, Mark, fs, Closing
<1> QED
  BY <1>1, <1>2, <1>3, <1>4, <1>5 DEF CommitStep

LEMMA UndoShape ==
    ASSUME IInv, NEW w \in Worker, UndoStep(w)
    PROVE  StepShape(w)
<1>0. pc[w] \in Requesting => me(w) \in Op
  BY DEF IInv, ControlOK, JobFits, me
<1> USE DEF StepShape, Requesting, J!IsActive, Try, Fail, EndAt, Goto, IInv, ControlOK, FilesOK
<1>1. CASE UndoVerify(w) \/ UndoRemoveTemp(w) \/ UndoLinkTemp(w) \/ UndoDropTarget(w)
  BY <1>0, <1>1 DEF UndoVerify, UndoRemoveTemp, UndoLinkTemp, UndoDropTarget, fs, db
<1>2. CASE \/ UndoLinkTarget(w) \/ UndoDropBackup(w) \/ UndoRefresh(w) \/ UndoClearTemp(w)
           \/ UndoRemoveDirectories(w)
  BY <1>0, <1>2 DEF UndoLinkTarget, UndoDropBackup, UndoRefresh, UndoClearTemp,
     UndoRemoveDirectories, fs, db
<1>3. CASE UndoMark(w)
  BY <1>0, <1>3 DEF UndoMark, Mark, fs, Closing
<1> QED
  BY <1>1, <1>2, <1>3 DEF UndoStep

LEMMA RecoveryShape ==
    ASSUME IInv, NEW w \in Worker, RecoveryStep(w)
    PROVE  StepShape(w)
<1>0. pc[w] \in Recovering => me(w) \in Op
  BY DEF IInv, ControlOK, JobFits, me
<1>a. JobFits(pc[w], job[w])
  BY DEF IInv, ControlOK
<1> USE DEF StepShape, Recovering, J!IsActive, Try, Fail, EndAt, Goto, IInv, ControlOK, FilesOK
<1>1. CASE ListIncomplete(w) \/ Inspect(w)
  BY <1>1 DEF ListIncomplete, Inspect, fs, db
<1>2. CASE FwdRefresh(w) \/ FwdRead(w) \/ FwdRemoveTemp(w) \/ FwdRemoveBackup(w)
  BY <1>0, <1>2 DEF FwdRefresh, FwdRead, FwdRemoveTemp, FwdRemoveBackup, fs, db
<1>3. CASE FwdAdvance(w)
  <2> DEFINE next == NextPhase[job[w].phase]
  <2>1. journal[me(w)].phase \in J!Active => journal'[me(w)].phase \in J!Active
    <3>1. CASE UNCHANGED journal
      BY <3>1
    <3>2. CASE job[w].phase # "indexed" /\ J!TransitionEditOperation(me(w), job[w].phase, next)
      <4>1. job[w].phase \in {"prepared", "backup_ready", "replaced"}
        BY <1>a, <1>3, <3>2 DEF FwdAdvance, JobFits, J!Active
      <4>2. next \in J!Active
        BY <4>1 DEF NextPhase, J!Active
      <4>3. journal[me(w)] \in J!Row /\ me(w) \in Op
        BY <1>0, <1>3, <3>2 DEF FwdAdvance, J!TransitionEditOperation,
           J!TransitionAccepted, J!Exists, DataOK, RowsOK
      <4>4. journal'[me(w)] = [journal[me(w)] EXCEPT !.phase = next]
        BY <3>2, <4>3 DEF J!TransitionEditOperation, DataOK, RowsOK
      <4> QED BY <4>2, <4>3, <4>4 DEF J!Row
    <3> QED BY <1>3, <3>1, <3>2 DEF FwdAdvance
  <2> QED BY <1>3, <2>1 DEF FwdAdvance, fs
<1>4. CASE FwdCommit(w) \/ BackMark(w)
  BY <1>0, <1>4 DEF FwdCommit, BackMark, Mark, fs, Closing
<1>5. CASE \/ BackRefresh(w) \/ BackRemoveTemp(w) \/ BackRemoveBackup(w)
           \/ BackRemoveDirectories(w) \/ BackRead(w)
  BY <1>0, <1>5 DEF BackRefresh, BackRemoveTemp, BackRemoveBackup, BackRemoveDirectories,
     BackRead, fs, db
<1>6. CASE \/ RestoreCheck(w) \/ RestoreLinkTarget(w) \/ RestoreDropBackup(w)
           \/ RestoreRefresh(w) \/ RestoreRemoveTemp(w) \/ KeepConflict(w)
  BY <1>0, <1>6 DEF RestoreCheck, RestoreLinkTarget, RestoreDropBackup, RestoreRefresh,
     RestoreRemoveTemp, KeepConflict, fs, db
<1> QED
  BY <1>1, <1>2, <1>3, <1>4, <1>5, <1>6 DEF RecoveryStep

LEMMA StepTidies ==
    ASSUME IInv, RowInv, idx # NoProject, NEW w \in Worker, Step(w), NEW o \in Op
    PROVE  Tidy(o)'
<1>1. StepShape(w)
  BY CommitShape, UndoShape, RecoveryShape DEF Step
<1>2. Tidy(o) /\ ServedRow(w)
  BY DEF RowInv
<1>3. CASE o # me(w)
  <2>1. temp'[o] = temp[o] /\ bak'[o] = bak[o]
    BY <1>3, StepOwnFiles DEF OwnFiles
  <2>2. journal'[o] = journal[o]
    BY <1>3, StepOwnRow DEF OwnRow, Makes, Advances, IInv, DataOK, RowsOK
  <2> QED
    BY <1>2, <2>1, <2>2 DEF Tidy, J!IsActive, J!Exists
<1>4. CASE o = me(w)
  <2>0. /\ temp'[o] # Absent => temp[o] # Absent \/ pc[w] \in {"opentemp", "undo_linktemp"}
        /\ bak'[o] # Absent => bak[o] # Absent \/ pc[w] = "linkbackup"
        /\ UNCHANGED journal \/ UNCHANGED <<temp, bak>>
        /\ J!IsActive(o) => journal'[o].phase \in J!Active \/ pc[w] \in Closing
    BY <1>1, <1>4 DEF StepShape
  <2>1. CASE UNCHANGED journal
    <3>1. pc[w] \in {"opentemp", "undo_linktemp", "linkbackup"} => J!IsActive(o)
      BY <1>2, <1>4 DEF ServedRow, PhaseAt, InPrepared, InReplaced, J!IsActive, J!Active, Row
    <3>2. pc[w] = "linkbackup" => journal[o].kind = "update"
      BY <1>2, <1>4 DEF ServedRow, JobIsRow, OfUpdate, Begun, Requesting, Row
    <3> QED
      BY <1>2, <2>0, <2>1, <3>1, <3>2 DEF Tidy, J!IsActive, J!Exists
  <2>2. CASE Makes(w)
    <3>1. ~J!Exists(o) /\ UNCHANGED fs /\ journal'[o].phase = "prepared"
      BY <1>4, <2>2 DEF Makes, J!CanCreate, NewRow, IInv, DataOK, RowsOK
    <3>2. ~J!IsActive(o)
      BY <3>1 DEF J!Exists, J!NoRow, J!IsActive, J!Active
    <3> QED
      BY <1>2, <3>1, <3>2 DEF Tidy, fs, J!IsActive, J!Active
  <2>3. ASSUME NEW phase \in J!Phase, Advances(w, phase), ~UNCHANGED journal
        PROVE  Tidy(o)'
    <3>1. /\ journal'[o].kind = journal[o].kind /\ J!Exists(o)
          /\ UNCHANGED <<temp, bak>> /\ J!IsActive(o)
      <4>1. journal[o] \in J!Row
        BY <1>4, <2>3 DEF Advances, J!Exists, IInv, DataOK, RowsOK
      <4>2. journal'[o] = [journal[o] EXCEPT !.phase = phase]
        BY <1>4, <2>3 DEF Advances, IInv, DataOK, RowsOK
      <4>3. J!IsActive(o)
        BY <1>4, <2>3, <4>1 DEF Advances, Row, J!CanTransition, J!IsActive, J!Active,
           J!Terminal, J!Row, J!Phase
      <4> QED BY <1>4, <2>0, <2>3, <4>1, <4>2, <4>3 DEF Advances, J!Row
    <3>2. CASE journal'[o].phase \in J!Active
      BY <1>2, <3>1, <3>2 DEF Tidy, J!IsActive
    <3>3. CASE pc[w] \in Closing
      BY <1>2, <1>4, <3>1, <3>3 DEF Tidy, Closing, ServedRow, Cleared, NoTemp, NoBackup
    <3> QED BY <2>0, <3>1, <3>2, <3>3
  <2> QED BY <2>1, <2>2, <2>3, StepOwnRow DEF OwnRow
<1> QED BY <1>3, <1>4

\* What a step of a service does to the rows of others.
LEMMA StepKeepsRows ==
    ASSUME IInv, RowInv, idx # NoProject, NEW w \in Worker, Step(w)
    PROVE  /\ OneActive' /\ PlannedRows'
           /\ \A o \in Op : J!Exists(o) =>
                /\ J!Exists(o)' /\ journal'[o].kind = journal[o].kind
                /\ journal'[o].old = journal[o].old /\ journal'[o].new = journal[o].new
                /\ journal'[o].parents = journal[o].parents
<1> USE DEF IInv, DataOK, RowsOK
<1>0. PlannedRows /\ OneActive /\ PlannedJobs
  BY DEF RowInv
<1>1. CASE UNCHANGED journal
  BY <1>0, <1>1 DEF OneActive, PlannedRows, J!IsActive, J!Exists
<1>2. CASE Makes(w)
  <2>1. /\ me(w) \in Op /\ ~J!Exists(me(w)) /\ journal'[me(w)] = NewRow(w)
        /\ \A o \in Op \ {me(w)} : journal'[o] = journal[o]
    BY <1>2 DEF Makes, J!CanCreate
  <2>2. \A o \in Op : ~J!IsActive(o)
    <3> SUFFICES ASSUME NEW o \in Op, J!IsActive(o) PROVE FALSE
      OBVIOUS
    <3>1. journal[o] \in J!Row
      BY DEF J!IsActive, J!NoRow, J!Active
    <3> QED BY <1>2, <3>1 DEF Makes, J!CanCreate, NewRow, J!Row
  <2>3. Planned(NewRow(w))
    BY <1>0, <1>2 DEF Makes, PlannedJobs, Planned, NewRow
  <2> QED
    BY <1>0, <2>1, <2>2, <2>3 DEF OneActive, PlannedRows, J!IsActive, J!Exists
<1>3. ASSUME NEW phase \in J!Phase, Advances(w, phase)
      PROVE  /\ OneActive' /\ PlannedRows'
             /\ \A o \in Op : J!Exists(o) =>
                  /\ J!Exists(o)' /\ journal'[o].kind = journal[o].kind
                  /\ journal'[o].old = journal[o].old /\ journal'[o].new = journal[o].new
                  /\ journal'[o].parents = journal[o].parents
  <2> DEFINE m == me(w)
  <2>1. m \in Op /\ J!Exists(m) /\ journal[m] \in J!Row
        /\ journal'[m] = [journal[m] EXCEPT !.phase = phase]
        /\ \A o \in Op \ {m} : journal'[o] = journal[o]
    BY <1>3 DEF Advances, J!Exists
  <2>2. /\ journal'[m].phase = phase /\ journal'[m].kind = journal[m].kind
        /\ journal'[m].old = journal[m].old /\ journal'[m].new = journal[m].new
        /\ journal'[m].parents = journal[m].parents
    BY <2>1 DEF J!Row
  <2>3. J!IsActive(m)
    BY <1>3, <2>1 DEF Advances, Row, J!CanTransition, J!IsActive, J!Active,
       J!Terminal, J!Row, J!Phase
  <2>4. journal'[m] # J!NoRow
    BY <2>2 DEF J!NoRow, J!Phase, J!Active, J!Terminal
  <2> HIDE DEF m
  <2>5. OneActive'
    BY <1>0, <2>1, <2>3 DEF OneActive, J!IsActive
  <2>6. PlannedRows'
    <3>1. Planned(journal'[m])
      BY <1>0, <2>1, <2>2 DEF PlannedRows, Planned
    <3>2. \A o \in Op \ {m} : J!Exists(o)' => Planned(journal'[o])
      BY <1>0, <2>1 DEF PlannedRows, J!Exists
    <3> QED
      BY <3>1, <3>2 DEF PlannedRows
  <2>7. ASSUME NEW o \in Op, J!Exists(o)
        PROVE  /\ J!Exists(o)' /\ journal'[o].kind = journal[o].kind
               /\ journal'[o].old = journal[o].old /\ journal'[o].new = journal[o].new
               /\ journal'[o].parents = journal[o].parents
    BY <2>1, <2>2, <2>4, <2>7 DEF J!Exists
  <2> QED
    BY <2>5, <2>6, <2>7
<1> QED
  BY <1>1, <1>2, <1>3, StepOwnRow DEF OwnRow

LEMMA StepKeepsRowInv ==
    ASSUME TakeTurns, IInv, Leased, RowInv, NEW w \in Worker, Step(w)
    PROVE  RowInv'
<1>1. StepShape(w)
  BY CommitShape, UndoShape, RecoveryShape DEF Step
<1>2. \A v \in Worker \ {w} : pc'[v] = pc[v] /\ job'[v] = job[v]
  BY StepControl DEF Control, IInv, ControlOK
<1>3. PlannedJobs'
  BY <1>1, <1>2 DEF RowInv, PlannedJobs, StepShape
<1>4. CASE idx = NoProject
  <2>1. idx' = NoProject
    BY <1>1, <1>4 DEF StepShape, Refreshed
  <2>2. UNCHANGED journal
    BY <1>4, StepOwnRow DEF OwnRow, Makes, Advances, RowInv
  <2> QED
    BY <1>3, <1>4, <2>1, <2>2 DEF RowInv, J!Exists
<1>5. CASE idx # NoProject
  <2>1. idx' # NoProject
    BY <1>1, <1>5 DEF StepShape, Refreshed, IInv, FilesOK
  <2>2. ServedRow(w)'
    BY <1>5, CommitServesRow, UndoServesRow, RecoveryServesRow DEF Step
  <2>3. ASSUME NEW v \in Worker, v # w
        PROVE  ServedRow(v)'
    <3>1. /\ pc'[v] = pc[v] /\ job'[v] = job[v] /\ ServedRow(v) /\ me(v)' = me(v)
          /\ pc[v] \in Begun \cup Recovering => me(v) \in Op
      BY <1>2, <1>5, <2>3 DEF RowInv, me, IInv, ControlOK, JobFits, Begun
    <3>2. CASE Inside(v)
      <4>1. UNCHANGED <<fs, db>>
        BY <2>3, <3>2, Alone, OutsideStep
      <4>2. Row(v)' = Row(v)
        BY <3>1, <4>1 DEF Row, db
      <4> QED
        BY <3>1, <4>1, <4>2 DEF fs, db, ServedRow, JobIsRow, PhaseAt, Cleared, J!Exists,
           J!IsActive
    <3>3. CASE pc[v] = "rec_inspect"
      <4>1. /\ J!Exists(me(v)) /\ me(v) \in Op /\ Row(v).kind = job[v].kind
            /\ Row(v).old = job[v].old /\ Row(v).new = job[v].new
        BY <3>1, <3>3 DEF ServedRow, JobIsRow, Recovering
      <4>2. /\ J!Exists(me(v))' /\ Row(v)'.kind = job'[v].kind
            /\ Row(v)'.old = job'[v].old /\ Row(v)'.new = job'[v].new
        BY <1>5, <3>1, <4>1, StepKeepsRows DEF J!Exists, Row
      <4> QED
        BY <3>1, <3>3, <4>2 DEF ServedRow, JobIsRow, PhaseAt, Cleared, InPrepared,
           InBackupReady, InReplaced, InIndexed, InActive, NoTemp, NoBackup, OfUpdate,
           PhaseRead
    <3>4. CASE pc[v] \in {"start", "idle", "refused"}
      BY <3>1, <3>4, EndServesRow DEF Ended
    <3> QED BY <3>2, <3>3, <3>4 DEF Inside, Outside
  <2> QED
    BY <1>3, <1>5, <2>1, <2>2, <2>3, StepKeepsRows, StepTidies DEF RowInv
<1> QED BY <1>4, <1>5

LEMMA NextKeepsRowInv ==
    ASSUME TakeTurns, MaxPower = 0, IInv, Leased, RowInv, [Next]_vars
    PROVE  RowInv'
<1>0. ASSUME UNCHANGED <<temp, bak, journal>>, NEW v \in Worker, pc'[v] = pc[v], job'[v] = job[v],
             ServedRow(v)
      PROVE  ServedRow(v)'
  <2>1. me(v)' = me(v) /\ Row(v)' = Row(v)
    BY <1>0 DEF me, Row
  <2> QED
    BY <1>0, <2>1 DEF ServedRow, JobIsRow, PhaseAt, Cleared, J!Exists, J!IsActive
<1>a. ASSUME UNCHANGED <<temp, bak, journal>>, idx' # NoProject => idx # NoProject,
             idx' = NoProject => idx = NoProject,
             \A v \in Worker : /\ pc'[v] = "begin" => Planned(job'[v])
                               /\ idx # NoProject => ServedRow(v)'
      PROVE  RowInv'
  BY <1>a DEF RowInv, PlannedJobs, PlannedRows, OneActive, Tidy, J!Exists, J!IsActive
<1>b. \A v \in Worker : /\ pc[v] = "begin" => Planned(job[v])
                        /\ idx # NoProject => ServedRow(v)
  BY DEF RowInv, PlannedJobs
<1> USE <1>b
<1>1. CASE UNCHANGED vars
  BY <1>0, <1>a, <1>1 DEF vars, fs, db, local
<1>2. ASSUME NEW w \in Worker, Step(w)
      PROVE  RowInv'
  BY <1>2, StepKeepsRowInv
<1>3. ASSUME NEW w \in Worker, Request(w)
      PROVE  RowInv'
  <2>1. UNCHANGED <<fs, db>> /\ pc' = [pc EXCEPT ![w] = "begin"]
    BY <1>3 DEF Request, PrepareEdit, PrepareCreate, Goto
  <2>2. \A v \in Worker \ {w} : pc'[v] = pc[v] /\ job'[v] = job[v]
    BY <1>3 DEF Request, PrepareEdit, PrepareCreate, Goto, IInv, ControlOK
  <2>3. Planned(job'[w])
    <3>1. ASSUME NEW o \in Op, NEW new \in Content, PrepareEdit(w, o, new)
          PROVE  Planned(job'[w])
      BY <3>1 DEF PrepareEdit, NoJob, IInv, ControlOK, Planned
    <3>2. ASSUME NEW o \in Op, NEW new \in Content, NEW mkdirs, PrepareCreate(w, o, new, mkdirs)
          PROVE  Planned(job'[w])
      BY <3>2 DEF PrepareCreate, NoJob, IInv, ControlOK, Planned
    <3> QED BY <1>3, <3>1, <3>2 DEF Request
  <2>4. ServedRow(w)'
    <3>1. pc'[w] = "begin"
      BY <2>1 DEF IInv, ControlOK
    <3> QED
      BY <3>1 DEF ServedRow, JobIsRow, PhaseAt, Cleared, InPrepared, InBackupReady, InReplaced,
         InIndexed, InActive, NoTemp, NoBackup, OfUpdate, PhaseRead, Begun, Recovering
  <2> QED
    BY <1>0, <1>a, <2>1, <2>2, <2>3, <2>4 DEF fs, db
<1>4. ASSUME NEW w \in Worker, IoError(w) \/ Reopen(w)
      PROVE  RowInv'
  <2>1. UNCHANGED <<fs, journal>> /\ idx' \in {idx, Refreshed}
    BY <1>4 DEF IoError, Reopen, db
  <2>2. \A v \in Worker \ {w} : pc'[v] = pc[v] /\ job'[v] = job[v]
    BY <1>4 DEF IoError, Reopen, Fail, EndAt, Goto, IInv, ControlOK
  <2>3. \/ pc[w] = "refresh" /\ pc'[w] = "undo_verify" /\ job'[w] = job[w]
        \/ pc'[w] \in {"idle", "refused", "start"}
    BY <1>4 DEF IoError, Reopen, Fail, EndAt, Goto, IInv, ControlOK
  <2>4. idx # NoProject => ServedRow(w)'
    <3>1. CASE pc[w] = "refresh" /\ pc'[w] = "undo_verify" /\ job'[w] = job[w]
      <4>1. me(w)' = me(w) /\ Row(w)' = Row(w)
        BY <2>1, <3>1 DEF me, Row
      <4> QED
        BY <2>1, <3>1, <4>1 DEF ServedRow, JobIsRow, PhaseAt, Cleared, InPrepared,
           InBackupReady, InReplaced, InIndexed, InActive, NoTemp, NoBackup, OfUpdate,
           PhaseRead, Begun, Requesting, Recovering, J!Exists
    <3>2. CASE pc'[w] \in {"idle", "refused", "start"}
      BY <3>2, EndServesRow DEF Ended
    <3> QED BY <2>3, <3>1, <3>2
  <2>5. (idx' = NoProject) <=> (idx = NoProject)
    BY <2>1 DEF Refreshed, IInv, FilesOK
  <2>6. pc'[w] # "begin"
    BY <2>3
  <2> QED
    BY <1>0, <1>a, <2>1, <2>2, <2>4, <2>5, <2>6 DEF fs
<1>5. ASSUME NEW hosts, Forgotten(hosts), UNCHANGED <<fs, db>>
      PROVE  RowInv'
  <2>1. \A v \in Worker : (pc'[v] = pc[v] /\ job'[v] = job[v]) \/ pc'[v] = "start"
    BY <1>5 DEF Forgotten
  <2> QED
    BY <1>0, <1>a, <1>5, <2>1, EndServesRow DEF Ended, fs, db
<1>6. ASSUME UNCHANGED <<db, local, temp, bak>>
      PROVE  RowInv'
  BY <1>0, <1>a, <1>6 DEF db, local
<1>7. CASE DeleteProject
  BY <1>7 DEF DeleteProject, local, RowInv, PlannedJobs, J!Exists
<1>8. ~PowerLoss
  BY DEF PowerLoss, IInv, EnvOK
<1> QED
  BY <1>1, <1>2, <1>3, <1>4, <1>5, <1>6, <1>7, <1>8 DEF Next, Environment, Crash,
     ExternalWrite, Flush, fs

LEMMA InitRowInv == Init => RowInv
<1> SUFFICES ASSUME Init PROVE RowInv
  OBVIOUS
<1>1. \A w \in Worker : pc[w] \in {"start", "idle"}
  BY DEF Init
<1>2. \A w \in Worker : ServedRow(w)
  BY <1>1 DEF ServedRow, JobIsRow, PhaseAt, Cleared, InPrepared, InBackupReady, InReplaced,
     InIndexed, InActive, NoTemp, NoBackup, OfUpdate, PhaseRead, Begun, Requesting, Recovering
<1>3. \A o \in Op : ~J!Exists(o) /\ ~J!IsActive(o) /\ temp[o] = Absent /\ bak[o] = Absent
  BY DEF Init, J!Exists, J!IsActive, J!NoRow, J!Active
<1> QED
  BY <1>1, <1>2, <1>3 DEF RowInv, PlannedJobs, PlannedRows, OneActive, Tidy

\* Where processes take turns, without power losses, a finished operation has left neither a
\* temporary nor a backup file: whether its commit, its rollback or a recovery
\* ended it, whatever crashed, failed or wrote to the target meanwhile, and
\* whether or not the project is deleted.
THEOREM NothingIsLeftBehindInTurns ==
    ASSUME MaxPower = 0
    PROVE  Spec /\ []TakeTurns => []ArtifactsGone
<1>1. TakeTurns /\ IInv /\ Leased /\ RowInv /\ [Next]_vars => RowInv'
  BY NextKeepsRowInv
<1>2. RowInv => ArtifactsGone
  <2> SUFFICES ASSUME RowInv, NEW o \in Op, journal[o].phase \in J!Terminal
               PROVE  temp[o] = Absent /\ bak[o] = Absent
    BY DEF ArtifactsGone
  <2>1. J!Exists(o) /\ ~J!IsActive(o)
    BY DEF J!Exists, J!NoRow, J!IsActive, J!Active, J!Terminal
  <2> QED BY <2>1 DEF RowInv, Tidy
<1>3. IInv /\ Leased /\ [Next]_vars => Leased'
  BY NextKeepsLease
<1> QED
  BY <1>1, <1>2, <1>3, InitLease, InitRowInv, InvariantHolds, PTL DEF Spec

\* In one process, then, no finished operation leaves a temporary or a backup file.
THEOREM NothingIsLeftBehind ==
    ASSUME OneProcess, MaxPower = 0
    PROVE  Spec => []ArtifactsGone
BY NothingIsLeftBehindInTurns, OneProcessTakesTurns, PTL

-----------------------------------------------------------------------------
\* Contents, without power losses and without outside writes.

\* A service that is inside an operation knows what the target holds,
AtOld == {"begin", "mkdirs", "opentemp", "filltemp", "verify", "linkbackup",
          "droptarget", "undo_dropbackup", "undo_refresh", "undo_cleartemp",
          "undo_rmdirs", "undo_mark", "back_refresh", "absent_refresh",
          "back_rmtemp", "back_rmbackup", "back_rmdirs", "back_read",
          "back_mark", "rst_dropbackup", "rst_refresh", "rst_rmtemp"}
AtNew == {"droptemp", "markreplaced", "refresh", "markindexed", "rmbackup",
          "rmtemp", "markcommitted", "undo_verify", "undo_rmtemp",
          "undo_linktemp", "undo_droptarget", "fwd_refresh", "fwd_read",
          "fwd_advance", "fwd_rmtemp", "fwd_rmbackup", "fwd_commit"}
AtNothing == {"markbackup", "linktarget", "undo_linktarget", "rst_check",
              "rst_linktarget"}
\* whether the files beside it hold the two versions,
BackedUp == {"droptarget", "markbackup", "linktarget", "droptemp",
             "markreplaced", "refresh", "markindexed", "undo_verify",
             "undo_rmtemp", "undo_linktemp", "undo_droptarget",
             "undo_linktarget", "undo_dropbackup", "rst_linktarget",
             "rst_dropbackup"}
TempReady == {"linkbackup", "droptarget", "markbackup", "linktarget"}
\* and whether the index agrees with the target.
Agreed == {"markindexed", "rmbackup", "rmtemp", "markcommitted", "undo_cleartemp",
           "undo_rmdirs", "undo_mark", "fwd_read", "fwd_advance", "fwd_rmtemp",
           "fwd_rmbackup", "fwd_commit", "back_rmtemp", "back_rmbackup",
           "back_rmdirs", "back_read", "back_mark", "rst_rmtemp"}

Looked(w) ==
    /\ pc[w] \in AtOld => dest = job[w].old
    /\ pc[w] \in AtNew => dest = job[w].new
    /\ pc[w] \in AtNothing => dest = Absent
    /\ pc[w] \in BackedUp => bak[me(w)] = job[w].old
    /\ pc[w] \in TempReady => temp[me(w)] = job[w].new
    /\ pc[w] \in Agreed => idx = dest

\* What the phase of an open operation says about the files and the index, also
\* when no service works on it.
FilesFit(o) ==
    LET r == journal[o] IN
    \/ r.phase # "indexed" /\ dest = r.old
    \/ r.phase # "indexed" /\ dest = Absent /\ bak[o] = r.old
    \/ r.phase \in {"backup_ready", "replaced"} /\ dest = r.new /\ bak[o] = r.old
    \/ r.phase = "indexed" /\ dest = r.new /\ idx = r.new

Settled == \A o \in Op : ~J!IsActive(o)

ContentInv ==
    idx # NoProject =>
       /\ \A o \in Op : J!IsActive(o) => FilesFit(o)
       /\ Settled => idx = dest
       /\ \A w \in Worker : Looked(w)

\* A creation has no old content, and nothing in its backup.
LEMMA CreatesFromNothing ==
    ASSUME IInv, RowInv, idx # NoProject, NEW w \in Worker, pc[w] \in Begun,
           job[w].kind # "update"
    PROVE  job[w].kind = "create" /\ job[w].old = Absent /\ bak[me(w)] = Absent
<1>1. me(w) \in Op /\ pc[w] \in Requesting
  BY DEF IInv, ControlOK, JobFits, me, Begun
<1>2. J!Exists(me(w)) /\ Row(w).kind = job[w].kind /\ Row(w).old = job[w].old
  BY <1>1 DEF RowInv, ServedRow, JobIsRow
<1>3. Row(w).kind = "create"
  BY <1>1, <1>2 DEF RowInv, PlannedRows, Planned, Row
<1>4. Row(w).old = Absent
  BY <1>1, <1>2, <1>3 DEF IInv, DataOK, RowsOK, J!HashesMatchKind, J!Exists, Row
<1>5. bak[me(w)] = Absent
  BY <1>1, <1>2, <1>3 DEF RowInv, Tidy, Row
<1> QED
  BY <1>2, <1>3, <1>4, <1>5

\* The index agrees with the target after a refresh that succeeds.
LEMMA RefreshAgrees ==
    ASSUME dest \in Content \cup {Absent}, idx # NoProject, ExistingOK \/ AbsentOK
    PROVE  Refreshed = dest
BY DEF ExistingOK, AbsentOK, RefreshStatus, Refreshed

\* A refresh does not disturb an index that agrees.
LEMMA RefreshKeeps ==
    ASSUME idx = dest
    PROVE  Refreshed = dest
BY DEF Refreshed

LEMMA CommitLooks ==
    ASSUME IInv, RowInv, ContentInv, idx # NoProject, NEW w \in Worker, CommitStep(w)
    PROVE  Looked(w)'
<1>0. Looked(w) /\ (pc[w] \in Requesting => me(w) \in Op)
  BY DEF ContentInv, IInv, ControlOK, JobFits, me
<1>a. FilesOK /\ IInv
  BY DEF IInv
<1> USE <1>0, <1>a DEF Looked, AtOld, AtNew, AtNothing, BackedUp, TempReady, Agreed, Requesting,
       ControlOK, FilesOK, Mark, Try, Fail, EndAt, Goto, me, fs
<1>1. CASE Begin(w)
  BY <1>1 DEF Begin, IInv
<1>2. CASE MakeParents(w)
  <2>1. job[w] \in Job
    BY DEF IInv, JobFits
  <2> QED BY <1>2, <2>1 DEF MakeParents, IInv, Job, db
<1>3. CASE OpenTemp(w) \/ FillTemp(w)
  BY <1>3 DEF OpenTemp, FillTemp, IInv, db
<1>4. CASE Verify(w)
  BY <1>4, CreatesFromNothing DEF Verify, IInv, Updating, Begun, db
<1>5. CASE LinkBackup(w)
  BY <1>5 DEF LinkBackup, IInv, db
<1>6. CASE DropTarget(w)
  BY <1>6 DEF DropTarget, IInv, db
<1>7. CASE MarkBackupReady(w) \/ MarkReplaced(w) \/ MarkCommitted(w)
  BY <1>7 DEF MarkBackupReady, MarkReplaced, MarkCommitted, IInv, J!Terminal
<1>8. CASE LinkTarget(w)
  BY <1>8 DEF LinkTarget, IInv, db
<1>9. CASE DropTemp(w)
  BY <1>9 DEF DropTemp, IInv, db
<1>10. CASE Refresh(w)
  BY <1>10, RefreshAgrees DEF Refresh, IInv
<1>11. CASE MarkIndexed(w)
  BY <1>11 DEF MarkIndexed, IInv, J!Terminal
<1>12. CASE RemoveBackup(w) \/ RemoveTemp(w)
  BY <1>12 DEF RemoveBackup, RemoveTemp, IInv, db
<1> QED
  BY <1>1, <1>2, <1>3, <1>4, <1>5, <1>6, <1>7, <1>8, <1>9, <1>10, <1>11, <1>12
     DEF CommitStep

LEMMA UndoLooks ==
    ASSUME IInv, RowInv, ContentInv, idx # NoProject, NEW w \in Worker, UndoStep(w)
    PROVE  Looked(w)'
<1>0. Looked(w) /\ (pc[w] \in Requesting => me(w) \in Op) /\ job[w] \in Job
  BY DEF ContentInv, IInv, ControlOK, JobFits, me
<1>a. FilesOK /\ IInv
  BY DEF IInv
<1> USE <1>0, <1>a DEF Looked, AtOld, AtNew, AtNothing, BackedUp, TempReady, Agreed, Requesting,
       ControlOK, FilesOK, Mark, Try, Fail, EndAt, Goto, me, fs
<1>1. CASE UndoVerify(w)
  BY <1>1 DEF UndoVerify, IInv, Job, db
<1>2. CASE UndoRemoveTemp(w) \/ UndoLinkTemp(w)
  BY <1>2 DEF UndoRemoveTemp, UndoLinkTemp, IInv, db
<1>3. CASE UndoDropTarget(w)
  BY <1>3, CreatesFromNothing DEF UndoDropTarget, IInv, Updating, Begun, db
<1>4. CASE UndoLinkTarget(w) \/ UndoDropBackup(w)
  BY <1>4 DEF UndoLinkTarget, UndoDropBackup, IInv, db
<1>5. CASE UndoRefresh(w)
  BY <1>5, RefreshAgrees DEF UndoRefresh, IInv
<1>6. CASE UndoClearTemp(w) \/ UndoRemoveDirectories(w)
  BY <1>6 DEF UndoClearTemp, UndoRemoveDirectories, IInv, db
<1>7. CASE UndoMark(w)
  BY <1>7 DEF UndoMark, IInv, J!Terminal
<1> QED
  BY <1>1, <1>2, <1>3, <1>4, <1>5, <1>6, <1>7 DEF UndoStep

LEMMA RecoveryLooks ==
    ASSUME IInv, RowInv, ContentInv, idx # NoProject, NEW w \in Worker, RecoveryStep(w)
    PROVE  Looked(w)'
<1>0. Looked(w) /\ (pc[w] \in Recovering => me(w) \in Op) /\ job[w] \in Job
  BY DEF ContentInv, IInv, ControlOK, JobFits, me
<1>a. FilesOK /\ IInv
  BY DEF IInv
<1> USE <1>0, <1>a DEF Looked, AtOld, AtNew, AtNothing, BackedUp, TempReady, Agreed, Recovering,
       ControlOK, FilesOK, Mark, Try, Fail, EndAt, Goto, me, fs
<1>1. CASE ListIncomplete(w)
  BY <1>1 DEF ListIncomplete, IInv
<1>2. CASE Inspect(w)
  BY <1>2 DEF Inspect, IInv, db
<1>3. CASE FwdRefresh(w)
  BY <1>3, RefreshAgrees DEF FwdRefresh, IInv
<1>4. CASE FwdRead(w) \/ BackRead(w)
  BY <1>4 DEF FwdRead, BackRead, IInv, Job, db
<1>5. CASE FwdAdvance(w)
  BY <1>5 DEF FwdAdvance, IInv, Job
<1>6. CASE FwdRemoveTemp(w) \/ FwdRemoveBackup(w)
  BY <1>6 DEF FwdRemoveTemp, FwdRemoveBackup, IInv, db
<1>7. CASE FwdCommit(w) \/ BackMark(w)
  BY <1>7 DEF FwdCommit, BackMark, IInv, J!Terminal
<1>8. CASE BackRefresh(w)
  BY <1>8, RefreshAgrees DEF BackRefresh, IInv
<1>9. CASE BackRemoveTemp(w) \/ BackRemoveBackup(w) \/ BackRemoveDirectories(w)
  BY <1>9 DEF BackRemoveTemp, BackRemoveBackup, BackRemoveDirectories, IInv, db
<1>10. CASE RestoreCheck(w) \/ RestoreLinkTarget(w)
  BY <1>10 DEF RestoreCheck, RestoreLinkTarget, IInv, db
<1>11. CASE RestoreDropBackup(w)
  BY <1>11 DEF RestoreDropBackup, IInv, db
<1>12. CASE RestoreRefresh(w) \/ RestoreRemoveTemp(w)
  BY <1>12, RefreshAgrees DEF RestoreRefresh, RestoreRemoveTemp, IInv, db
<1>13. CASE KeepConflict(w)
  BY <1>13 DEF KeepConflict, IInv
<1> QED
  BY <1>1, <1>2, <1>3, <1>4, <1>5, <1>6, <1>7, <1>8, <1>9, <1>10, <1>11, <1>12, <1>13
     DEF RecoveryStep

\* The steps that change what the phase of a row speaks about: the target, the
\* backup or the row; all the others leave them alone.
Quiet == UNCHANGED <<dest, bak, journal>> /\ idx' \in {idx, Refreshed}

CommitActs(w) ==
    \/ Begin(w) \/ LinkBackup(w) \/ DropTarget(w) \/ MarkBackupReady(w) \/ LinkTarget(w)
    \/ MarkReplaced(w) \/ MarkIndexed(w) \/ RemoveBackup(w) \/ MarkCommitted(w)
UndoActs(w) ==
    UndoDropTarget(w) \/ UndoLinkTarget(w) \/ UndoDropBackup(w) \/ UndoMark(w)
RecoveryActs(w) ==
    \/ FwdAdvance(w) \/ FwdRemoveBackup(w) \/ FwdCommit(w) \/ BackRemoveBackup(w)
    \/ BackMark(w) \/ RestoreLinkTarget(w) \/ RestoreDropBackup(w)

LEMMA StepActs ==
    ASSUME NEW w \in Worker, Step(w)
    PROVE  Quiet \/ CommitActs(w) \/ UndoActs(w) \/ RecoveryActs(w)
<1> USE DEF Quiet, fs, db
<1>1. CASE CommitStep(w)
  BY <1>1 DEF CommitStep, CommitActs, MakeParents, OpenTemp, FillTemp, Verify, DropTemp,
     Refresh, RemoveTemp
<1>2. CASE UndoStep(w)
  BY <1>2 DEF UndoStep, UndoActs, UndoVerify, UndoRemoveTemp, UndoLinkTemp, UndoRefresh,
     UndoClearTemp, UndoRemoveDirectories
<1>3. CASE RecoveryStep(w)
  BY <1>3 DEF RecoveryStep, RecoveryActs, ListIncomplete, Inspect, FwdRefresh, FwdRead,
     FwdRemoveTemp, BackRefresh, BackRemoveTemp, BackRemoveDirectories, BackRead,
     RestoreCheck, RestoreRefresh, RestoreRemoveTemp, KeepConflict
<1> QED
  BY <1>1, <1>2, <1>3 DEF Step

\* Only a service whose operation is open moves the target, and it leaves the index
\* alone.
LEMMA TargetMoves ==
    ASSUME IInv, RowInv, ContentInv, idx # NoProject, NEW w \in Worker,
           CommitActs(w) \/ UndoActs(w) \/ RecoveryActs(w)
    PROVE  UNCHANGED idx /\ (dest' = dest \/ (UNCHANGED journal /\ J!IsActive(me(w))))
<1>1. ServedRow(w)
  BY DEF RowInv
<1> USE DEF fs, db
<1>2. CASE CommitActs(w)
  <2>1. CASE DropTarget(w) \/ LinkTarget(w)
    BY <1>1, <2>1 DEF DropTarget, LinkTarget, ServedRow, PhaseAt, InPrepared,
       InBackupReady, J!IsActive, J!Active, Row
  <2>2. CASE Begin(w) \/ LinkBackup(w) \/ RemoveBackup(w)
    BY <2>2 DEF Begin, LinkBackup, RemoveBackup
  <2>3. CASE MarkBackupReady(w) \/ MarkReplaced(w) \/ MarkIndexed(w) \/ MarkCommitted(w)
    BY <2>3 DEF MarkBackupReady, MarkReplaced, MarkIndexed, MarkCommitted
  <2> QED
    BY <1>2, <2>1, <2>2, <2>3 DEF CommitActs
<1>3. CASE UndoActs(w)
  BY <1>1, <1>3 DEF UndoActs, UndoDropTarget, UndoLinkTarget, UndoDropBackup, UndoMark,
     ServedRow, PhaseAt, InReplaced, J!IsActive, J!Active, Row
<1>4. CASE RecoveryActs(w)
  <2>1. CASE RestoreLinkTarget(w)
    BY <1>1, <2>1 DEF RestoreLinkTarget, ServedRow, PhaseAt, InActive
  <2>2. CASE FwdRemoveBackup(w) \/ BackRemoveBackup(w) \/ RestoreDropBackup(w)
    BY <2>2 DEF FwdRemoveBackup, BackRemoveBackup, RestoreDropBackup
  <2>3. CASE FwdAdvance(w) \/ FwdCommit(w) \/ BackMark(w)
    BY <2>3 DEF FwdAdvance, FwdCommit, BackMark
  <2> QED
    BY <1>4, <2>1, <2>2, <2>3 DEF RecoveryActs
<1> QED
  BY <1>2, <1>3, <1>4

LEMMA MarkPhase ==
    ASSUME IInv, NEW w \in Worker, me(w) \in Op, NEW expected, NEW phase, NEW to,
           Mark(w, expected, phase, to)
    PROVE  journal'[me(w)].phase \in {journal[me(w)].phase, phase}
<1>1. CASE UNCHANGED journal
  BY <1>1
<1>2. CASE J!TransitionEditOperation(me(w), expected, phase)
  <2>1. journal[me(w)] \in J!Row
    BY <1>2 DEF J!TransitionEditOperation, J!TransitionAccepted, J!Exists, IInv, DataOK, RowsOK
  <2>2. journal'[me(w)] = [journal[me(w)] EXCEPT !.phase = phase]
    BY <1>2 DEF J!TransitionEditOperation, IInv, DataOK, RowsOK
  <2> QED BY <2>1, <2>2 DEF J!Row
<1> QED
  BY <1>1, <1>2 DEF Mark

\* What a service knows about the operation it is inside of.
LEMMA OwnOperation ==
    ASSUME IInv, RowInv, ContentInv, idx # NoProject, NEW w \in Worker,
           pc[w] \in Begun \cup Recovering
    PROVE  /\ me(w) \in Op /\ J!Exists(me(w)) /\ ServedRow(w) /\ Looked(w)
           /\ Row(w).old = job[w].old /\ Row(w).new = job[w].new
           /\ Row(w).new \in Content /\ Row(w).old # Row(w).new
           /\ J!IsActive(me(w)) => FilesFit(me(w))
<1>1. me(w) \in Op
  BY DEF IInv, ControlOK, JobFits, me, Begun
<1>2. J!Exists(me(w)) /\ ServedRow(w) /\ Row(w).old = job[w].old /\ Row(w).new = job[w].new
  BY <1>1 DEF RowInv, ServedRow, JobIsRow
<1> QED
  BY <1>1, <1>2 DEF RowInv, PlannedRows, Planned, Row, ContentInv

LEMMA CommitFits ==
    ASSUME IInv, RowInv, ContentInv, idx # NoProject, NEW w \in Worker, CommitActs(w),
           NEW o \in Op, o = me(w), J!IsActive(o)'
    PROVE  FilesFit(o)'
<1>0. UNCHANGED idx /\ FilesOK /\ Step(w)
  BY TargetMoves DEF IInv, CommitActs, Step, CommitStep
<1>1. J!Exists(o) => journal'[o].old = journal[o].old /\ journal'[o].new = journal[o].new
  BY <1>0, StepKeepsRows
<1>2. pc[w] \in Begun =>
        /\ J!Exists(o) /\ ServedRow(w) /\ Looked(w)
        /\ journal[o].old = job[w].old /\ journal[o].new = job[w].new
        /\ J!IsActive(o) => FilesFit(o)
  BY OwnOperation DEF Row
<1>3. CASE Begin(w)
  <2>1. CASE UNCHANGED journal
    BY <1>0, <1>3, <2>1 DEF Begin, ContentInv, FilesFit, J!IsActive, fs
  <2>2. CASE J!CreateEditOperation(o, NewRow(w))
    <3>1. journal'[o].phase = "prepared" /\ journal'[o].old = job[w].old
      BY <2>2 DEF J!CreateEditOperation, NewRow, IInv, DataOK, RowsOK
    <3>2. dest' = job[w].old
      BY <1>3 DEF Begin, ContentInv, Looked, AtOld, fs
    <3> QED BY <3>1, <3>2 DEF FilesFit
  <2> QED BY <1>3, <2>1, <2>2 DEF Begin, NewRow
<1> USE DEF Begun, Requesting, Looked, AtOld, AtNew, AtNothing, BackedUp, TempReady, Agreed,
       ServedRow, PhaseAt, Row, InPrepared, InBackupReady, InReplaced, InIndexed, fs, db
<1>4. CASE LinkBackup(w) \/ DropTarget(w) \/ LinkTarget(w)
  BY <1>0, <1>1, <1>2, <1>4 DEF LinkBackup, DropTarget, LinkTarget, FilesFit, FilesOK
<1>5. CASE RemoveBackup(w)
  BY <1>0, <1>1, <1>2, <1>5 DEF RemoveBackup, FilesFit, FilesOK
<1>6. CASE MarkBackupReady(w) \/ MarkReplaced(w) \/ MarkIndexed(w)
  <2>1. \E expected, phase, to :
          /\ Mark(w, expected, phase, to)
          /\ \/ pc[w] = "markbackup" /\ phase = "backup_ready"
             \/ pc[w] = "markreplaced" /\ phase = "replaced"
             \/ pc[w] = "markindexed" /\ phase = "indexed"
    BY <1>6 DEF MarkBackupReady, MarkReplaced, MarkIndexed
  <2>2. /\ pc[w] \in {"markbackup", "markreplaced", "markindexed"}
        /\ pc[w] = "markbackup" => journal'[o].phase \in {"prepared", "backup_ready"}
        /\ pc[w] = "markreplaced" => journal'[o].phase \in {"backup_ready", "replaced"}
        /\ pc[w] = "markindexed" => journal'[o].phase \in {"replaced", "indexed"}
    BY <1>2, <2>1, MarkPhase
  <2>3. UNCHANGED fs
    BY <1>6 DEF MarkBackupReady, MarkReplaced, MarkIndexed
  <2> QED
    BY <1>0, <1>1, <1>2, <2>2, <2>3 DEF FilesFit
<1>7. CASE MarkCommitted(w)
  <2>1. journal'[o].phase \in {"indexed", "committed"} /\ pc[w] = "markcommitted"
    BY <1>2, <1>7, MarkPhase DEF MarkCommitted
  <2> QED
    BY <1>0, <1>1, <1>2, <1>7, <2>1 DEF MarkCommitted, FilesFit, J!IsActive, J!Active
<1> QED
  BY <1>3, <1>4, <1>5, <1>6, <1>7 DEF CommitActs

LEMMA UndoFits ==
    ASSUME IInv, RowInv, ContentInv, idx # NoProject, NEW w \in Worker, UndoActs(w),
           NEW o \in Op, o = me(w), J!IsActive(o)'
    PROVE  FilesFit(o)'
<1>0. UNCHANGED idx /\ FilesOK /\ Step(w)
  BY TargetMoves DEF IInv, UndoActs, Step, UndoStep
<1>1. J!Exists(o) => journal'[o].old = journal[o].old /\ journal'[o].new = journal[o].new
  BY <1>0, StepKeepsRows
<1>2. pc[w] \in Begun =>
        /\ J!Exists(o) /\ ServedRow(w) /\ Looked(w)
        /\ journal[o].old = job[w].old /\ journal[o].new = job[w].new
        /\ J!IsActive(o) => FilesFit(o)
  BY OwnOperation DEF Row
<1> USE DEF Begun, Requesting, Looked, AtOld, AtNew, AtNothing, BackedUp, TempReady, Agreed,
       ServedRow, PhaseAt, Row, InPrepared, InBackupReady, InReplaced, InIndexed, fs, db
<1>3. CASE UndoDropTarget(w) \/ UndoLinkTarget(w) \/ UndoDropBackup(w)
  BY <1>0, <1>1, <1>2, <1>3 DEF UndoDropTarget, UndoLinkTarget, UndoDropBackup, FilesFit,
     FilesOK
<1>4. CASE UndoMark(w)
  <2>1. journal'[o].phase \in {"replaced", "rolled_back"} /\ pc[w] = "undo_mark"
    BY <1>2, <1>4, MarkPhase DEF UndoMark
  <2> QED
    BY <1>0, <1>1, <1>2, <1>4, <2>1 DEF UndoMark, FilesFit, J!IsActive, J!Active
<1> QED
  BY <1>3, <1>4 DEF UndoActs

LEMMA RecoveryFits ==
    ASSUME IInv, RowInv, ContentInv, idx # NoProject, NEW w \in Worker, RecoveryActs(w),
           NEW o \in Op, o = me(w), J!IsActive(o)'
    PROVE  FilesFit(o)'
<1>0. UNCHANGED idx /\ FilesOK /\ Step(w)
  BY TargetMoves DEF IInv, RecoveryActs, Step, RecoveryStep
<1>1. J!Exists(o) => journal'[o].old = journal[o].old /\ journal'[o].new = journal[o].new
  BY <1>0, StepKeepsRows
<1>2. /\ J!Exists(o) /\ ServedRow(w) /\ Looked(w)
      /\ journal[o].old = job[w].old /\ journal[o].new = job[w].new
      /\ journal[o].new \in Content /\ journal[o].old # journal[o].new
      /\ J!IsActive(o) => FilesFit(o)
  BY OwnOperation DEF Row, RecoveryActs, FwdAdvance, FwdRemoveBackup, FwdCommit,
     BackRemoveBackup, BackMark, RestoreLinkTarget, RestoreDropBackup, Recovering
<1> USE DEF Looked, AtOld, AtNew, AtNothing, BackedUp, Agreed, ServedRow, PhaseAt, Row,
       InIndexed, InActive, fs, db
<1>3. CASE FwdRemoveBackup(w) \/ BackRemoveBackup(w)
  BY <1>0, <1>1, <1>2, <1>3 DEF FwdRemoveBackup, BackRemoveBackup, FilesFit, FilesOK, J!IsActive
<1>4. CASE RestoreLinkTarget(w) \/ RestoreDropBackup(w)
  BY <1>0, <1>1, <1>2, <1>4 DEF RestoreLinkTarget, RestoreDropBackup, FilesFit, FilesOK, J!IsActive
<1>5. CASE FwdCommit(w)
  <2>1. journal'[o].phase \in {"indexed", "committed"} /\ pc[w] = "fwd_commit"
    BY <1>2, <1>5, OwnOperation, MarkPhase DEF FwdCommit, Recovering
  <2> QED
    BY <1>0, <1>1, <1>2, <1>5, <2>1 DEF FwdCommit, FilesFit, J!IsActive, J!Active
<1>6. CASE BackMark(w)
  <2>1. journal'[o].phase \in {journal[o].phase, "rolled_back"} /\ pc[w] = "back_mark"
    BY <1>2, <1>6, OwnOperation, MarkPhase DEF BackMark, Recovering
  <2>2. journal'[o].phase = journal[o].phase /\ J!IsActive(o)
    BY <2>1 DEF J!IsActive, J!Active
  <2> QED
    BY <1>0, <1>1, <1>2, <1>6, <2>2 DEF BackMark, FilesFit
<1>7. CASE FwdAdvance(w)
  <2>1. pc[w] = "fwd_advance" /\ dest = job[w].new /\ idx = dest /\ UNCHANGED <<dest, bak>>
    BY <1>2, <1>7 DEF FwdAdvance
  <2>2. journal[o].phase = job[w].phase /\ J!IsActive(o) /\ FilesFit(o)
    BY <1>2, <2>1 DEF JobIsRow, PhaseRead
  <2>3. journal[o].phase \in {"backup_ready", "replaced", "indexed"}
    BY <1>2, <2>1, <2>2 DEF FilesFit, J!IsActive, J!Active
  <2>4. CASE UNCHANGED journal
    BY <1>0, <2>1, <2>2, <2>4 DEF FilesFit
  <2>5. CASE ~UNCHANGED journal
    <3>1. J!TransitionEditOperation(o, job[w].phase, NextPhase[job[w].phase])
          /\ job[w].phase # "indexed"
      BY <1>7, <2>5 DEF FwdAdvance
    <3>2. journal'[o].phase = NextPhase[job[w].phase]
      <4>1. journal[o] \in J!Row
        BY <1>2 DEF J!Exists, IInv, DataOK, RowsOK
      <4>2. journal'[o] = [journal[o] EXCEPT !.phase = NextPhase[job[w].phase]]
        BY <3>1 DEF J!TransitionEditOperation, IInv, DataOK, RowsOK
      <4> QED BY <4>1, <4>2 DEF J!Row
    <3>3. \/ journal[o].phase = "backup_ready" /\ journal'[o].phase = "replaced"
          \/ journal[o].phase = "replaced" /\ journal'[o].phase = "indexed"
      BY <2>2, <2>3, <3>1, <3>2 DEF NextPhase
    <3> QED
      BY <1>0, <1>1, <1>2, <2>1, <2>2, <3>3 DEF FilesFit
  <2> QED BY <2>4, <2>5
<1> QED
  BY <1>3, <1>4, <1>5, <1>6, <1>7 DEF RecoveryActs

LEMMA QuietFits ==
    ASSUME Quiet, NEW o \in Op, FilesFit(o)
    PROVE  FilesFit(o)'
<1>1. idx = dest => idx' = dest'
  BY RefreshKeeps DEF Quiet
<1> QED
  BY <1>1 DEF Quiet, FilesFit

LEMMA StepFits ==
    ASSUME IInv, RowInv, ContentInv, idx # NoProject, NEW w \in Worker, Step(w),
           NEW o \in Op, J!IsActive(o)'
    PROVE  FilesFit(o)'
<1>1. CASE Quiet
  <2>1. J!IsActive(o)
    BY <1>1 DEF Quiet, J!IsActive
  <2> QED BY <1>1, <2>1, QuietFits DEF ContentInv
<1>2. CASE CommitActs(w) \/ UndoActs(w) \/ RecoveryActs(w)
  <2>1. CASE o = me(w)
    BY <1>2, <2>1, CommitFits, UndoFits, RecoveryFits
  <2>2. CASE o # me(w)
    <3>1. journal'[o] = journal[o] /\ bak'[o] = bak[o]
      BY <2>2, StepOwnRow, StepOwnFiles DEF OwnRow, Makes, Advances, OwnFiles, IInv, DataOK, RowsOK
    <3>2. J!IsActive(o)
      BY <3>1 DEF J!IsActive
    <3>3. UNCHANGED <<dest, idx>>
      <4>1. SUFFICES ASSUME dest' # dest PROVE FALSE
        BY <1>2, TargetMoves
      <4>2. J!IsActive(me(w)) /\ Inside(w)
        BY <1>2, <4>1, TargetMoves, OutsideStep DEF fs
      <4>3. me(w) \in Op
        BY <4>2 DEF Inside, Outside, IInv, ControlOK, JobFits, me, Labels
      <4> QED BY <2>2, <3>2, <4>2, <4>3 DEF RowInv, OneActive
    <3> QED BY <3>1, <3>2, <3>3 DEF ContentInv, FilesFit
  <2> QED BY <2>1, <2>2
<1> QED BY <1>1, <1>2, StepActs

LEMMA StepSettles ==
    ASSUME IInv, RowInv, ContentInv, idx # NoProject, NEW w \in Worker, Step(w), Settled'
    PROVE  idx' = dest'
<1>1. CASE Settled
  <2>1. idx = dest
    BY <1>1 DEF ContentInv
  <2>2. dest' = dest
    <3>1. SUFFICES ASSUME dest' # dest PROVE FALSE
      OBVIOUS
    <3>2. J!IsActive(me(w)) /\ Inside(w)
      BY <3>1, StepActs, TargetMoves, OutsideStep DEF fs, Quiet
    <3>3. me(w) \in Op
      BY <3>2 DEF Inside, Outside, IInv, ControlOK, JobFits, me, Labels
    <3> QED BY <1>1, <3>2, <3>3 DEF Settled
  <2>3. idx' \in {idx, Refreshed}
    BY CommitShape, UndoShape, RecoveryShape DEF Step, StepShape
  <2> QED BY <2>1, <2>2, <2>3, RefreshKeeps
<1>2. ASSUME NEW o \in Op, J!IsActive(o)
      PROVE  idx' = dest'
  <2>1. ~J!IsActive(o)' /\ journal'[o] # journal[o]
    BY <1>2 DEF Settled, J!IsActive
  <2>2. o = me(w)
    BY <2>1, StepOwnRow DEF OwnRow, Makes, Advances, IInv, DataOK, RowsOK
  <2>3. pc[w] \in Closing
    BY <1>2, <2>1, <2>2, CommitShape, UndoShape, RecoveryShape DEF Step, StepShape, J!IsActive
  <2>4. idx = dest
    BY <2>3 DEF ContentInv, Looked, Closing, Agreed
  <2>5. UNCHANGED <<dest, idx>>
    BY <2>1, StepActs, TargetMoves DEF Quiet
  <2> QED BY <2>4, <2>5
<1> QED BY <1>1, <1>2 DEF Settled

LEMMA StepKeepsContent ==
    ASSUME TakeTurns, IInv, Leased, RowInv, ContentInv, NEW w \in Worker, Step(w)
    PROVE  ContentInv'
<1>1. idx = NoProject => idx' = NoProject
  BY CommitShape, UndoShape, RecoveryShape DEF Step, StepShape, Refreshed
<1> SUFFICES ASSUME idx # NoProject
             PROVE  \A v \in Worker : Looked(v)'
  BY <1>1, StepFits, StepSettles DEF ContentInv
<1>2. Looked(w)'
  BY CommitLooks, UndoLooks, RecoveryLooks DEF Step
<1>3. ASSUME NEW v \in Worker, v # w
      PROVE  Looked(v)'
  <2>1. pc'[v] = pc[v] /\ job'[v] = job[v] /\ me(v)' = me(v) /\ Looked(v)
    BY <1>3, StepControl DEF Control, IInv, ControlOK, ContentInv, me
  <2>2. CASE Inside(v)
    <3>1. UNCHANGED <<fs, db>>
      BY <1>3, <2>2, Alone, OutsideStep
    <3> QED BY <2>1, <3>1 DEF Looked, fs, db
  <2>3. CASE ~Inside(v)
    BY <2>1, <2>3 DEF Looked, Inside, Outside, AtOld, AtNew, AtNothing, BackedUp, TempReady, Agreed
  <2> QED BY <2>2, <2>3
<1> QED BY <1>2, <1>3

LEMMA NextKeepsContent ==
    ASSUME TakeTurns, MaxPower = 0, MaxWrite = 0, IInv, Leased, RowInv, ContentInv, [Next]_vars
    PROVE  ContentInv'
<1>1. \A w \in Worker : idx # NoProject => Looked(w)
  BY DEF ContentInv
<1>2. ASSUME NEW v \in Worker, pc'[v] \in Outside
      PROVE  Looked(v)'
  BY <1>2 DEF Looked, Outside, AtOld, AtNew, AtNothing, BackedUp, TempReady, Agreed
<1>3. ASSUME UNCHANGED <<fs, journal>>, idx' \in {idx, Refreshed},
             idx # NoProject => \A v \in Worker : Looked(v)'
      PROVE  ContentInv'
  <2>1. Quiet /\ (idx' # NoProject => idx # NoProject) /\ (idx = dest => idx' = dest')
    BY <1>3, RefreshKeeps DEF Quiet, fs, Refreshed
  <2>2. \A o \in Op : J!IsActive(o)' => J!IsActive(o)
    BY <1>3 DEF J!IsActive
  <2>3. Settled' => Settled
    BY <1>3 DEF Settled, J!IsActive
  <2> QED BY <1>3, <2>1, <2>2, <2>3, QuietFits DEF ContentInv
<1>4. ASSUME UNCHANGED <<fs, journal>>, idx' \in {idx, Refreshed}, idx # NoProject,
             NEW v \in Worker, pc'[v] = pc[v], job'[v] = job[v]
      PROVE  Looked(v)'
  <2>1. idx = dest => idx' = dest'
    BY <1>4, RefreshKeeps DEF fs
  <2> QED BY <1>1, <1>4, <2>1 DEF Looked, fs, me
<1>5. CASE UNCHANGED vars
  BY <1>3, <1>4, <1>5 DEF vars, db, local
<1>6. ASSUME NEW w \in Worker, Step(w)
      PROVE  ContentInv'
  BY <1>6, StepKeepsContent
<1>7. ASSUME NEW w \in Worker, Request(w)
      PROVE  ContentInv'
  <2>1. UNCHANGED <<fs, db>> /\ pc' = [pc EXCEPT ![w] = "begin"]
    BY <1>7 DEF Request, PrepareEdit, PrepareCreate, Goto
  <2>2. \A v \in Worker \ {w} : pc'[v] = pc[v] /\ job'[v] = job[v]
    BY <1>7 DEF Request, PrepareEdit, PrepareCreate, Goto, IInv, ControlOK
  <2>3. job'[w].old = dest
    <3>1. ASSUME NEW o \in Op, NEW new \in Content, PrepareEdit(w, o, new)
          PROVE  job'[w].old = dest
      BY <3>1 DEF PrepareEdit, NoJob, IInv, ControlOK
    <3>2. ASSUME NEW o \in Op, NEW new \in Content, NEW mkdirs, PrepareCreate(w, o, new, mkdirs)
          PROVE  job'[w].old = dest
      BY <3>2 DEF PrepareCreate, NoJob, IInv, ControlOK
    <3> QED BY <1>7, <3>1, <3>2 DEF Request
  <2>4. Looked(w)'
    <3>1. pc'[w] = "begin" /\ dest' = dest
      BY <2>1 DEF IInv, ControlOK, fs
    <3> QED
      BY <2>3, <3>1 DEF Looked, AtOld, AtNew, AtNothing, BackedUp, TempReady, Agreed
  <2> QED BY <1>3, <1>4, <2>1, <2>2, <2>4 DEF db
<1>8. ASSUME NEW w \in Worker, IoError(w) \/ Reopen(w)
      PROVE  ContentInv'
  <2>1. UNCHANGED <<fs, journal>> /\ idx' \in {idx, Refreshed}
    BY <1>8 DEF IoError, Reopen, db
  <2>2. \A v \in Worker \ {w} : pc'[v] = pc[v] /\ job'[v] = job[v]
    BY <1>8 DEF IoError, Reopen, Fail, EndAt, Goto, IInv, ControlOK
  <2>3. \/ pc[w] = "refresh" /\ pc'[w] = "undo_verify" /\ job'[w] = job[w]
        \/ pc'[w] \in Outside
    BY <1>8 DEF IoError, Reopen, Fail, EndAt, Goto, IInv, ControlOK, Outside
  <2>4. idx # NoProject => Looked(w)'
    BY <1>1, <1>2, <2>1, <2>3 DEF Looked, AtOld, AtNew, AtNothing, BackedUp, TempReady,
       Agreed, fs, me
  <2> QED BY <1>3, <1>4, <2>1, <2>2, <2>4
<1>9. ASSUME NEW hosts, Forgotten(hosts), UNCHANGED <<fs, db>>
      PROVE  ContentInv'
  <2>1. \A v \in Worker : (pc'[v] = pc[v] /\ job'[v] = job[v]) \/ pc'[v] \in Outside
    BY <1>9 DEF Forgotten, Outside
  <2> QED BY <1>2, <1>3, <1>4, <1>9, <2>1 DEF db
<1>10. ASSUME UNCHANGED <<fs, db, local>>
       PROVE  ContentInv'
  BY <1>3, <1>4, <1>10 DEF db, local
<1>11. CASE DeleteProject
  BY <1>11 DEF DeleteProject, ContentInv
<1>12. ~PowerLoss
  BY DEF PowerLoss, IInv, EnvOK
<1>13. ASSUME NEW content, ExternalWrite(content)
       PROVE  FALSE
  BY <1>13 DEF ExternalWrite, IInv, EnvOK
<1> QED
  BY <1>5, <1>6, <1>7, <1>8, <1>9, <1>10, <1>11, <1>12, <1>13
     DEF Next, Environment, Crash, Flush

LEMMA InitContent == Init => ContentInv
<1> SUFFICES ASSUME Init PROVE ContentInv
  OBVIOUS
<1>1. \A w \in Worker : pc[w] \in Outside
  BY DEF Init, Outside
<1>2. \A w \in Worker : Looked(w)
  BY <1>1 DEF Looked, Outside, AtOld, AtNew, AtNothing, BackedUp, TempReady, Agreed
<1>3. Settled /\ idx = dest
  BY DEF Init, Settled, J!IsActive, J!NoRow, J!Active
<1> QED BY <1>2, <1>3 DEF ContentInv, Settled

\* The invariant of processes that take turns, that nobody writes past and that keep
\* their power.
ServiceInv == IInv /\ Leased /\ RowInv /\ ContentInv

LEMMA ServiceInvHolds ==
    ASSUME MaxPower = 0, MaxWrite = 0
    PROVE  Spec /\ []TakeTurns => []ServiceInv
<1>1. IInv /\ Leased /\ [Next]_vars => Leased'
  BY NextKeepsLease
<1>2. TakeTurns /\ IInv /\ Leased /\ RowInv /\ [Next]_vars => RowInv'
  BY NextKeepsRowInv
<1>3. TakeTurns /\ IInv /\ Leased /\ RowInv /\ ContentInv /\ [Next]_vars => ContentInv'
  BY NextKeepsContent
<1>4. IInv /\ Leased /\ RowInv /\ ContentInv => ServiceInv
  BY DEF ServiceInv
<1> QED
  BY <1>1, <1>2, <1>3, <1>4, InvariantHolds, InitLease, InitRowInv, InitContent, PTL DEF Spec

\* Where processes take turns, without power losses and outside writes: whatever crashes and
\* fails, at every moment of an update and of every recovery of it, its original
\* content is in the target or in its backup, until the new content is both in
\* place and in the graph.
THEOREM OriginalsAreRecoverableInTurns ==
    ASSUME MaxPower = 0, MaxWrite = 0
    PROVE  Spec /\ []TakeTurns => []OriginalRecoverable
<1>1. ServiceInv => OriginalRecoverable
  <2> SUFFICES ASSUME ServiceInv, NEW o \in Op, J!IsActive(o)
               PROVE  \/ journal[o].old \in {dest, bak[o]}
                      \/ journal[o].phase = "indexed" /\ dest = journal[o].new /\ idx = dest
    BY DEF OriginalRecoverable
  <2>1. J!Exists(o)
    BY DEF J!Exists, J!NoRow, J!IsActive, J!Active
  <2>2. FilesFit(o)
    BY <2>1 DEF ServiceInv, RowInv, ContentInv
  <2> QED BY <2>2 DEF FilesFit
<1> QED BY <1>1, ServiceInvHolds, PTL

\* In one process, then, the original content of an open update is in the target or
\* in its backup, until the new one is both in place and in the graph.
THEOREM OriginalsAreRecoverable ==
    ASSUME OneProcess, MaxPower = 0, MaxWrite = 0
    PROVE  Spec => []OriginalRecoverable
BY OriginalsAreRecoverableInTurns, OneProcessTakesTurns, PTL

LEMMA ProjectStays ==
    ASSUME MaxPower = 0, Deletable = FALSE, IInv, idx # NoProject, [Next]_vars
    PROVE  idx' # NoProject
<1>1. Refreshed # NoProject
  BY DEF Refreshed, IInv, FilesOK
<1>2. ASSUME NEW w \in Worker, Step(w)
      PROVE  idx' # NoProject
  BY <1>1, <1>2, CommitShape, UndoShape, RecoveryShape DEF Step, StepShape
<1>3. ASSUME NEW w \in Worker, Request(w) \/ IoError(w) \/ Reopen(w)
      PROVE  idx' # NoProject
  BY <1>1, <1>3 DEF Request, PrepareEdit, PrepareCreate, IoError, Reopen, db
<1>4. ~DeleteProject /\ ~PowerLoss
  BY DEF DeleteProject, PowerLoss, IInv, EnvOK
<1> QED
  BY <1>2, <1>3, <1>4 DEF Next, Environment, Crash, ExternalWrite, Flush, vars, db

\* Where the project is not deleted, the graph describes the file that is there
\* whenever no operation is open, if processes take turns: the commits, the rollbacks and the recoveries
\* that ended them, whatever interrupted them, each left the two in agreement.
THEOREM IndexAgreesInTurns ==
    ASSUME MaxPower = 0, MaxWrite = 0, Deletable = FALSE
    PROVE  Spec /\ []TakeTurns => []IndexAgreesWhenSettled
<1>1. IInv /\ idx # NoProject /\ [Next]_vars => (idx # NoProject)'
  BY ProjectStays
<1>2. Init => idx # NoProject
  BY DEF Init
<1>3. ServiceInv /\ idx # NoProject => IndexAgreesWhenSettled
  BY DEF ServiceInv, ContentInv, Settled, IndexAgreesWhenSettled
<1> QED
  BY <1>1, <1>2, <1>3, ServiceInvHolds, InvariantHolds, PTL DEF Spec

\* In one process, then, graph and file agree whenever no operation is open.
THEOREM IndexAgrees ==
    ASSUME OneProcess, MaxPower = 0, MaxWrite = 0, Deletable = FALSE
    PROVE  Spec => []IndexAgreesWhenSettled
BY IndexAgreesInTurns, OneProcessTakesTurns, PTL

-----------------------------------------------------------------------------
\* The refinement of AtomicEdit.

\* Only the two rollbacks end an operation as rolled back.
LEMMA RolledBackAt ==
    ASSUME IInv, RowInv, idx # NoProject, NEW w \in Worker, Step(w), me(w) \in Op,
           J!IsActive(me(w)), journal'[me(w)].phase = "rolled_back"
    PROVE  pc[w] \in {"undo_mark", "back_mark"}
<1>0. journal[me(w)].phase # "rolled_back" /\ journal' # journal
  BY DEF J!IsActive, J!Active
<1>1. ASSUME NEW expected, NEW phase, NEW to, Mark(w, expected, phase, to), phase # "rolled_back"
      PROVE  FALSE
  BY <1>0, <1>1, MarkPhase
<1>2. CASE CommitActs(w)
  <2>1. CASE Begin(w)
    <3>1. J!CreateEditOperation(me(w), NewRow(w))
      BY <1>0, <2>1 DEF Begin, NewRow
    <3> QED
      BY <3>1 DEF J!CreateEditOperation, NewRow, IInv, DataOK, RowsOK
  <2>2. CASE LinkBackup(w) \/ DropTarget(w) \/ LinkTarget(w) \/ RemoveBackup(w)
    BY <1>0, <2>2 DEF LinkBackup, DropTarget, LinkTarget, RemoveBackup, db
  <2>3. CASE MarkBackupReady(w) \/ MarkReplaced(w) \/ MarkIndexed(w) \/ MarkCommitted(w)
    BY <1>1, <2>3 DEF MarkBackupReady, MarkReplaced, MarkIndexed, MarkCommitted
  <2> QED BY <1>2, <2>1, <2>2, <2>3 DEF CommitActs
<1>3. CASE UndoActs(w)
  BY <1>0, <1>3 DEF UndoActs, UndoDropTarget, UndoLinkTarget, UndoDropBackup, UndoMark, db
<1>4. CASE RecoveryActs(w)
  <2>1. CASE FwdAdvance(w)
    BY <1>0, <2>1, RecoveryShape DEF Step, RecoveryStep, StepShape, J!IsActive, J!Active, Closing,
       FwdAdvance
  <2>2. CASE FwdCommit(w)
    BY <1>1, <2>2 DEF FwdCommit
  <2> QED
    BY <1>0, <1>4, <2>1, <2>2 DEF RecoveryActs, FwdRemoveBackup, BackRemoveBackup,
       BackMark, RestoreLinkTarget, RestoreDropBackup, db
<1> QED
  BY <1>0, <1>2, <1>3, <1>4, StepActs DEF Quiet

\* What a reader of the mapping sees while an operation is open, and while none is.
OpenShows ==
    \A o \in Op : J!IsActive(o) =>
       SavedFile = IF dest = journal[o].new THEN journal[o].new ELSE journal[o].old
SettledShows == Settled => SavedFile = dest

LEMMA SavedShows == ServiceInv => OpenShows /\ SettledShows
<1>0. SettledShows
  BY DEF Settled, SavedFile, SettledShows
<1> SUFFICES ASSUME ServiceInv, NEW o \in Op, J!IsActive(o)
             PROVE  SavedFile = IF dest = journal[o].new THEN journal[o].new ELSE journal[o].old
  BY <1>0 DEF OpenShows
<1> DEFINE saved == {p \in Op : /\ J!IsActive(p) /\ journal[p].kind = "update"
                                /\ bak[p] = journal[p].old}
<1>1. J!Exists(o)
  BY DEF J!Exists, J!NoRow, J!IsActive, J!Active
<1>2. /\ journal[o].kind \in {"create", "update"} /\ journal[o].new # Absent
      /\ journal[o].new # journal[o].old
      /\ journal[o].old = Absent <=> journal[o].kind = "create"
  BY <1>1 DEF ServiceInv, RowInv, PlannedRows, Planned, IInv, DataOK, RowsOK,
     J!HashesMatchKind, J!Exists
<1>3. FilesFit(o)
  BY <1>1 DEF ServiceInv, RowInv, ContentInv
<1>4. saved \subseteq {o}
  BY <1>1 DEF ServiceInv, RowInv, OneActive
<1>5. CASE dest # Absent
  BY <1>2, <1>3, <1>5 DEF SavedFile, FilesFit
<1>6. CASE dest = Absent /\ journal[o].old = Absent
  <2>1. saved = {}
    BY <1>2, <1>4, <1>6
  <2> QED BY <1>2, <1>6, <2>1 DEF SavedFile
<1>7. CASE dest = Absent /\ journal[o].old # Absent
  <2>1. bak[o] = journal[o].old
    BY <1>2, <1>3, <1>7 DEF FilesFit
  <2>2. saved = {o}
    BY <1>2, <1>4, <1>7, <2>1
  <2>3. (CHOOSE p \in saved : TRUE) = o
    BY <2>2
  <2> QED BY <1>2, <1>7, <2>1, <2>2, <2>3 DEF SavedFile
<1> QED BY <1>5, <1>6, <1>7

LEMMA SavedShowsNext == ServiceInv' => OpenShows' /\ SettledShows'
BY SavedShows, PTL

LEMMA SameFileSameSaved ==
    ASSUME UNCHANGED <<dest, bak, journal>>
    PROVE  SavedFile' = SavedFile /\ SavedEdit' = SavedEdit
BY DEF SavedFile, SavedEdit, J!Exists, J!IsActive

LEMMA EditTypes ==
    ASSUME IInv, NEW o \in Op, J!IsActive(o)
    PROVE  SavedEdit[o] = [state |-> "open", old |-> journal[o].old, new |-> journal[o].new]
BY DEF SavedEdit, J!Exists, J!IsActive, J!NoRow, J!Active

\* Before and after a step.
Shows ==
    /\ OpenShows /\ SettledShows /\ OpenShows' /\ SettledShows'

LEMMA WithinIsAtomic ==
    ASSUME ServiceInv, Shows, idx # NoProject, NEW w \in Worker, Step(w), UNCHANGED journal
    PROVE  A!Next \/ (SavedFile' = SavedFile /\ SavedEdit' = SavedEdit)
<1> USE DEF ServiceInv
<1>1. SavedEdit' = SavedEdit /\ \A o \in Op : J!IsActive(o)' <=> J!IsActive(o)
  BY DEF SavedEdit, J!Exists, J!IsActive
<1>2. ASSUME NEW o \in Op, J!IsActive(o)
      PROVE  A!Next \/ (SavedFile' = SavedFile /\ SavedEdit' = SavedEdit)
  <2>1. /\ SavedFile = IF dest = journal[o].new THEN journal[o].new ELSE journal[o].old
        /\ SavedFile' = IF dest' = journal[o].new THEN journal[o].new ELSE journal[o].old
    BY <1>1, <1>2 DEF Shows, OpenShows
  <2>2. SavedEdit[o] = [state |-> "open", old |-> journal[o].old, new |-> journal[o].new]
    BY <1>2, EditTypes
  <2>3. SavedFile' = SavedFile \/ A!Install(o) \/ A!Restore(o)
    BY <1>1, <2>1, <2>2 DEF A!Install, A!Restore, A!Is
  <2> QED BY <1>1, <2>3 DEF A!Next
<1>3. CASE Settled
  <2>1. dest' = dest
    <3>1. SUFFICES ASSUME dest' # dest PROVE FALSE
      OBVIOUS
    <3>2. J!IsActive(me(w)) /\ Inside(w)
      BY <3>1, StepActs, TargetMoves, OutsideStep DEF fs, Quiet
    <3>3. me(w) \in Op
      BY <3>2 DEF Inside, Outside, IInv, ControlOK, JobFits, me, Labels
    <3> QED BY <1>3, <3>2, <3>3 DEF Settled
  <2>2. Settled'
    BY <1>1, <1>3 DEF Settled
  <2> QED BY <1>1, <1>3, <2>1, <2>2 DEF Shows, SettledShows
<1> QED BY <1>2, <1>3 DEF Settled

LEMMA MakingIsAtomic ==
    ASSUME ServiceInv, Shows, idx # NoProject, NEW w \in Worker, Makes(w)
    PROVE  A!Next
<1> USE DEF ServiceInv
<1>0. PICK o \in Op : o = me(w)
  BY DEF Makes
<1>1. /\ ~J!Exists(o) /\ journal'[o] = NewRow(w) /\ dest' = dest
      /\ \A p \in Op \ {o} : journal'[p] = journal[p]
      /\ pc[w] = "begin"
  BY <1>0 DEF Makes, J!CanCreate, IInv, DataOK, RowsOK, fs
<1>2. Settled
  <2> SUFFICES ASSUME NEW p \in Op, J!IsActive(p) PROVE FALSE
    BY DEF Settled
  <2>1. journal[p] \in J!Row
    BY DEF J!IsActive, J!NoRow, J!Active, IInv, DataOK, RowsOK
  <2> QED BY <2>1 DEF Makes, J!CanCreate, NewRow, J!Row
<1>3. SavedFile = dest /\ dest = job[w].old /\ Planned(job[w])
  BY <1>1, <1>2 DEF Shows, SettledShows, ContentInv, Looked, AtOld, RowInv, PlannedJobs
<1>4. /\ journal'[o].old = job[w].old /\ journal'[o].new = job[w].new
      /\ journal'[o].phase = "prepared" /\ journal'[o] # J!NoRow
  BY <1>1 DEF NewRow, J!NoRow
<1>5. J!IsActive(o)'
  BY <1>4 DEF J!IsActive, J!Active
<1>6. SavedFile' = SavedFile
  BY <1>1, <1>3, <1>4, <1>5 DEF Shows, OpenShows
<1>7. A!Is(o, "none")
  BY <1>1 DEF A!Is, SavedEdit
<1>8. ASSUME NEW p \in Op
      PROVE  ~A!Is(p, "open")
  <2>1. CASE J!Exists(p)
    <3>1. journal[p] \in J!Row /\ ~J!IsActive(p)
      BY <1>2, <2>1 DEF Settled, IInv, DataOK, RowsOK, J!Exists
    <3> QED
      BY <2>1, <3>1 DEF A!Is, SavedEdit, J!IsActive, J!Row, J!Phase, J!Active, J!Terminal
  <2>2. CASE ~J!Exists(p)
    BY <2>2 DEF A!Is, SavedEdit
  <2> QED BY <2>1, <2>2
<1>9. SavedEdit' = [SavedEdit EXCEPT
                      ![o] = [state |-> "open", old |-> SavedFile, new |-> job[w].new]]
  BY <1>1, <1>3, <1>4 DEF SavedEdit, J!Active, J!Exists, J!IsActive
<1>10. A!Open(o, job[w].new) /\ job[w].new \in Content
  BY <1>3, <1>6, <1>7, <1>8, <1>9 DEF A!Open, Planned
<1> QED BY <1>10 DEF A!Next

LEMMA AdvancingIsAtomic ==
    ASSUME ServiceInv, Shows, idx # NoProject, NEW w \in Worker, Step(w),
           NEW phase \in J!Phase, Advances(w, phase), ~UNCHANGED journal
    PROVE  A!Next \/ (SavedFile' = SavedFile /\ SavedEdit' = SavedEdit)
<1> USE DEF ServiceInv
<1>0. PICK o \in Op : o = me(w)
  BY DEF Advances
<1>1. /\ J!Exists(o) /\ journal[o] \in J!Row
      /\ journal'[o] = [journal[o] EXCEPT !.phase = phase]
      /\ \A p \in Op \ {o} : journal'[p] = journal[p]
      /\ J!CanTransition(journal[o].phase, phase)
      /\ dest' = dest
  BY <1>0, StepActs, TargetMoves DEF Quiet, Advances, J!Exists, Row, IInv, DataOK, RowsOK
<1>2. /\ journal'[o].phase = phase /\ journal'[o].old = journal[o].old
      /\ journal'[o].new = journal[o].new /\ journal'[o] # J!NoRow
  BY <1>1 DEF J!Row, J!NoRow, J!Phase, J!Active, J!Terminal
<1>3. J!IsActive(o)
  BY <1>1 DEF J!CanTransition, J!IsActive, J!Active, J!Terminal, J!Row, J!Phase
<1>4. SavedFile = IF dest = journal[o].new THEN journal[o].new ELSE journal[o].old
  BY <1>3 DEF Shows, OpenShows
<1>5. SavedEdit[o] = [state |-> "open", old |-> journal[o].old, new |-> journal[o].new]
  BY <1>3, EditTypes
<1>6. CASE phase \in J!Active
  <2>1. J!IsActive(o)'
    BY <1>2, <1>6 DEF J!IsActive
  <2>2. SavedEdit' = SavedEdit
    <3>1. ASSUME NEW p \in Op
          PROVE  SavedEdit'[p] = SavedEdit[p]
      BY <1>1, <1>2, <1>3, <2>1 DEF SavedEdit, J!Exists, J!IsActive
    <3> QED BY <3>1 DEF SavedEdit
  <2>3. SavedFile' = SavedFile
    BY <1>1, <1>2, <1>4, <2>1 DEF Shows, OpenShows
  <2> QED BY <2>2, <2>3
<1>7. CASE phase \in J!Terminal
  <2>1. Settled'
    BY <1>1, <1>2, <1>3, <1>7 DEF Settled, J!IsActive, J!Active, J!Terminal, RowInv, OneActive
  <2>2. SavedFile' = dest
    BY <1>1, <2>1 DEF Shows, SettledShows
  <2>3. journal[o].new # journal[o].old /\ FilesFit(o)
    BY <1>1, <1>3 DEF RowInv, PlannedRows, Planned, ContentInv
  <2>4. phase = "committed" => dest = journal[o].new
    BY <1>1, <2>3 DEF J!CanTransition, FilesFit
  <2>5. phase = "rolled_back" => dest = journal[o].old
    <3>1. phase = "rolled_back" => pc[w] \in {"undo_mark", "back_mark"}
      BY <1>0, <1>2, <1>3, RolledBackAt
    <3>2. pc[w] \in {"undo_mark", "back_mark"} => Looked(w) /\ Row(w).old = job[w].old
      BY OwnOperation DEF Begun, Requesting, Recovering
    <3> QED BY <1>0, <3>1, <3>2 DEF Looked, AtOld, Row
  <2>6. SavedEdit' = [SavedEdit EXCEPT ![o].state = phase]
    <3>1. SavedEdit'[o] = [state |-> phase, old |-> journal[o].old, new |-> journal[o].new]
      BY <1>2, <1>7 DEF SavedEdit, J!Exists, J!IsActive, J!Active, J!Terminal
    <3>2. \A p \in Op \ {o} : SavedEdit'[p] = SavedEdit[p]
      BY <1>1 DEF SavedEdit, J!Exists, J!IsActive
    <3>3. SavedEdit'[o] = [SavedEdit[o] EXCEPT !.state = phase]
      BY <1>5, <3>1
    <3> QED BY <3>2, <3>3 DEF SavedEdit
  <2>7. SavedFile = dest /\ A!Is(o, "open")
        /\ (phase = "committed" => SavedFile = SavedEdit[o].new)
        /\ (phase = "rolled_back" => SavedFile = SavedEdit[o].old)
    BY <1>4, <1>5, <1>7, <2>3, <2>4, <2>5 DEF A!Is, J!Terminal
  <2>8. A!Commit(o) \/ A!Abandon(o)
    BY <1>7, <2>2, <2>6, <2>7 DEF A!Commit, A!Abandon, J!Terminal
  <2> QED BY <2>8 DEF A!Next
<1> QED BY <1>6, <1>7 DEF J!Phase

LEMMA NextIsAtomic ==
    ASSUME MaxPower = 0, MaxWrite = 0, Deletable = FALSE,
           ServiceInv, Shows, idx # NoProject, [Next]_vars
    PROVE  A!Next \/ (SavedFile' = SavedFile /\ SavedEdit' = SavedEdit)
<1>1. CASE UNCHANGED <<dest, bak, journal>>
  BY <1>1, SameFileSameSaved
<1>2. ASSUME NEW w \in Worker, Step(w)
      PROVE  A!Next \/ (SavedFile' = SavedFile /\ SavedEdit' = SavedEdit)
  BY <1>2, StepOwnRow, WithinIsAtomic, MakingIsAtomic, AdvancingIsAtomic DEF ServiceInv, OwnRow
<1>3. ASSUME NEW w \in Worker, Request(w) \/ IoError(w) \/ Reopen(w)
      PROVE  UNCHANGED <<dest, bak, journal>>
  BY <1>3 DEF Request, PrepareEdit, PrepareCreate, IoError, Reopen, fs, db
<1>4. ~DeleteProject /\ ~PowerLoss
  BY DEF DeleteProject, PowerLoss, ServiceInv, IInv, EnvOK
<1>5. ASSUME NEW content, ExternalWrite(content)
      PROVE  FALSE
  BY <1>5 DEF ExternalWrite, ServiceInv, IInv, EnvOK
<1>6. CASE (\E h \in Host : Crash(h)) \/ Flush \/ UNCHANGED vars
  BY <1>1, <1>6 DEF Crash, Flush, vars, fs, db
<1> QED
  BY <1>1, <1>2, <1>3, <1>4, <1>5, <1>6 DEF Next, Environment

\* Where processes take turns, without power losses, outside writes and deletions, an
\* edit is atomic, whatever crashes and fails: a reader of the mapping sees the file change
\* in one step between the content the edit found and the content it brings, sees
\* it committed only with the new content and rolled back only with the old one.
THEOREM AtomicEditImplementedInTurns ==
    ASSUME MaxPower = 0, MaxWrite = 0, Deletable = FALSE
    PROVE  Spec /\ []TakeTurns => EditIsAtomic
<1>1. IInv /\ idx # NoProject /\ [Next]_vars => (idx # NoProject)'
  BY ProjectStays
<1>2. Init => idx # NoProject
  BY DEF Init
<1>3. Init => A!Init
  <2> SUFFICES ASSUME Init PROVE A!Init
    OBVIOUS
  <2>1. Settled /\ \A o \in Op : ~J!Exists(o)
    BY DEF Init, Settled, J!IsActive, J!Exists, J!NoRow, J!Active
  <2>2. SavedFile = Initial
    BY <2>1 DEF Init, Settled, SavedFile
  <2> QED BY <2>1, <2>2 DEF A!Init, A!None, SavedEdit
<1>4. ServiceInv /\ ServiceInv' /\ idx # NoProject /\ [Next]_vars
      => [A!Next]_<<SavedFile, SavedEdit>>
  BY SavedShows, SavedShowsNext, NextIsAtomic DEF Shows
<1> QED
  BY <1>1, <1>2, <1>3, <1>4, ServiceInvHolds, InvariantHolds, PTL
     DEF Spec, EditIsAtomic, A!Spec

\* In one process, then, an edit is atomic.
THEOREM AtomicEditImplemented ==
    ASSUME OneProcess, MaxPower = 0, MaxWrite = 0, Deletable = FALSE
    PROVE  Spec => EditIsAtomic
BY AtomicEditImplementedInTurns, OneProcessTakesTurns, PTL

-----------------------------------------------------------------------------
\* Directories, without power losses and without outside writes.

Restoring == {"rst_linktarget", "rst_dropbackup", "rst_refresh", "rst_rmtemp"}
Unmade == {"undo_mark", "back_read", "back_mark"}

\* What a service that is inside an operation knows about the directories that its
\* request is to make, and where it has removed them.
DirAt(w) ==
    /\ pc[w] = "begin" => (job[w].parents => job[w].mkdirs)
    /\ pc[w] \in {"begin", "mkdirs"} => (job[w].parents => ~parent)
    /\ pc[w] \in Begun => (Row(w).parents => job[w].parents)
    /\ pc[w] \in Recovering => Row(w).parents = job[w].parents
    /\ pc[w] \in Restoring => job[w].old # Absent
    /\ pc[w] \in Unmade /\ J!IsActive(me(w)) => (Row(w).parents => ~parent)

DirInv == idx # NoProject => \A w \in Worker : DirAt(w)

LEMMA EndsDir ==
    ASSUME NEW w \in Worker, Ended(w)
    PROVE  DirAt(w)'
BY DEF Ended, DirAt, Begun, Requesting, Recovering, Restoring, Unmade

\* A step that goes on with the operation and leaves the job what it is.
GoesOn(w) ==
    /\ pc[w] \in Begun \cup Recovering
    /\ me(w)' = me(w) /\ job'[w].parents = job[w].parents /\ job'[w].old = job[w].old
    /\ pc'[w] \in Begun => pc[w] \in Begun
    /\ pc'[w] \in Recovering => pc[w] \in Recovering
    /\ pc'[w] \notin {"begin", "mkdirs"}
    /\ pc'[w] \in Restoring => pc[w] \in Restoring \cup {"rst_check"}

LEMMA GoesOnDir ==
    ASSUME IInv, RowInv, DirInv, idx # NoProject, NEW w \in Worker, Step(w), GoesOn(w),
           pc'[w] \in Unmade /\ Row(w).parents => ~parent' \/ ~J!IsActive(me(w))'
    PROVE  DirAt(w)'
<1>1. me(w) \in Op
  BY DEF GoesOn, IInv, ControlOK, JobFits, me, Begun
<1>2. J!Exists(me(w)) /\ ServedRow(w) /\ DirAt(w)
  BY <1>1 DEF GoesOn, RowInv, ServedRow, JobIsRow, DirInv
<1>3. Row(w)'.parents = Row(w).parents
  BY <1>1, <1>2, StepKeepsRows DEF Row, GoesOn
<1>4. pc[w] = "rst_check" => job[w].old # Absent
  BY <1>2 DEF ServedRow, JobIsRow
<1> QED
  BY <1>2, <1>3, <1>4 DEF GoesOn, DirAt

LEMMA CommitGoesOn ==
    ASSUME IInv, NEW w \in Worker, CommitStep(w), ~Begin(w), ~MakeParents(w)
    PROVE  Ended(w) \/ (GoesOn(w) /\ pc'[w] \notin Unmade)
<1> USE DEF GoesOn, Ended, Unmade, Restoring, Begun, Requesting, Recovering, IInv, ControlOK,
       Mark, Try, Fail, EndAt, Goto, me
<1>1. CASE OpenTemp(w) \/ FillTemp(w) \/ Verify(w) \/ LinkBackup(w) \/ DropTarget(w)
  BY <1>1 DEF OpenTemp, FillTemp, Verify, LinkBackup, DropTarget
<1>2. CASE MarkBackupReady(w) \/ MarkReplaced(w) \/ MarkIndexed(w) \/ MarkCommitted(w)
  BY <1>2 DEF MarkBackupReady, MarkReplaced, MarkIndexed, MarkCommitted
<1>3. CASE LinkTarget(w) \/ DropTemp(w) \/ Refresh(w) \/ RemoveBackup(w) \/ RemoveTemp(w)
  BY <1>3 DEF LinkTarget, DropTemp, Refresh, RemoveBackup, RemoveTemp
<1> QED
  BY <1>1, <1>2, <1>3 DEF CommitStep

LEMMA UndoGoesOn ==
    ASSUME IInv, NEW w \in Worker, UndoStep(w)
    PROVE  /\ Ended(w) \/ GoesOn(w)
           /\ pc'[w] \in Unmade => UndoClearTemp(w) \/ UndoRemoveDirectories(w)
<1>0. job[w] \in Job
  BY DEF IInv, ControlOK, JobFits
<1> USE <1>0 DEF GoesOn, Ended, Unmade, Restoring, Begun, Requesting, Recovering, IInv, ControlOK,
       Mark, Try, Fail, EndAt, Goto, me
<1>1. CASE UndoVerify(w) \/ UndoRemoveTemp(w) \/ UndoLinkTemp(w) \/ UndoDropTarget(w)
  BY <1>1 DEF UndoVerify, UndoRemoveTemp, UndoLinkTemp, UndoDropTarget, Job
<1>2. CASE UndoLinkTarget(w) \/ UndoDropBackup(w) \/ UndoRefresh(w) \/ UndoMark(w)
  BY <1>2 DEF UndoLinkTarget, UndoDropBackup, UndoRefresh, UndoMark
<1>3. CASE UndoClearTemp(w) \/ UndoRemoveDirectories(w)
  BY <1>3 DEF UndoClearTemp, UndoRemoveDirectories
<1> QED
  BY <1>1, <1>2, <1>3 DEF UndoStep

LEMMA RecoveryGoesOn ==
    ASSUME IInv, NEW w \in Worker, RecoveryStep(w), ~ListIncomplete(w)
    PROVE  /\ Ended(w) \/ GoesOn(w)
           /\ pc'[w] \in Unmade =>
                BackRemoveDirectories(w) \/ BackRead(w) \/ RestoreRemoveTemp(w)
<1>0. job[w] \in Job
  BY DEF IInv, ControlOK, JobFits
<1> USE <1>0 DEF GoesOn, Ended, Unmade, Restoring, Begun, Requesting, Recovering, IInv, ControlOK,
       Mark, Try, Fail, EndAt, Goto, me
<1>1. CASE Inspect(w)
  BY <1>1 DEF Inspect
<1>2. CASE FwdRefresh(w) \/ FwdRead(w) \/ FwdAdvance(w) \/ FwdRemoveTemp(w)
  BY <1>2 DEF FwdRefresh, FwdRead, FwdAdvance, FwdRemoveTemp, Job
<1>3. CASE FwdRemoveBackup(w) \/ FwdCommit(w) \/ BackRefresh(w) \/ BackRemoveTemp(w)
  BY <1>3 DEF FwdRemoveBackup, FwdCommit, BackRefresh, BackRemoveTemp
<1>4. CASE BackRemoveBackup(w) \/ BackRemoveDirectories(w) \/ BackRead(w) \/ BackMark(w)
  BY <1>4 DEF BackRemoveBackup, BackRemoveDirectories, BackRead, BackMark, Job
<1>5. CASE RestoreCheck(w) \/ RestoreLinkTarget(w) \/ RestoreDropBackup(w)
  BY <1>5 DEF RestoreCheck, RestoreLinkTarget, RestoreDropBackup
<1>6. CASE RestoreRefresh(w) \/ RestoreRemoveTemp(w) \/ KeepConflict(w)
  BY <1>6 DEF RestoreRefresh, RestoreRemoveTemp, KeepConflict
<1> QED
  BY <1>1, <1>2, <1>3, <1>4, <1>5, <1>6 DEF RecoveryStep

\* Where the directories of a creation are removed, nothing else is left in them.
LEMMA RemovesDirectories ==
    ASSUME ServiceInv, idx # NoProject, NEW w \in Worker,
           pc[w] \in {"undo_rmdirs", "back_rmdirs"}, J!IsActive(me(w)), job[w].old = Absent
    PROVE  Empty
<1> USE DEF ServiceInv
<1>1. pc[w] \in Begun \cup Recovering
  BY DEF Begun, Requesting, Recovering
<1>2. me(w) \in Op /\ ServedRow(w) /\ Looked(w)
  BY <1>1, OwnOperation
<1>3. dest = Absent
  BY <1>2 DEF Looked, AtOld
<1>4. temp[me(w)] = Absent /\ bak[me(w)] = Absent
  <2>1. CASE pc[w] = "undo_rmdirs"
    BY <1>2, <2>1 DEF ServedRow, Cleared, NoTemp, NoBackup
  <2>2. CASE pc[w] = "back_rmdirs"
    BY <1>2, <2>2 DEF ServedRow, Cleared, NoTemp, NoBackup
  <2> QED BY <2>1, <2>2
<1>5. \A o \in Op \ {me(w)} : temp[o] = Absent /\ bak[o] = Absent
  BY <1>2 DEF RowInv, OneActive, Tidy
<1> QED BY <1>3, <1>4, <1>5 DEF Empty

\* Only a creation has directories to make.
LEMMA ParentsAreCreates ==
    ASSUME ServiceInv, idx # NoProject, NEW w \in Worker, pc[w] \in Begun \cup Recovering,
           Row(w).parents
    PROVE  job[w].kind = "create" /\ job[w].old = Absent
<1> USE DEF ServiceInv
<1>1. me(w) \in Op /\ J!Exists(me(w)) /\ ServedRow(w)
  BY OwnOperation
<1>2. Row(w).kind = "create"
  BY <1>1 DEF RowInv, PlannedRows, Planned, Row
<1>3. Row(w).old = Absent
  BY <1>1, <1>2 DEF IInv, DataOK, RowsOK, J!HashesMatchKind, J!Exists, Row
<1> QED BY <1>1, <1>2, <1>3 DEF ServedRow, JobIsRow

LEMMA CommitDir ==
    ASSUME ServiceInv, DirInv, idx # NoProject, NEW w \in Worker, CommitStep(w)
    PROVE  DirAt(w)'
<1> USE DEF ServiceInv
<1>0. Step(w) /\ DirAt(w)
  BY DEF Step, DirInv
<1>1. CASE Begin(w)
  <2>1. CASE EndAt(w, "idle")
    BY <2>1, EndsDir DEF EndAt, Goto, Ended, IInv, ControlOK
  <2>2. CASE /\ J!CreateEditOperation(me(w), NewRow(w))
             /\ Goto(w, IF job[w].mkdirs THEN "mkdirs" ELSE "opentemp")
             /\ UNCHANGED <<lease, job>>
    <3>1. me(w) \in Op /\ pc[w] = "begin"
      BY <1>1 DEF Begin, IInv, ControlOK, JobFits, me, Requesting
    <3>2. /\ pc'[w] \in {"mkdirs", "opentemp"}
         /\ me(w)' = me(w) /\ job'[w] = job[w] /\ parent' = parent
      BY <1>1, <2>2 DEF Begin, fs, Goto, IInv, ControlOK, me
    <3>3. Row(w)'.parents = job[w].parents
      BY <2>2, <3>1, <3>2 DEF J!CreateEditOperation, NewRow, Row, IInv, DataOK, RowsOK
    <3> QED
      BY <1>0, <3>1, <3>2, <3>3 DEF DirAt, Begun, Requesting, Recovering, Restoring, Unmade
  <2> QED BY <1>1, <2>1, <2>2 DEF Begin, NewRow
<1>2. CASE MakeParents(w)
  <2>1. CASE Fail(w)
    BY <1>2, <2>1, EndsDir DEF MakeParents, Fail, EndAt, Goto, Ended, IInv, ControlOK, Recovering
  <2>2. CASE /\ job' = [job EXCEPT ![w].mkdirs = FALSE, ![w].parents = ~parent]
             /\ Goto(w, "opentemp")
    <3>1. job[w] \in Job /\ pc[w] = "mkdirs"
      BY <1>2 DEF MakeParents, IInv, ControlOK, JobFits
    <3>2. /\ pc'[w] = "opentemp" /\ me(w)' = me(w) /\ journal' = journal
          /\ job'[w].parents = ~parent
      BY <1>2, <2>2, <3>1 DEF Goto, IInv, ControlOK, me, Job, MakeParents, db
    <3>3. Row(w)' = Row(w)
      BY <3>2 DEF Row
    <3> QED
      BY <1>0, <3>1, <3>2, <3>3 DEF DirAt, Begun, Requesting, Recovering, Restoring, Unmade
  <2> QED BY <1>2, <2>1, <2>2 DEF MakeParents
<1>3. CASE ~Begin(w) /\ ~MakeParents(w)
  BY <1>0, <1>3, CommitGoesOn, GoesOnDir, EndsDir
<1> QED BY <1>1, <1>2, <1>3

LEMMA UndoDir ==
    ASSUME ServiceInv, DirInv, idx # NoProject, NEW w \in Worker, UndoStep(w)
    PROVE  DirAt(w)'
<1> USE DEF ServiceInv
<1>0. Step(w) /\ DirAt(w)
  BY DEF Step, DirInv
<1>1. CASE UndoClearTemp(w)
  <2>1. pc'[w] = "undo_mark" => job[w].kind = "update"
    BY <1>1 DEF UndoClearTemp, Goto, Updating, IInv, ControlOK
  <2>2. pc'[w] \in Unmade => ~Row(w).parents
    BY <1>1, <2>1, ParentsAreCreates DEF UndoClearTemp, Goto, Unmade, IInv, ControlOK,
       Begun, Requesting
  <2> QED BY <1>0, <2>2, UndoGoesOn, GoesOnDir, EndsDir
<1>2. CASE UndoRemoveDirectories(w)
  <2>1. pc[w] = "undo_rmdirs" /\ J!IsActive(me(w))
    BY <1>2 DEF UndoRemoveDirectories, RowInv, ServedRow, PhaseAt, InReplaced, J!IsActive,
       J!Active, Row
  <2>2. Row(w).parents => job[w].parents /\ Empty
    BY <1>0, <2>1, ParentsAreCreates, RemovesDirectories DEF DirAt, Begun, Requesting
  <2>3. Row(w).parents => ~parent'
    BY <1>2, <2>2 DEF UndoRemoveDirectories, IInv, FilesOK
  <2> QED BY <1>0, <2>3, UndoGoesOn, GoesOnDir, EndsDir
<1>3. CASE ~UndoClearTemp(w) /\ ~UndoRemoveDirectories(w)
  BY <1>0, <1>3, UndoGoesOn, GoesOnDir, EndsDir
<1> QED BY <1>1, <1>2, <1>3

LEMMA RecoveryDir ==
    ASSUME ServiceInv, DirInv, idx # NoProject, NEW w \in Worker, RecoveryStep(w)
    PROVE  DirAt(w)'
<1> USE DEF ServiceInv
<1>0. Step(w) /\ DirAt(w)
  BY DEF Step, DirInv
<1>1. CASE ListIncomplete(w)
  <2>1. CASE Goto(w, "idle")
    BY <2>1, EndsDir DEF Ended, Goto, IInv, ControlOK
  <2>2. ASSUME NEW o \in Op, J!IsActive(o), job' = [job EXCEPT ![w] = Listed(o)],
               Goto(w, "rec_inspect")
        PROVE  DirAt(w)'
    <3>1. pc'[w] = "rec_inspect" /\ job'[w] = Listed(o) /\ journal' = journal
      BY <1>1, <2>2 DEF ListIncomplete, Goto, db, IInv, ControlOK
    <3>2. me(w)' = o /\ job'[w].parents = journal[o].parents
      BY <3>1 DEF me, Listed, NoJob
    <3>3. Row(w)'.parents = job'[w].parents
      BY <3>1, <3>2 DEF Row
    <3> QED
      BY <3>1, <3>3 DEF DirAt, Begun, Requesting, Restoring, Unmade
  <2> QED BY <1>1, <2>1, <2>2 DEF ListIncomplete, Listed
<1>2. CASE BackRemoveDirectories(w)
  <2>1. pc[w] = "back_rmdirs" /\ pc[w] \in Recovering
    BY <1>2 DEF BackRemoveDirectories, Recovering
  <2>2. Row(w).parents /\ J!IsActive(me(w)) => job[w].parents /\ Empty
    BY <1>0, <2>1, ParentsAreCreates, RemovesDirectories DEF DirAt
  <2>3. UNCHANGED journal /\ me(w)' = me(w)
    BY <1>2 DEF BackRemoveDirectories, db, me
  <2>4. J!IsActive(me(w))' => J!IsActive(me(w))
    BY <2>3 DEF J!IsActive
  <2>5. Row(w).parents => ~parent' \/ ~J!IsActive(me(w))'
    BY <1>2, <2>2, <2>4 DEF BackRemoveDirectories, IInv, FilesOK
  <2> QED
    BY <1>0, <1>2, <2>5, RecoveryGoesOn, GoesOnDir, EndsDir
       DEF BackRemoveDirectories, ListIncomplete
<1>3. CASE BackRead(w)
  <2>1. CASE pc'[w] \in Unmade
    <3>1. /\ pc[w] \in Unmade /\ UNCHANGED <<journal, parent>> /\ me(w)' = me(w)
      <4>1. job[w] \in Job
        BY DEF IInv, ControlOK, JobFits
      <4> QED
        BY <1>3, <2>1, <4>1 DEF BackRead, Unmade, fs, db, me, Fail, EndAt, Goto, IInv, ControlOK,
           Job, Recovering
    <3>2. J!IsActive(me(w))' => J!IsActive(me(w))
      BY <3>1 DEF J!IsActive
    <3>3. Row(w).parents => ~parent' \/ ~J!IsActive(me(w))'
      BY <1>0, <3>1, <3>2 DEF DirAt
    <3> QED BY <1>0, <1>3, <3>3, RecoveryGoesOn, GoesOnDir, EndsDir DEF BackRead, ListIncomplete
  <2>2. CASE pc'[w] \notin Unmade
    BY <1>0, <1>3, <2>2, RecoveryGoesOn, GoesOnDir, EndsDir DEF BackRead, ListIncomplete
  <2> QED BY <2>1, <2>2
<1>4. CASE RestoreRemoveTemp(w)
  <2>1. pc[w] = "rst_rmtemp" /\ job[w].old # Absent
    BY <1>0, <1>4 DEF RestoreRemoveTemp, DirAt, Restoring
  <2>2. ~Row(w).parents
    BY <2>1, ParentsAreCreates DEF Recovering
  <2> QED
    BY <1>0, <1>4, <2>2, RecoveryGoesOn, GoesOnDir, EndsDir
       DEF RestoreRemoveTemp, ListIncomplete
<1>5. CASE ~ListIncomplete(w) /\ ~BackRemoveDirectories(w) /\ ~BackRead(w) /\ ~RestoreRemoveTemp(w)
  BY <1>0, <1>5, RecoveryGoesOn, GoesOnDir, EndsDir
<1> QED BY <1>1, <1>2, <1>3, <1>4, <1>5

LEMMA NextKeepsDirs ==
    ASSUME TakeTurns, MaxPower = 0, MaxWrite = 0, ServiceInv, DirInv, [Next]_vars
    PROVE  DirInv'
<1> USE DEF ServiceInv
<1>1. \A w \in Worker : idx # NoProject => DirAt(w)
  BY DEF DirInv
<1>2. ASSUME UNCHANGED <<parent, journal>>, idx # NoProject,
             NEW v \in Worker, pc'[v] = pc[v], job'[v] = job[v]
      PROVE  DirAt(v)'
  <2>1. me(v)' = me(v) /\ Row(v)' = Row(v)
    BY <1>2 DEF me, Row
  <2> QED BY <1>1, <1>2, <2>1 DEF DirAt, J!IsActive
<1>3. Refreshed # NoProject => idx # NoProject
  BY DEF Refreshed
<1>4. CASE UNCHANGED vars
  BY <1>2, <1>4 DEF vars, fs, db, local, DirInv
<1>5. ASSUME NEW w \in Worker, Step(w)
      PROVE  DirInv'
  <2>0. idx' # NoProject => idx # NoProject
    BY <1>3, <1>5, CommitShape, UndoShape, RecoveryShape DEF Step, StepShape
  <2> SUFFICES ASSUME idx # NoProject PROVE \A v \in Worker : DirAt(v)'
    BY <2>0 DEF DirInv
  <2>1. DirAt(w)'
    BY <1>5, CommitDir, UndoDir, RecoveryDir DEF Step
  <2>2. ASSUME NEW v \in Worker, v # w
        PROVE  DirAt(v)'
    <3>1. pc'[v] = pc[v] /\ job'[v] = job[v] /\ me(v)' = me(v)
      BY <1>5, <2>2, StepControl DEF Control, IInv, ControlOK, me
    <3>2. CASE Inside(v)
      BY <1>2, <1>5, <2>2, <3>1, <3>2, Alone, OutsideStep DEF fs, db
    <3>3. CASE pc[v] = "rec_inspect"
      <4>1. me(v) \in Op /\ J!Exists(me(v))
        BY <3>3, OwnOperation DEF Recovering
      <4>2. Row(v)'.parents = job'[v].parents
        BY <1>1, <1>5, <3>1, <3>3, <4>1, StepKeepsRows DEF DirAt, Row, Recovering
      <4> QED
        BY <3>1, <3>3, <4>2 DEF DirAt, Begun, Requesting, Restoring, Unmade
    <3>4. CASE pc[v] \in {"start", "idle", "refused"}
      BY <3>1, <3>4, EndsDir DEF Ended
    <3> QED BY <3>2, <3>3, <3>4 DEF Inside, Outside
  <2> QED BY <2>1, <2>2
<1>6. ASSUME NEW w \in Worker, Request(w)
      PROVE  DirInv'
  <2>1. UNCHANGED <<fs, db>> /\ pc' = [pc EXCEPT ![w] = "begin"]
    BY <1>6 DEF Request, PrepareEdit, PrepareCreate, Goto
  <2>2. \A v \in Worker \ {w} : pc'[v] = pc[v] /\ job'[v] = job[v]
    BY <1>6 DEF Request, PrepareEdit, PrepareCreate, Goto, IInv, ControlOK
  <2>3. job'[w].parents => job'[w].mkdirs /\ ~parent
    <3>1. ASSUME NEW o \in Op, NEW new \in Content, PrepareEdit(w, o, new)
          PROVE  ~job'[w].parents
      BY <3>1 DEF PrepareEdit, NoJob, IInv, ControlOK
    <3>2. ASSUME NEW o \in Op, NEW new \in Content, NEW mkdirs \in BOOLEAN,
                 PrepareCreate(w, o, new, mkdirs)
          PROVE  job'[w].parents => job'[w].mkdirs /\ ~parent
      BY <3>2 DEF PrepareCreate, NoJob, IInv, ControlOK
    <3> QED BY <1>6, <3>1, <3>2 DEF Request
  <2>4. DirAt(w)'
    <3>1. pc'[w] = "begin" /\ parent' = parent
      BY <2>1 DEF IInv, ControlOK, fs
    <3> QED
      BY <2>3, <3>1 DEF DirAt, Begun, Recovering, Restoring, Unmade
  <2> QED BY <1>2, <2>1, <2>2, <2>4 DEF fs, db, DirInv
<1>7. ASSUME NEW w \in Worker, IoError(w) \/ Reopen(w)
      PROVE  DirInv'
  <2>1. UNCHANGED <<fs, journal>> /\ (idx' # NoProject => idx # NoProject)
    BY <1>3, <1>7 DEF IoError, Reopen, db
  <2>2. \A v \in Worker \ {w} : pc'[v] = pc[v] /\ job'[v] = job[v]
    BY <1>7 DEF IoError, Reopen, Fail, EndAt, Goto, IInv, ControlOK
  <2>3. \/ pc[w] = "refresh" /\ pc'[w] = "undo_verify" /\ job'[w] = job[w]
        \/ Ended(w)
    BY <1>7 DEF IoError, Reopen, Fail, EndAt, Goto, IInv, ControlOK, Ended
  <2>4. idx # NoProject => DirAt(w)'
    <3>1. CASE pc[w] = "refresh" /\ pc'[w] = "undo_verify" /\ job'[w] = job[w]
      <4>1. me(w)' = me(w) /\ Row(w)' = Row(w)
        BY <2>1, <3>1 DEF me, Row
      <4> QED
        BY <1>1, <3>1, <4>1 DEF DirAt, Begun, Requesting, Recovering, Restoring, Unmade
    <3> QED BY <2>3, <3>1, EndsDir
  <2> QED BY <1>2, <2>1, <2>2, <2>4 DEF DirInv, fs
<1>8. ASSUME NEW hosts, Forgotten(hosts), UNCHANGED <<fs, db>>
      PROVE  DirInv'
  <2>1. \A v \in Worker : (pc'[v] = pc[v] /\ job'[v] = job[v]) \/ Ended(v)
    BY <1>8 DEF Forgotten, Ended
  <2> QED BY <1>2, <1>8, <2>1, EndsDir DEF DirInv, fs, db
<1>9. ASSUME UNCHANGED <<fs, db, local>>
      PROVE  DirInv'
  BY <1>2, <1>9 DEF DirInv, fs, db, local
<1>10. CASE DeleteProject
  BY <1>10 DEF DeleteProject, DirInv
<1>11. ~PowerLoss
  BY DEF PowerLoss, IInv, EnvOK
<1>12. ASSUME NEW content, ExternalWrite(content)
       PROVE  FALSE
  BY <1>12 DEF ExternalWrite, IInv, EnvOK
<1> QED
  BY <1>4, <1>5, <1>6, <1>7, <1>8, <1>9, <1>10, <1>11, <1>12
     DEF Next, Environment, Crash, Flush

LEMMA InitDirs == Init => DirInv
<1> SUFFICES ASSUME Init, NEW w \in Worker PROVE DirAt(w)
  BY DEF DirInv
<1>1. pc[w] \in {"start", "idle"}
  BY DEF Init
<1> QED BY <1>1 DEF DirAt, Begun, Requesting, Recovering, Restoring, Unmade

\* What a step may do to the row of a creation whose directories are still there.
RollsBackBare ==
    \A o \in Op :
       /\ J!IsActive(o) /\ journal'[o].phase = "rolled_back"
       /\ journal[o].parents
       => ~parent

LEMMA NextRollsBackBare ==
    ASSUME MaxPower = 0, ServiceInv, DirInv, [Next]_vars
    PROVE  RollsBackBare
<1> USE DEF ServiceInv
<1> SUFFICES ASSUME NEW o \in Op, J!IsActive(o), journal'[o].phase = "rolled_back",
                    journal[o].parents
             PROVE  ~parent
  BY DEF RollsBackBare
<1>1. journal'[o] # journal[o] /\ J!Exists(o) /\ idx # NoProject
  BY DEF J!IsActive, J!Active, J!Exists, J!NoRow, RowInv
<1>2. ASSUME NEW w \in Worker, Step(w)
      PROVE  ~parent
  <2>1. o = me(w)
    BY <1>1, <1>2, StepOwnRow DEF OwnRow, Makes, Advances, IInv, DataOK, RowsOK
  <2>2. pc[w] \in {"undo_mark", "back_mark"}
    BY <1>1, <1>2, <2>1, RolledBackAt
  <2> QED BY <1>1, <2>1, <2>2 DEF DirInv, DirAt, Unmade, Row
<1>3. ASSUME NEW w \in Worker, Request(w) \/ IoError(w) \/ Reopen(w)
      PROVE  UNCHANGED journal
  BY <1>3 DEF Request, PrepareEdit, PrepareCreate, IoError, Reopen, db
<1>4. ~PowerLoss
  BY DEF PowerLoss, IInv, EnvOK
<1>5. DeleteProject => journal'[o].phase = "none"
  BY DEF DeleteProject, J!NoRow
<1>6. UNCHANGED vars => UNCHANGED journal
  BY DEF vars, db
<1> QED
  BY <1>1, <1>2, <1>3, <1>4, <1>5, <1>6 DEF Next, Environment, Crash, ExternalWrite, Flush, db

\* Where processes take turns, without power losses and outside writes, an operation that is
\* rolled back has removed the directories its row records, whether the request
\* rolled itself back or a recovery did after a crash anywhere between making the
\* directories and marking the row.
THEOREM RollbacksRemoveDirectoriesInTurns ==
    ASSUME MaxPower = 0, MaxWrite = 0
    PROVE  Spec /\ []TakeTurns => RollbackRemovesDirectories
<1>1. TakeTurns /\ ServiceInv /\ DirInv /\ [Next]_vars => DirInv'
  BY NextKeepsDirs
<1>2. ServiceInv /\ DirInv /\ [Next]_vars => [RollsBackBare]_vars
  BY NextRollsBackBare
<1> QED
  BY <1>1, <1>2, InitDirs, ServiceInvHolds, PTL
     DEF Spec, RollbackRemovesDirectories, RollsBackBare

\* In one process, then, a rolled back creation leaves none of its directories.
THEOREM RollbacksRemoveDirectories ==
    ASSUME OneProcess, MaxPower = 0, MaxWrite = 0
    PROVE  Spec => RollbackRemovesDirectories
BY RollbacksRemoveDirectoriesInTurns, OneProcessTakesTurns, PTL

-----------------------------------------------------------------------------
\* Operations that are left open, without power losses and without outside writes.

\* A missing directory holds nothing.
Housed == ~parent => Empty

\* What a service knows of the files beside the target before it needs them: that
\* its first calls find the names free and its own writes in place, and that a
\* recovery which refuses the target saw neither version in it.
Ready(w) ==
    /\ pc[w] = "begin" => (job[w].mkdirs => job[w].kind = "create")
    /\ pc[w] = "mkdirs" => job[w].kind = "create"
    /\ pc[w] \in {"mkdirs", "opentemp", "undo_linktemp"} => temp[me(w)] = Absent
    /\ pc[w] = "filltemp" => temp[me(w)] = Torn
    /\ pc[w] = "verify" => temp[me(w)] = job[w].new
    /\ pc[w] = "droptemp" => temp[me(w)] # Absent
    /\ pc[w] \in {"mkdirs", "opentemp", "filltemp", "verify", "linkbackup"} =>
         bak[me(w)] = Absent
    /\ pc[w] = "ext_refresh" => dest \notin {Absent, job[w].old, job[w].new}

ReadyInv == Housed /\ \A w \in Worker : Ready(w)

\* The places that Ready speaks of.
Prepares == {"begin", "mkdirs", "opentemp", "filltemp", "verify", "linkbackup",
             "droptemp", "undo_linktemp", "ext_refresh"}

LEMMA ElsewhereReady ==
    ASSUME NEW w \in Worker, pc'[w] \notin Prepares
    PROVE  Ready(w)'
BY DEF Ready, Prepares

LEMMA CommitReady ==
    ASSUME ServiceInv, ReadyInv, NEW w \in Worker, CommitStep(w)
    PROVE  Ready(w)'
<1> USE DEF ServiceInv
<1>0. Ready(w) /\ job[w] \in Job /\ FilesOK
  BY DEF ReadyInv, IInv, ControlOK, JobFits
<1> USE DEF Goto, Try, Fail, EndAt, Prepares, IInv, ControlOK, Recovering
<1>1. CASE Begin(w)
  <2>1. CASE EndAt(w, "idle")
    BY <2>1, ElsewhereReady
  <2>2. CASE /\ idx # NoProject
             /\ J!CreateEditOperation(me(w), NewRow(w))
             /\ Goto(w, IF job[w].mkdirs THEN "mkdirs" ELSE "opentemp")
             /\ UNCHANGED <<lease, job>>
    <3>1. me(w) \in Op /\ pc[w] = "begin"
      BY <1>1 DEF Begin, JobFits, me, Requesting
    <3>2. ~J!Exists(me(w))
      BY <2>2 DEF J!CreateEditOperation, J!CanCreate
    <3>3. temp[me(w)] = Absent /\ bak[me(w)] = Absent
      BY <2>2, <3>1, <3>2 DEF RowInv, Tidy, J!Exists, J!IsActive, J!Active, J!NoRow
    <3>4. /\ pc'[w] = IF job[w].mkdirs THEN "mkdirs" ELSE "opentemp"
          /\ job'[w] = job[w] /\ me(w)' = me(w) /\ temp' = temp /\ bak' = bak
      BY <1>1, <2>2 DEF Begin, fs, me
    <3> QED BY <1>0, <3>1, <3>3, <3>4 DEF Ready
  <2> QED BY <1>1, <2>1, <2>2 DEF Begin, NewRow
<1>2. CASE MakeParents(w)
  <2>1. pc'[w] \notin Prepares \/ pc'[w] = "opentemp"
    BY <1>2 DEF MakeParents
  <2>2. CASE pc'[w] = "opentemp"
    BY <1>0, <1>2, <2>2 DEF MakeParents, Ready, me, Job
  <2> QED BY <2>1, <2>2, ElsewhereReady
<1>3. CASE OpenTemp(w)
  <2>1. pc'[w] \notin Prepares \/ (pc'[w] = "filltemp" /\ me(w)' = me(w) /\ pc[w] = "opentemp")
    BY <1>3 DEF OpenTemp, me
  <2>2. CASE pc'[w] = "filltemp"
    <3>1. me(w) \in Op
      BY <1>3 DEF OpenTemp, JobFits, me, Requesting
    <3>2. bak'[me(w)] = Absent /\ temp'[me(w)] = Torn
      BY <1>0, <1>3, <2>2, <3>1 DEF OpenTemp, Ready, FilesOK
    <3> QED BY <2>1, <2>2, <3>2 DEF Ready
  <2> QED BY <2>1, <2>2, ElsewhereReady
<1>4. CASE FillTemp(w)
  <2>1. me(w) \in Op /\ pc[w] = "filltemp"
    BY <1>4 DEF FillTemp, JobFits, me, Requesting
  <2>2. pc'[w] = "verify" /\ job'[w] = job[w] /\ me(w)' = me(w) /\ bak' = bak
    BY <1>4 DEF FillTemp, me
  <2>3. temp'[me(w)] = job[w].new
    BY <1>0, <1>4, <2>1 DEF FillTemp, Ready, FilesOK
  <2> QED BY <1>0, <2>1, <2>2, <2>3 DEF Ready
<1>5. CASE Verify(w)
  <2>1. pc'[w] \notin Prepares \/ pc'[w] = "linkbackup"
    BY <1>5 DEF Verify
  <2>2. CASE pc'[w] = "linkbackup"
    BY <1>0, <1>5, <2>2 DEF Verify, Ready, me, fs
  <2> QED BY <2>1, <2>2, ElsewhereReady
<1>6. CASE LinkTarget(w)
  <2>1. pc'[w] \notin Prepares \/ pc'[w] = "droptemp"
    BY <1>6 DEF LinkTarget
  <2>2. CASE pc'[w] = "droptemp"
    <3>1. me(w)' = me(w) /\ temp[me(w)] # Absent /\ temp' = temp
      BY <1>6, <2>2 DEF LinkTarget, me
    <3> QED BY <2>2, <3>1 DEF Ready
  <2> QED BY <2>1, <2>2, ElsewhereReady
<1>7. CASE LinkBackup(w) \/ DropTarget(w) \/ DropTemp(w) \/ Refresh(w) \/ RemoveBackup(w)
           \/ RemoveTemp(w)
  <2>1. pc'[w] \notin Prepares
    BY <1>7 DEF LinkBackup, DropTarget, DropTemp, Refresh, RemoveBackup, RemoveTemp
  <2> QED BY <2>1, ElsewhereReady
<1>8. CASE MarkBackupReady(w) \/ MarkReplaced(w) \/ MarkIndexed(w) \/ MarkCommitted(w)
  <2>1. pc'[w] \notin Prepares
    BY <1>8 DEF MarkBackupReady, MarkReplaced, MarkIndexed, MarkCommitted, Mark
  <2> QED BY <2>1, ElsewhereReady
<1> QED
  BY <1>1, <1>2, <1>3, <1>4, <1>5, <1>6, <1>7, <1>8 DEF CommitStep

LEMMA UndoReady ==
    ASSUME ServiceInv, NEW w \in Worker, UndoStep(w)
    PROVE  Ready(w)'
<1> USE DEF ServiceInv
<1> USE DEF Goto, Try, Fail, EndAt, Mark, Prepares, IInv, ControlOK, Recovering
<1>1. CASE UndoRemoveTemp(w)
  <2>1. me(w) \in Op
    BY <1>1 DEF UndoRemoveTemp, JobFits, me, Requesting
  <2>2. pc'[w] = "undo_linktemp" /\ me(w)' = me(w) /\ temp'[me(w)] = Absent
    BY <1>1, <2>1 DEF UndoRemoveTemp, me, FilesOK
  <2> QED BY <2>2 DEF Ready
<1>2. CASE ~UndoRemoveTemp(w)
  <2>1. pc'[w] \notin Prepares
    BY <1>2 DEF UndoStep, UndoVerify, UndoLinkTemp, UndoDropTarget, UndoLinkTarget,
       UndoDropBackup, UndoRefresh, UndoClearTemp, UndoRemoveDirectories, UndoMark
  <2> QED BY <2>1, ElsewhereReady
<1> QED BY <1>1, <1>2

LEMMA RecoveryReady ==
    ASSUME ServiceInv, NEW w \in Worker, RecoveryStep(w)
    PROVE  Ready(w)'
<1> USE DEF ServiceInv
<1> USE DEF Goto, Try, Fail, EndAt, Mark, Prepares, IInv, ControlOK, Recovering
<1>1. CASE Inspect(w)
  <2>1. pc'[w] \notin Prepares \/ pc'[w] = "ext_refresh"
    BY <1>1 DEF Inspect
  <2>2. CASE pc'[w] = "ext_refresh"
    <3>1. /\ dest' = dest /\ job' = job
          /\ dest \notin {Absent, job[w].old, job[w].new}
      BY <1>1, <2>2 DEF Inspect, fs
    <3> QED BY <2>2, <3>1 DEF Ready
  <2> QED BY <2>1, <2>2, ElsewhereReady
<1>2. CASE ~Inspect(w)
  <2>1. pc'[w] \notin Prepares
    BY <1>2 DEF RecoveryStep, ListIncomplete, FwdRefresh, FwdRead, FwdAdvance,
       FwdRemoveTemp, FwdRemoveBackup, FwdCommit, BackRefresh, BackRemoveTemp,
       BackRemoveBackup, BackRemoveDirectories, BackRead, BackMark, RestoreCheck,
       RestoreLinkTarget, RestoreDropBackup, RestoreRefresh, RestoreRemoveTemp,
       KeepConflict
  <2> QED BY <2>1, ElsewhereReady
<1> QED BY <1>1, <1>2

\* No step puts a file into a missing directory, or removes a directory with a file.
LEMMA StepHouses ==
    ASSUME IInv, Housed, NEW w \in Worker, Step(w)
    PROVE  Housed'
<1>0. FilesOK /\ (pc[w] \in Requesting \cup Recovering => me(w) \in Op)
  BY DEF IInv, ControlOK, JobFits, me
<1> USE <1>0 DEF Housed, Empty, FilesOK, FileState, fs, db, Requesting, Recovering
<1>1. CASE CommitStep(w)
  <2>1. CASE Begin(w) \/ MarkBackupReady(w) \/ MarkReplaced(w) \/ MarkIndexed(w)
             \/ MarkCommitted(w) \/ Verify(w) \/ Refresh(w)
    BY <2>1 DEF Begin, MarkBackupReady, MarkReplaced, MarkIndexed, MarkCommitted, Verify,
       Refresh
  <2>2. CASE MakeParents(w) \/ OpenTemp(w) \/ FillTemp(w)
    BY <2>2, ConstantsAssumption DEF MakeParents, OpenTemp, FillTemp
  <2>3. CASE LinkBackup(w) \/ DropTarget(w) \/ LinkTarget(w)
    BY <2>3 DEF LinkBackup, DropTarget, LinkTarget
  <2>4. CASE DropTemp(w) \/ RemoveBackup(w) \/ RemoveTemp(w)
    BY <2>4 DEF DropTemp, RemoveBackup, RemoveTemp
  <2> QED BY <1>1, <2>1, <2>2, <2>3, <2>4 DEF CommitStep
<1>2. CASE UndoStep(w)
  <2>1. CASE UndoVerify(w) \/ UndoRefresh(w) \/ UndoMark(w) \/ UndoRemoveDirectories(w)
    BY <2>1 DEF UndoVerify, UndoRefresh, UndoMark, UndoRemoveDirectories
  <2>2. CASE UndoRemoveTemp(w) \/ UndoDropTarget(w) \/ UndoDropBackup(w) \/ UndoClearTemp(w)
    BY <2>2 DEF UndoRemoveTemp, UndoDropTarget, UndoDropBackup, UndoClearTemp
  <2>3. CASE UndoLinkTemp(w) \/ UndoLinkTarget(w)
    BY <2>3 DEF UndoLinkTemp, UndoLinkTarget
  <2> QED BY <1>2, <2>1, <2>2, <2>3 DEF UndoStep
<1>3. CASE RecoveryStep(w)
  <2>1. CASE ListIncomplete(w) \/ Inspect(w) \/ FwdRefresh(w) \/ FwdRead(w) \/ FwdAdvance(w)
             \/ FwdCommit(w) \/ BackRefresh(w) \/ BackRead(w) \/ BackMark(w)
             \/ RestoreCheck(w) \/ RestoreRefresh(w) \/ KeepConflict(w)
    BY <2>1 DEF ListIncomplete, Inspect, FwdRefresh, FwdRead, FwdAdvance, FwdCommit,
       BackRefresh, BackRead, BackMark, RestoreCheck, RestoreRefresh, KeepConflict
  <2>2. CASE FwdRemoveTemp(w) \/ FwdRemoveBackup(w) \/ BackRemoveTemp(w)
             \/ BackRemoveBackup(w) \/ RestoreDropBackup(w) \/ RestoreRemoveTemp(w)
    BY <2>2 DEF FwdRemoveTemp, FwdRemoveBackup, BackRemoveTemp, BackRemoveBackup,
       RestoreDropBackup, RestoreRemoveTemp
  <2>3. CASE RestoreLinkTarget(w) \/ BackRemoveDirectories(w)
    BY <2>3 DEF RestoreLinkTarget, BackRemoveDirectories
  <2> QED BY <1>3, <2>1, <2>2, <2>3 DEF RecoveryStep
<1> QED BY <1>1, <1>2, <1>3 DEF Step

LEMMA NextKeepsReady ==
    ASSUME TakeTurns, MaxPower = 0, MaxWrite = 0, ServiceInv, ReadyInv, [Next]_vars
    PROVE  ReadyInv'
<1> USE DEF ServiceInv
<1>1. Housed /\ \A w \in Worker : Ready(w)
  BY DEF ReadyInv
<1>2. ASSUME UNCHANGED fs, NEW v \in Worker, pc'[v] = pc[v], job'[v] = job[v]
      PROVE  Ready(v)'
  BY <1>1, <1>2 DEF fs, me, Ready
<1>3. ASSUME UNCHANGED fs
      PROVE  Housed'
  BY <1>1, <1>3 DEF fs, Housed, Empty
<1>4. ASSUME NEW v \in Worker, Ended(v)
      PROVE  Ready(v)'
  BY <1>4, ElsewhereReady DEF Ended, Prepares
<1>5. CASE UNCHANGED vars
  BY <1>2, <1>3, <1>5 DEF vars, local, ReadyInv
<1>6. ASSUME NEW w \in Worker, Step(w)
      PROVE  ReadyInv'
  <2>1. Ready(w)'
    BY <1>6, CommitReady, UndoReady, RecoveryReady DEF Step
  <2>2. ASSUME NEW v \in Worker, v # w
        PROVE  Ready(v)'
    <3>1. pc'[v] = pc[v] /\ job'[v] = job[v]
      BY <1>6, <2>2, StepControl DEF Control, IInv, ControlOK
    <3>2. CASE Inside(v)
      BY <1>2, <1>6, <2>2, <3>1, <3>2, Alone, OutsideStep
    <3>3. CASE ~Inside(v)
      BY <3>1, <3>3, ElsewhereReady DEF Inside, Outside, Prepares
    <3> QED BY <3>2, <3>3
  <2> QED BY <1>1, <1>6, <2>1, <2>2, StepHouses DEF ReadyInv
<1>7. ASSUME NEW w \in Worker, Request(w)
      PROVE  ReadyInv'
  <2>1. UNCHANGED fs /\ pc' = [pc EXCEPT ![w] = "begin"]
    BY <1>7 DEF Request, PrepareEdit, PrepareCreate, Goto
  <2>2. \A v \in Worker \ {w} : pc'[v] = pc[v] /\ job'[v] = job[v]
    BY <1>7 DEF Request, PrepareEdit, PrepareCreate, Goto, IInv, ControlOK
  <2>3. job'[w].mkdirs => job'[w].kind = "create"
    <3>1. ASSUME NEW o \in Op, NEW new \in Content, PrepareEdit(w, o, new)
          PROVE  ~job'[w].mkdirs
      BY <3>1 DEF PrepareEdit, NoJob, IInv, ControlOK
    <3>2. ASSUME NEW o \in Op, NEW new \in Content, NEW mkdirs \in BOOLEAN,
                 PrepareCreate(w, o, new, mkdirs)
          PROVE  job'[w].kind = "create"
      BY <3>2 DEF PrepareCreate, NoJob, IInv, ControlOK
    <3> QED BY <1>7, <3>1, <3>2 DEF Request
  <2>4. Ready(w)'
    <3>1. pc'[w] = "begin"
      BY <2>1 DEF IInv, ControlOK
    <3> QED BY <2>3, <3>1 DEF Ready
  <2> QED BY <1>2, <1>3, <2>1, <2>2, <2>4 DEF ReadyInv
<1>8. ASSUME NEW w \in Worker, IoError(w) \/ Reopen(w)
      PROVE  ReadyInv'
  <2>1. UNCHANGED fs
    BY <1>8 DEF IoError, Reopen
  <2>2. \A v \in Worker \ {w} : pc'[v] = pc[v] /\ job'[v] = job[v]
    BY <1>8 DEF IoError, Reopen, Fail, EndAt, Goto, IInv, ControlOK
  <2>3. pc'[w] \notin Prepares
    BY <1>8 DEF IoError, Reopen, Fail, EndAt, Goto, IInv, ControlOK, Prepares
  <2> QED BY <1>2, <1>3, <2>1, <2>2, <2>3, ElsewhereReady DEF ReadyInv
<1>9. ASSUME NEW hosts, Forgotten(hosts), UNCHANGED fs
      PROVE  ReadyInv'
  <2>1. \A v \in Worker : (pc'[v] = pc[v] /\ job'[v] = job[v]) \/ Ended(v)
    BY <1>9 DEF Forgotten, Ended
  <2> QED BY <1>2, <1>3, <1>4, <1>9, <2>1 DEF ReadyInv
<1>10. CASE Flush \/ DeleteProject
  BY <1>2, <1>3, <1>10 DEF Flush, DeleteProject, local, ReadyInv
<1>11. ASSUME NEW content, ExternalWrite(content)
       PROVE  FALSE
  BY <1>11 DEF ExternalWrite, IInv, EnvOK
<1>12. ~PowerLoss
  BY DEF PowerLoss, IInv, EnvOK
<1> QED
  BY <1>5, <1>6, <1>7, <1>8, <1>9, <1>10, <1>11, <1>12 DEF Next, Environment, Crash

LEMMA InitReady == Init => ReadyInv
<1> SUFFICES ASSUME Init PROVE ReadyInv
  OBVIOUS
<1>1. Housed
  BY DEF Init, Housed, Empty
<1>2. \A w \in Worker : Ready(w)
  BY DEF Init, Ready
<1> QED BY <1>1, <1>2 DEF ReadyInv

\* The reasons for which a service may leave its operation open.
Cause(w) ==
    \/ pc[w] = "opentemp" /\ ~parent
    \/ pc[w] = "rec_inspect" /\ lease[HostOf[w]] # NoWorker
    \/ pc[w] \in Refreshing /\ dest \in Content \ Accepted

\* A refresh of a file that is there is refused only for its content.
LEMMA RefusedForContent ==
    ASSUME FilesOK, idx # NoProject, dest # Absent, ~ExistingOK
    PROVE  dest \in Content \ Accepted
BY DEF FilesOK, ExistingOK, RefreshStatus

LEMMA AbsentIsAccepted ==
    ASSUME idx # NoProject, dest = Absent
    PROVE  AbsentOK
<1>1. CASE idx = dest
  BY <1>1 DEF AbsentOK, RefreshStatus
<1>2. CASE idx # dest
  <2>1. RefreshStatus = "deleted"
    BY <1>2, ConstantsAssumption DEF RefreshStatus
  <2> QED BY <2>1 DEF AbsentOK
<1> QED BY <1>1, <1>2

\* A transition to an end closes the operation that it is asked for.
LEMMA MarkCloses ==
    ASSUME IInv, NEW w \in Worker, NEW o \in Op, o = me(w), NEW expected,
           NEW phase \in J!Terminal, NEW to,
           J!TransitionAccepted(o, expected, phase), Mark(w, expected, phase, to)
    PROVE  ~J!IsActive(o)'
<1>1. J!TransitionEditOperation(o, expected, phase)
  BY DEF Mark
<1>2. journal[o] \in J!Row
  BY <1>1 DEF J!TransitionEditOperation, J!TransitionAccepted, J!Exists, IInv, DataOK, RowsOK
<1>3. journal'[o] = [journal[o] EXCEPT !.phase = phase]
  BY <1>1 DEF J!TransitionEditOperation, IInv, DataOK, RowsOK
<1>4. journal'[o].phase = phase
  BY <1>2, <1>3 DEF J!Row
<1> QED BY <1>4 DEF J!IsActive, J!Active, J!Terminal

\* What the causes are judged by: what the service knows of its open operation.
LEMMA OpenOperation ==
    ASSUME ServiceInv, ReadyInv, idx # NoProject, NEW w \in Worker,
           pc[w] \in Begun \cup Recovering
    PROVE  /\ me(w) \in Op /\ J!Exists(me(w)) /\ ServedRow(w) /\ Looked(w) /\ Ready(w)
           /\ FilesOK /\ pc = [v \in Worker |-> pc[v]]
           /\ job[w].new \in Content /\ job[w].old # job[w].new
           /\ job[w].new # Absent
           /\ job[w].kind = "update" => job[w].old # Absent
           /\ pc[w] \in Begun /\ job[w].kind # "update" => job[w].old = Absent
           /\ dest # Absent => parent
           /\ J!IsActive(me(w)) => FilesFit(me(w))
<1> USE DEF ServiceInv
<1>1. /\ me(w) \in Op /\ J!Exists(me(w)) /\ ServedRow(w) /\ Looked(w)
      /\ Row(w).old = job[w].old /\ Row(w).new = job[w].new
      /\ Row(w).new \in Content /\ Row(w).old # Row(w).new
      /\ J!IsActive(me(w)) => FilesFit(me(w))
  BY OwnOperation
<1>2. job[w].new # Absent
  BY <1>1, ConstantsAssumption
<1>3. job[w].kind = "update" => job[w].old # Absent
  BY <1>1 DEF ServedRow, JobIsRow, Row, IInv, DataOK, RowsOK, J!HashesMatchKind,
     J!Exists
<1>4. pc[w] \in Begun /\ job[w].kind # "update" => job[w].old = Absent
  BY CreatesFromNothing
<1>5. dest # Absent => parent
  BY DEF ReadyInv, Housed, Empty, IInv, FilesOK
<1>6. FilesOK /\ pc = [v \in Worker |-> pc[v]] /\ Ready(w)
  BY DEF IInv, ControlOK, ReadyInv
<1> QED BY <1>1, <1>2, <1>3, <1>4, <1>5, <1>6

LEMMA CommitCause ==
    ASSUME ServiceInv, ReadyInv, idx # NoProject, NEW w \in Worker, pc[w] \in Begun,
           CommitStep(w), Ended(w), NEW o \in Op, o = me(w), J!IsActive(o)'
    PROVE  Cause(w)
<1>1. /\ J!Exists(o) /\ ServedRow(w) /\ Looked(w) /\ Ready(w) /\ FilesOK
      /\ job[w].new \in Content /\ job[w].new # Absent
      /\ job[w].kind = "update" => job[w].old # Absent
      /\ job[w].kind # "update" => job[w].old = Absent
      /\ dest # Absent => parent
      /\ pc = [v \in Worker |-> pc[v]] /\ IInv
  BY OpenOperation DEF ServiceInv
<1> USE <1>1 DEF Ended, Try, Goto, Begun, Requesting
<1>2. ~Begin(w) /\ ~FillTemp(w) /\ ~Refresh(w) /\ ~RemoveBackup(w)
  BY DEF Begin, FillTemp, Refresh, RemoveBackup
<1>3. ~MakeParents(w)
  BY DEF MakeParents, Ready, Looked, AtOld
<1>4. OpenTemp(w) => Cause(w)
  BY DEF OpenTemp, Ready, Looked, AtOld, Updating, Cause
<1>5. ~Verify(w)
  BY DEF Verify, Ready, Looked, AtOld
<1>6. ~LinkBackup(w) /\ ~DropTarget(w)
  BY DEF LinkBackup, DropTarget, Ready, Looked, AtOld, ServedRow, JobIsRow, OfUpdate
<1>7. ~LinkTarget(w)
  BY DEF LinkTarget, Looked, AtNothing, TempReady
<1>8. ~DropTemp(w) /\ ~RemoveTemp(w)
  BY DEF DropTemp, RemoveTemp, Ready, Looked, AtNew
<1>9. ~MarkBackupReady(w) /\ ~MarkReplaced(w) /\ ~MarkIndexed(w)
  BY DEF MarkBackupReady, MarkReplaced, MarkIndexed, Mark, J!TransitionAccepted,
     J!CanTransition, J!Terminal, ServedRow, PhaseAt, InPrepared, InBackupReady, InReplaced, Row
<1>10. ~MarkCommitted(w)
  <2>1. MarkCommitted(w) => J!TransitionAccepted(o, "indexed", "committed")
    BY DEF MarkCommitted, J!TransitionAccepted, J!CanTransition, ServedRow, PhaseAt,
       InIndexed, Row
  <2> QED BY <2>1, MarkCloses DEF MarkCommitted, J!Terminal
<1> QED
  BY <1>2, <1>3, <1>4, <1>5, <1>6, <1>7, <1>8, <1>9, <1>10 DEF CommitStep

LEMMA UndoCause ==
    ASSUME ServiceInv, ReadyInv, idx # NoProject, NEW w \in Worker, pc[w] \in Begun,
           UndoStep(w), Ended(w), NEW o \in Op, o = me(w), J!IsActive(o)'
    PROVE  Cause(w)
<1>1. /\ J!Exists(o) /\ ServedRow(w) /\ Looked(w) /\ Ready(w) /\ FilesOK
      /\ job[w].new \in Content /\ job[w].new # Absent
      /\ job[w].kind = "update" => job[w].old # Absent
      /\ job[w].kind # "update" => job[w].old = Absent
      /\ pc = [v \in Worker |-> pc[v]] /\ IInv
  BY OpenOperation DEF ServiceInv
<1> USE <1>1 DEF Ended, Try, Goto, Begun, Requesting
<1>2. ~UndoRemoveTemp(w) /\ ~UndoClearTemp(w) /\ ~UndoRemoveDirectories(w)
  BY DEF UndoRemoveTemp, UndoClearTemp, UndoRemoveDirectories
<1>3. ~UndoVerify(w)
  BY DEF UndoVerify, Looked, AtNew, BackedUp, Updating
<1>4. ~UndoLinkTemp(w) /\ ~UndoDropTarget(w)
  BY DEF UndoLinkTemp, UndoDropTarget, Looked, AtNew, Ready
<1>5. ~UndoLinkTarget(w) /\ ~UndoDropBackup(w)
  BY DEF UndoLinkTarget, UndoDropBackup, Looked, AtNothing, BackedUp, ServedRow, JobIsRow,
     OfUpdate
<1>6. UndoRefresh(w) => Cause(w)
  <2>1. pc[w] = "undo_refresh" => dest = job[w].old
    BY DEF Looked, AtOld
  <2> QED
    BY <2>1, RefusedForContent, AbsentIsAccepted DEF UndoRefresh, Updating, Cause, Refreshing
<1>7. ~UndoMark(w)
  <2>1. UndoMark(w) => J!TransitionAccepted(o, job[w].phase, "rolled_back")
    BY DEF UndoMark, J!TransitionAccepted, J!CanTransition, J!Terminal, ServedRow, PhaseAt,
       JobIsRow, PhaseRead, InReplaced, Row
  <2> QED BY <2>1, MarkCloses DEF UndoMark, J!Terminal
<1> QED
  BY <1>2, <1>3, <1>4, <1>5, <1>6, <1>7 DEF UndoStep

LEMMA RecoveryCause ==
    ASSUME ServiceInv, DirInv, ReadyInv, idx # NoProject, NEW w \in Worker,
           pc[w] \in Recovering, RecoveryStep(w), Ended(w),
           NEW o \in Op, o = me(w), J!IsActive(o)'
    PROVE  Cause(w)
<1>1. /\ J!Exists(o) /\ ServedRow(w) /\ Looked(w) /\ Ready(w) /\ FilesOK
      /\ job[w].new \in Content /\ job[w].new # Absent /\ job[w].old # job[w].new
      /\ dest # Absent => parent
      /\ J!IsActive(o) => FilesFit(o)
      /\ pc = [v \in Worker |-> pc[v]] /\ IInv
  BY OpenOperation DEF ServiceInv
<1>2. UNCHANGED journal => J!IsActive(o)
  BY DEF J!IsActive
<1>3. /\ journal[o].old = job[w].old /\ journal[o].new = job[w].new
  BY <1>1 DEF ServedRow, JobIsRow, Row
<1> USE <1>1, <1>2, <1>3 DEF Ended, Try, Goto, Recovering, fs, db
<1>4. ~FwdRemoveTemp(w) /\ ~BackRemoveTemp(w) /\ ~BackRemoveBackup(w)
      /\ ~BackRemoveDirectories(w) /\ ~RestoreRemoveTemp(w) /\ ~ListIncomplete(w)
  BY DEF FwdRemoveTemp, BackRemoveTemp, BackRemoveBackup, BackRemoveDirectories,
     RestoreRemoveTemp, ListIncomplete
<1>5. Inspect(w) => Cause(w)
  BY DEF Inspect, Cause
<1>6. FwdRefresh(w) \/ RestoreRefresh(w) \/ BackRefresh(w) => Cause(w)
  <2>1. FwdRefresh(w) => dest = job[w].new
    BY DEF FwdRefresh, Looked, AtNew
  <2>2. BackRefresh(w) /\ pc[w] = "absent_refresh" => dest = Absent
    BY DEF BackRefresh, Looked, AtOld, ServedRow, JobIsRow
  <2>3. BackRefresh(w) /\ pc[w] = "back_refresh" => dest # Absent
    BY DEF BackRefresh, Looked, AtOld, ServedRow, JobIsRow
  <2>4. RestoreRefresh(w) => dest # Absent
    BY DEF RestoreRefresh, Looked, AtOld, DirInv, DirAt, Restoring
  <2> QED
    BY <2>1, <2>2, <2>3, <2>4, RefusedForContent, AbsentIsAccepted
       DEF FwdRefresh, RestoreRefresh, BackRefresh, Cause, Refreshing
<1>7. ~FwdRead(w)
  BY DEF FwdRead
<1>8. ~FwdAdvance(w)
  <2>1. FwdAdvance(w) => Row(w).phase = job[w].phase /\ J!IsActive(o)
    BY DEF FwdAdvance, ServedRow, JobIsRow, PhaseRead, PhaseAt, InActive
  <2> QED
    BY <2>1 DEF FwdAdvance, J!TransitionAccepted, J!CanTransition, J!IsActive, J!Active,
       NextPhase, Row
<1>9. ~FwdRemoveBackup(w)
  BY DEF FwdRemoveBackup, Looked, AtNew
<1>10. ~FwdCommit(w)
  <2>1. FwdCommit(w) => J!TransitionAccepted(o, "indexed", "committed")
    BY DEF FwdCommit, J!TransitionAccepted, J!CanTransition, ServedRow, PhaseAt, InIndexed, Row
  <2> QED BY <2>1, MarkCloses DEF FwdCommit, J!Terminal
<1>11. ~BackRead(w)
  BY DEF BackRead, Row, J!IsActive, J!Active
<1>12. ~BackMark(w)
  <2>1. BackMark(w) => J!TransitionAccepted(o, job[w].phase, "rolled_back")
    <3> SUFFICES ASSUME BackMark(w), ~J!TransitionAccepted(o, job[w].phase, "rolled_back")
                 PROVE  FALSE
      OBVIOUS
    <3>1. journal[o].phase = job[w].phase
      BY DEF BackMark, ServedRow, JobIsRow, PhaseRead, Row
    <3>2. J!IsActive(o)
      BY DEF BackMark, Mark
    <3> QED
      BY <3>1, <3>2 DEF J!TransitionAccepted, J!CanTransition, J!Terminal, J!IsActive, J!Active
  <2> QED BY <2>1, MarkCloses DEF BackMark, J!Terminal
<1>13. ~RestoreCheck(w)
  BY DEF RestoreCheck, Looked, AtNothing, ServedRow, JobIsRow, FilesFit
<1>14. ~RestoreLinkTarget(w) /\ ~RestoreDropBackup(w)
  BY DEF RestoreLinkTarget, RestoreDropBackup, Looked, AtNothing, BackedUp, DirInv, DirAt,
     Restoring
<1>15. ~KeepConflict(w)
  BY DEF KeepConflict, Ready, FilesFit
<1> QED
  BY <1>4, <1>5, <1>6, <1>7, <1>8, <1>9, <1>10, <1>11, <1>12, <1>13, <1>14, <1>15
     DEF RecoveryStep

\* A step of an operation is taken at a place of it.
LEMMA PlacesOfSteps ==
    ASSUME NEW w \in Worker, pc[w] \in Begun \cup Recovering
    PROVE  /\ CommitStep(w) \/ UndoStep(w) => pc[w] \in Begun
           /\ RecoveryStep(w) => pc[w] \in Recovering
<1> USE DEF Begun, Requesting, Recovering
<1>1. CommitStep(w) \/ UndoStep(w) => pc[w] \in Begun
  BY PlaceOfRequest
<1>2. RecoveryStep(w) => pc[w] \in Recovering
  BY DEF RecoveryStep, ListIncomplete, Inspect, FwdRefresh, FwdRead, FwdAdvance,
     FwdRemoveTemp, FwdRemoveBackup, FwdCommit, BackRefresh, BackRemoveTemp,
     BackRemoveBackup, BackRemoveDirectories, BackRead, BackMark, RestoreCheck,
     RestoreLinkTarget, RestoreDropBackup, RestoreRefresh, RestoreRemoveTemp,
     KeepConflict
<1> QED BY <1>1, <1>2

\* What a step may leave open.
LeavesOpen ==
    \A w \in Worker, o \in Op :
       /\ pc[w] \in (Requesting \ {"begin"}) \cup Recovering
       /\ pc'[w] \in {"idle", "refused"} /\ faults' = faults
       /\ o = me(w) /\ J!IsActive(o)'
       => Cause(w)

LEMMA NextLeavesOpen ==
    ASSUME TakeTurns, MaxPower = 0, MaxWrite = 0, ServiceInv, ServiceInv', DirInv, ReadyInv,
           [Next]_vars
    PROVE  LeavesOpen
<1> USE DEF ServiceInv
<1> SUFFICES ASSUME NEW w \in Worker, NEW o \in Op, pc[w] \in Begun \cup Recovering,
                    pc'[w] \in {"idle", "refused"}, faults' = faults,
                    o = me(w), J!IsActive(o)'
             PROVE  Cause(w)
  BY DEF LeavesOpen, Begun
<1>1. pc'[w] # pc[w]
  BY DEF Begun, Requesting, Recovering
<1>2. idx # NoProject
  <2>1. idx' # NoProject
    BY DEF RowInv, J!Exists, J!IsActive, J!Active, J!NoRow
  <2>2. Refreshed # NoProject => idx # NoProject
    BY DEF Refreshed
  <2>3. ASSUME NEW v \in Worker, Step(v)
        PROVE  idx # NoProject
    BY <2>1, <2>2, <2>3, CommitShape, UndoShape, RecoveryShape DEF Step, StepShape
  <2>4. ASSUME NEW v \in Worker, Request(v) \/ IoError(v) \/ Reopen(v)
        PROVE  idx # NoProject
    BY <2>1, <2>2, <2>4 DEF Request, PrepareEdit, PrepareCreate, IoError, Reopen, db
  <2>5. UNCHANGED vars => idx # NoProject
    BY <2>1 DEF vars, db
  <2>6. Environment => idx # NoProject
    <3>1. ~PowerLoss
      BY DEF PowerLoss, IInv, EnvOK
    <3> QED
      BY <2>1, <3>1 DEF Environment, Crash, ExternalWrite, Flush, DeleteProject, db
  <2> QED BY <2>3, <2>4, <2>5, <2>6 DEF Next
<1>3. ASSUME NEW v \in Worker, Step(v)
      PROVE  Cause(w)
  <2>1. v = w
    BY <1>1, <1>3, StepControl DEF Control, IInv, ControlOK
  <2>2. Ended(w)
    BY DEF Ended
  <2>3. Step(w) /\ (CommitStep(w) \/ UndoStep(w) => pc[w] \in Begun)
        /\ (RecoveryStep(w) => pc[w] \in Recovering)
    BY <1>3, <2>1, PlacesOfSteps
  <2> QED
    BY <1>2, <2>2, <2>3, CommitCause, UndoCause, RecoveryCause DEF Step
<1>4. ASSUME NEW v \in Worker, IoError(v)
      PROVE  FALSE
  BY <1>4 DEF IoError, IInv, EnvOK
<1>5. ASSUME NEW v \in Worker, Request(v) \/ Reopen(v)
      PROVE  FALSE
  BY <1>1, <1>5 DEF Request, PrepareEdit, PrepareCreate, Reopen, Goto, IInv, ControlOK
<1>6. ~UNCHANGED vars
  BY <1>1 DEF vars, local
<1>7. ASSUME NEW hosts, Forgotten(hosts)
      PROVE  FALSE
  BY <1>1, <1>7 DEF Forgotten
<1>8. ASSUME NEW content, ExternalWrite(content)
      PROVE  FALSE
  BY <1>8 DEF ExternalWrite, IInv, EnvOK
<1>9. ~Flush /\ ~DeleteProject
  BY <1>1 DEF Flush, DeleteProject, local
<1> QED
  BY <1>3, <1>4, <1>5, <1>6, <1>7, <1>8, <1>9 DEF Next, Environment, Crash, PowerLoss

\* Where processes take turns, without power losses and outside writes: an operation
\* that its request or its recovery gives up, without a call that failed, stays open
\* for one of the three reasons.  Everything else that a service asks for on its way,
\* whatever crashed and recovered before it, is granted: every compare-and-set of a
\* phase, every free name, every check of a content.
THEOREM OpenOnlyForCauseInTurns ==
    ASSUME MaxPower = 0, MaxWrite = 0
    PROVE  Spec /\ []TakeTurns => OpenForCause
<1>1. TakeTurns /\ ServiceInv /\ DirInv /\ [Next]_vars => DirInv'
  BY NextKeepsDirs
<1>2. TakeTurns /\ ServiceInv /\ ReadyInv /\ [Next]_vars => ReadyInv'
  BY NextKeepsReady
<1>3. TakeTurns /\ ServiceInv /\ ServiceInv' /\ DirInv /\ ReadyInv /\ [Next]_vars
      => [LeavesOpen]_vars
  BY NextLeavesOpen
<1>4. [][LeavesOpen]_vars => OpenForCause
  <2>1. [LeavesOpen]_vars =>
          [\A w \in Worker, o \in Op :
             /\ pc[w] \in (Requesting \ {"begin"}) \cup Recovering
             /\ pc'[w] \in {"idle", "refused"} /\ faults' = faults
             /\ o = me(w) /\ J!IsActive(o)'
             => \/ pc[w] = "opentemp" /\ ~parent
                \/ pc[w] = "rec_inspect" /\ lease[HostOf[w]] # NoWorker
                \/ pc[w] \in Refreshing /\ dest \in Content \ Accepted]_vars
    BY DEF LeavesOpen, Cause
  <2> QED BY <2>1, PTL DEF OpenForCause
<1> QED
  BY <1>1, <1>2, <1>3, <1>4, InitDirs, InitReady, ServiceInvHolds, PTL DEF Spec

\* In one process, then, an operation is left open only for one of those reasons.
THEOREM OpenOnlyForCause ==
    ASSUME OneProcess, MaxPower = 0, MaxWrite = 0
    PROVE  Spec => OpenForCause
BY OpenOnlyForCauseInTurns, OneProcessTakesTurns, PTL
=============================================================================
