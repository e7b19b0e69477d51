------------------------------ MODULE DurableEdit ------------------------------
(***************************************************************************)
(* The durable edit service of goldeneye-edit on one target file: update   *)
(* and create through a temporary and a backup file, an edit journal and a *)
(* targeted index refresh, in-process rollback when the refresh is         *)
(* refused, and the recovery that runs when a service is opened.           *)
(*                                                                         *)
(* A worker is one DurableEditService.  Workers of one host share that     *)
(* process's table of target leases; hosts share only the file system and  *)
(* the database.  Each file-system call and each journal transaction is a  *)
(* step of its own, so a crash, a fault, an outside writer or another host *)
(* can come between any two of them.                                       *)
(***************************************************************************)
EXTENDS Naturals

CONSTANTS
    Worker, Host, HostOf,   \* services, processes, and who runs where
    Op,                     \* operation identifiers clients may use
    Content,                \* file contents, each standing for its hash
    Accepted,               \* contents the indexer parses without diagnostics
    Absent, Torn,           \* no file, and a file whose write did not finish
    Target, NoWorker, NoOp,
    NoProject,              \* what the index holds once the project is deleted
    Initial,                \* what the target holds, and the index knows
    MaxCrash, MaxFault, MaxWrite, MaxPower,   \* bounds on the environment
    Deletable               \* whether a client may delete the project

ASSUME ConstantsAssumption ==
    /\ HostOf \in [Worker -> Host]
    /\ Accepted \subseteq Content
    /\ Absent \notin Content /\ Torn \notin Content /\ Absent # Torn
    /\ NoWorker \notin Worker /\ NoOp \notin Op
    /\ NoProject \notin Content \cup {Absent}
    /\ Deletable \in BOOLEAN
    /\ Initial \in Content \cup {Absent}
    /\ {MaxCrash, MaxFault, MaxWrite, MaxPower} \subseteq Nat

VARIABLES
    dest, temp, bak, parent,  \* the target, each operation's temporary and
                              \* backup file, whether their directory exists
    journal, idx,             \* the database: journal rows, indexed content
    disk,                     \* what of the database survives a power loss
    lease,                    \* ACTIVE_TARGETS of each host
    pc, job,                  \* where each worker is, and on what
    crashes, faults, writes, powers,
    foreign, timely           \* the last outside write, and whether the services
                              \* can tell: it is no version that a request under
                              \* way knows, and each had still to take a last look

fs == <<dest, temp, bak, parent>>
db == <<journal, idx>>
ghost == <<foreign, timely>>
count == <<crashes, faults, writes, powers>>
env == <<disk, count, ghost>>
local == <<lease, pc, job>>
vars == <<fs, db, env, local>>

J == INSTANCE EditJournal WITH Path <- {Target}

-----------------------------------------------------------------------------
\* Helpers.

FileState == Content \cup {Absent, Torn}

NoJob == [op |-> NoOp, kind |-> "none", old |-> Absent, new |-> Absent,
          mkdirs |-> FALSE, parents |-> FALSE, phase |-> "none"]

me(w) == job[w].op
Row(w) == journal[me(w)]

Goto(w, label) == pc' = [pc EXCEPT ![w] = label]

\* Mutant: a guard is dropped for a lease that was never acquired.
EndAtReleasingAny(w, label) ==
    /\ Goto(w, label)
    /\ job' = [job EXCEPT ![w] = NoJob]
    /\ lease' = [lease EXCEPT ![HostOf[w]] = NoWorker]

\* A request ends: its result is returned and its lease dropped.
EndAt(w, label) ==
    /\ Goto(w, label)
    /\ job' = [job EXCEPT ![w] = NoJob]
    /\ lease' = [lease EXCEPT ![HostOf[w]] = IF @ = w THEN NoWorker ELSE @]

Requesting == {"begin", "mkdirs", "opentemp", "filltemp", "verify",
               "linkbackup", "droptarget", "markbackup", "linktarget",
               "droptemp", "markreplaced", "refresh", "markindexed",
               "rmbackup", "rmtemp", "markcommitted",
               "undo_verify", "undo_rmtemp", "undo_linktemp",
               "undo_droptarget", "undo_linktarget", "undo_dropbackup",
               "undo_refresh", "undo_cleartemp", "undo_rmdirs", "undo_mark"}
Recovering == {"rec_inspect", "fwd_refresh", "fwd_read", "fwd_advance",
               "fwd_rmtemp", "fwd_rmbackup", "fwd_commit",
               "back_refresh", "absent_refresh", "back_rmtemp",
               "back_rmbackup", "back_rmdirs", "back_read", "back_mark",
               "rst_check", "rst_linktarget", "rst_dropbackup",
               "rst_refresh", "rst_rmtemp", "ext_refresh"}
Refreshing == {"refresh", "undo_refresh", "fwd_refresh", "back_refresh",
               "absent_refresh", "rst_refresh", "ext_refresh"}

\* An error ends a request and leaves its row and its files as they are; in a
\* recovery it makes the row an unresolved entry, and the service does not open.
Fail(w) == EndAt(w, IF pc[w] \in Recovering THEN "refused" ELSE "idle")

\* std::fs calls, each refused as the operating system refuses it.
Empty == dest = Absent /\ \A o \in Op : temp[o] = Absent /\ bak[o] = Absent

\* refresh_file: what the index holds afterwards, and the status it reports.
Refreshed ==
    IF idx # NoProject /\ dest \in Accepted \cup {Absent} THEN dest ELSE idx
RefreshStatus ==
    CASE idx = NoProject -> "error"
      [] idx = dest -> "unchanged"
      [] idx \notin {dest, NoProject} /\ dest = Absent -> "deleted"
      [] idx \notin {dest, NoProject} /\ dest \in Accepted -> "updated"
      [] OTHER -> "rejected"
ExistingOK == RefreshStatus \in {"updated", "unchanged"}
AbsentOK == RefreshStatus \in {"deleted", "unchanged"}

-----------------------------------------------------------------------------
\* Requests.

\* prepare_edit: the locator's hash, the file and the index agree, and the plan
\* changes the content.
PrepareEdit(w, o, new) ==
    /\ pc[w] = "idle" /\ lease[HostOf[w]] = NoWorker
    /\ dest \in Content /\ idx = dest /\ new # dest
    /\ lease' = [lease EXCEPT ![HostOf[w]] = w]
    /\ job' = [job EXCEPT ![w] = [NoJob EXCEPT !.op = o, !.kind = "update",
                                               !.old = dest, !.new = new]]
    /\ Goto(w, "begin")
    /\ foreign' = Absent /\ timely' = TRUE
    /\ UNCHANGED <<fs, db, disk, count>>

\* prepare_create: the destination does not exist; missing parents are planned
\* when the request asks for them.
PrepareCreate(w, o, new, mkdirs) ==
    /\ pc[w] = "idle" /\ lease[HostOf[w]] = NoWorker
    /\ dest = Absent /\ idx # NoProject
    /\ lease' = [lease EXCEPT ![HostOf[w]] = w]
    /\ job' = [job EXCEPT ![w] = [NoJob EXCEPT !.op = o, !.kind = "create",
                                    !.new = new, !.mkdirs = mkdirs,
                                    !.parents = mkdirs /\ ~parent]]
    /\ Goto(w, "begin")
    /\ foreign' = Absent /\ timely' = TRUE
    /\ UNCHANGED <<fs, db, disk, count>>

\* begin_update, begin_create: the journal row is written before any file is.
Begin(w) ==
    LET row == [phase |-> "prepared", path |-> Target, kind |-> job[w].kind,
                old |-> job[w].old, new |-> job[w].new, parents |-> job[w].parents]
    IN
    /\ pc[w] = "begin"
    /\ \/ /\ idx # NoProject
          /\ J!CreateEditOperation(me(w), row)
          /\ Goto(w, IF job[w].mkdirs THEN "mkdirs" ELSE "opentemp")
          /\ UNCHANGED <<lease, job>>
       \/ /\ idx = NoProject \/ ~J!CanCreate(me(w), row)
          /\ EndAt(w, "idle")
          /\ UNCHANGED journal
    /\ UNCHANGED <<fs, idx, env>>

-----------------------------------------------------------------------------
\* commit_update and commit_create.  Their steps share labels where the code
\* runs the same calls; job[w].kind picks what differs.

Updating(w) == job[w].kind = "update"

\* A call goes on to `next` when the system grants it and fails when not.
Try(w, granted, next) ==
    IF granted THEN Goto(w, next) /\ UNCHANGED <<lease, job>> ELSE Fail(w)

\* A journal transition, accepted or refused by the compare-and-set.
Mark(w, expected, phase, next) ==
    IF J!TransitionAccepted(me(w), expected, phase)
    THEN /\ J!TransitionEditOperation(me(w), expected, phase)
         /\ IF phase \in J!Terminal THEN EndAt(w, "idle")
            ELSE Goto(w, next) /\ UNCHANGED <<lease, job>>
    ELSE Fail(w) /\ UNCHANGED journal

\* rename_new is two steps wherever it is called: a hard link that refuses an
\* existing name, then the removal of the old name.

\* create_parent_directories: revalidates that the target is still missing and
\* remembers whether it made the directory, for rollback_empty.
MakeParents(w) ==
    /\ pc[w] = "mkdirs"
    /\ IF dest = Absent
       THEN /\ parent' = TRUE
            /\ job' = [job EXCEPT ![w].mkdirs = FALSE, ![w].parents = ~parent]
            /\ Goto(w, "opentemp")
            /\ UNCHANGED lease
       ELSE Fail(w) /\ UNCHANGED parent
    /\ UNCHANGED <<dest, temp, bak, db, env>>

\* write_temp, first half: an update reads the target's permissions, and
\* create_new refuses a name in use; the file exists before it has its content.
OpenTemp(w) ==
    LET granted == /\ parent
                   /\ temp[me(w)] = Absent
                   /\ Updating(w) => dest # Absent
    IN
    /\ pc[w] = "opentemp"
    /\ temp' = IF granted THEN [temp EXCEPT ![me(w)] = Torn] ELSE temp
    /\ Try(w, granted, "filltemp")
    /\ UNCHANGED <<dest, bak, parent, db, env>>

\* write_temp, second half; the handle outlives an unlinked name.
FillTemp(w) ==
    /\ pc[w] = "filltemp"
    /\ temp' = [temp EXCEPT ![me(w)] = IF @ = Torn THEN job[w].new ELSE @]
    /\ Goto(w, "verify")
    /\ UNCHANGED <<dest, bak, parent, db, env, lease, job>>

\* The last look before the target is touched.
Verify(w) ==
    /\ pc[w] = "verify"
    /\ Try(w, /\ J!Exists(me(w))
              /\ temp[me(w)] = job[w].new
              /\ dest = job[w].old,
           IF Updating(w) THEN "linkbackup" ELSE "markbackup")
    /\ UNCHANGED <<fs, db, env>>

LinkBackup(w) ==
    LET granted == dest # Absent /\ bak[me(w)] = Absent IN
    /\ pc[w] = "linkbackup"
    /\ bak' = IF granted THEN [bak EXCEPT ![me(w)] = dest] ELSE bak
    /\ Try(w, granted, "droptarget")
    /\ UNCHANGED <<dest, temp, parent, db, env>>

\* Mutant: the target is truncated instead of unlinked.
DropTargetTruncating(w) ==
    /\ pc[w] = "droptarget"
    /\ dest' = Torn
    /\ Try(w, dest # Absent, "markbackup")
    /\ UNCHANGED <<temp, bak, parent, db, env>>

DropTarget(w) ==
    /\ pc[w] = "droptarget"
    /\ dest' = Absent
    /\ Try(w, dest # Absent, "markbackup")
    /\ UNCHANGED <<temp, bak, parent, db, env>>

MarkBackupReady(w) ==
    /\ pc[w] = "markbackup"
    /\ Mark(w, "prepared", "backup_ready", "linktarget")
    /\ UNCHANGED <<fs, idx, env>>

\* The new content appears under the target's name.
LinkTarget(w) ==
    LET granted == dest = Absent /\ temp[me(w)] # Absent IN
    /\ pc[w] = "linktarget"
    /\ dest' = IF granted THEN temp[me(w)] ELSE dest
    /\ Try(w, granted, "droptemp")
    /\ UNCHANGED <<temp, bak, parent, db, env>>

\* rename_new fails if the old name is gone, remove_if_exists does not.
DropTemp(w) ==
    /\ pc[w] = "droptemp"
    /\ temp' = [temp EXCEPT ![me(w)] = Absent]
    /\ Try(w, parent /\ (Updating(w) => temp[me(w)] # Absent), "markreplaced")
    /\ UNCHANGED <<dest, bak, parent, db, env>>

MarkReplaced(w) ==
    /\ pc[w] = "markreplaced"
    /\ Mark(w, "backup_ready", "replaced", "refresh")
    /\ UNCHANGED <<fs, idx, env>>

\* refresh_update_or_rollback, refresh_create_or_rollback
Refresh(w) ==
    /\ pc[w] = "refresh"
    /\ idx' = Refreshed
    /\ Goto(w, IF ExistingOK THEN "markindexed" ELSE "undo_verify")
    /\ UNCHANGED <<fs, journal, env, lease, job>>

MarkIndexed(w) ==
    /\ pc[w] = "markindexed"
    /\ Mark(w, "replaced", "indexed", IF Updating(w) THEN "rmbackup" ELSE "rmtemp")
    /\ UNCHANGED <<fs, idx, env>>

RemoveBackup(w) ==
    /\ pc[w] = "rmbackup"
    /\ bak' = [bak EXCEPT ![me(w)] = Absent]
    /\ Goto(w, "rmtemp")
    /\ UNCHANGED <<dest, temp, parent, db, env, lease, job>>

RemoveTemp(w) ==
    /\ pc[w] = "rmtemp"
    /\ temp' = [temp EXCEPT ![me(w)] = Absent]
    /\ Try(w, parent, "markcommitted")      \* sync_parent opens the directory
    /\ UNCHANGED <<dest, bak, parent, db, env>>

MarkCommitted(w) ==
    /\ pc[w] = "markcommitted"
    /\ Mark(w, "indexed", "committed", "idle")
    /\ UNCHANGED <<fs, idx, env>>

-----------------------------------------------------------------------------
\* rollback_update and rollback_create, after a refresh that did not succeed.

\* Mutant: the rollback leaves the phase that it expects instead of the one it read.
UndoVerifyBelieving(w) ==
    LET granted == /\ J!Exists(me(w))
                   /\ dest = job[w].new
                   /\ Updating(w) => bak[me(w)] = job[w].old
    IN
    /\ pc[w] = "undo_verify"
    /\ IF granted
       THEN /\ job' = [job EXCEPT ![w].phase = "backup_ready"]
            /\ Goto(w, "undo_rmtemp")
            /\ UNCHANGED lease
       ELSE Fail(w)
    /\ UNCHANGED <<fs, db, env>>

UndoVerify(w) ==
    LET granted == /\ J!Exists(me(w))
                   /\ dest = job[w].new
                   /\ Updating(w) => bak[me(w)] = job[w].old
    IN
    /\ pc[w] = "undo_verify"
    /\ IF granted
       THEN /\ job' = [job EXCEPT ![w].phase = Row(w).phase]
            /\ Goto(w, "undo_rmtemp")
            /\ UNCHANGED lease
       ELSE Fail(w)
    /\ UNCHANGED <<fs, db, env>>

UndoRemoveTemp(w) ==
    /\ pc[w] = "undo_rmtemp"
    /\ temp' = [temp EXCEPT ![me(w)] = Absent]
    /\ Goto(w, "undo_linktemp")
    /\ UNCHANGED <<dest, bak, parent, db, env, lease, job>>

UndoLinkTemp(w) ==
    LET granted == dest # Absent /\ temp[me(w)] = Absent IN
    /\ pc[w] = "undo_linktemp"
    /\ temp' = IF granted THEN [temp EXCEPT ![me(w)] = dest] ELSE temp
    /\ Try(w, granted, "undo_droptarget")
    /\ UNCHANGED <<dest, bak, parent, db, env>>

UndoDropTarget(w) ==
    /\ pc[w] = "undo_droptarget"
    /\ dest' = Absent
    /\ Try(w, dest # Absent,
           IF Updating(w) THEN "undo_linktarget" ELSE "undo_refresh")
    /\ UNCHANGED <<temp, bak, parent, db, env>>

UndoLinkTarget(w) ==
    LET granted == dest = Absent /\ bak[me(w)] # Absent IN
    /\ pc[w] = "undo_linktarget"
    /\ dest' = IF granted THEN bak[me(w)] ELSE dest
    /\ Try(w, granted, "undo_dropbackup")
    /\ UNCHANGED <<temp, bak, parent, db, env>>

UndoDropBackup(w) ==
    /\ pc[w] = "undo_dropbackup"
    /\ bak' = [bak EXCEPT ![me(w)] = Absent]
    /\ Try(w, bak[me(w)] # Absent, "undo_refresh")
    /\ UNCHANGED <<dest, temp, parent, db, env>>

UndoRefresh(w) ==
    /\ pc[w] = "undo_refresh"
    /\ idx' = Refreshed
    /\ Try(w, IF Updating(w) THEN ExistingOK ELSE AbsentOK, "undo_cleartemp")
    /\ UNCHANGED <<fs, journal, env>>

UndoClearTemp(w) ==
    /\ pc[w] = "undo_cleartemp"
    /\ temp' = [temp EXCEPT ![me(w)] = Absent]
    /\ Goto(w, IF Updating(w) THEN "undo_mark" ELSE "undo_rmdirs")
    /\ UNCHANGED <<dest, bak, parent, db, env, lease, job>>

\* rollback_empty, of the directories this request made
UndoRemoveDirectories(w) ==
    /\ pc[w] = "undo_rmdirs"
    /\ parent' = (parent /\ ~(job[w].parents /\ Empty))
    /\ Goto(w, "undo_mark")
    /\ UNCHANGED <<dest, temp, bak, db, env, lease, job>>

UndoMark(w) ==
    /\ pc[w] = "undo_mark"
    /\ Mark(w, job[w].phase, "rolled_back", "idle")
    /\ UNCHANGED <<fs, idx, env>>

-----------------------------------------------------------------------------
\* DurableEditService::open: recover_incomplete, and what Services makes of it.

\* list_incomplete_edit_operations; the row it read is used until the end.
ListIncomplete(w) ==
    /\ pc[w] = "start"
    /\ \/ /\ \A o \in Op : ~J!IsActive(o)
          /\ Goto(w, "idle")
          /\ UNCHANGED job
       \/ \E o \in Op :
            /\ J!IsActive(o)
            /\ job' = [job EXCEPT ![w] =
                  [NoJob EXCEPT !.op = o, !.kind = journal[o].kind,
                                !.old = journal[o].old, !.new = journal[o].new,
                                !.parents = journal[o].parents]]
            /\ Goto(w, "rec_inspect")
    /\ UNCHANGED <<fs, db, env, lease>>

\* Mutant: recovery does not ask for the lease.
InspectUnleased(w) ==
    /\ pc[w] = "rec_inspect"
    /\ Goto(w, CASE dest # Absent /\ dest = job[w].new -> "fwd_refresh"
                 [] dest # Absent /\ dest = job[w].old -> "back_refresh"
                 [] dest = Absent /\ job[w].old = Absent -> "absent_refresh"
                 [] dest = Absent /\ job[w].old # Absent -> "rst_check"
                 [] OTHER -> "ext_refresh")
    /\ UNCHANGED <<fs, db, env, lease, job>>

\* Mutant: a missing target is always taken for an interrupted creation.
InspectAbsentAsCreate(w) ==
    /\ pc[w] = "rec_inspect"
    /\ lease' = [lease EXCEPT ![HostOf[w]] = w]
    /\ Goto(w, CASE dest = Absent -> "absent_refresh"
                 [] dest # Absent /\ dest = job[w].new -> "fwd_refresh"
                 [] dest # Absent /\ dest = job[w].old -> "back_refresh"
                 [] OTHER -> "ext_refresh")
    /\ UNCHANGED <<fs, db, env, job>>

\* recover_one takes the target's lease and decides by the content it finds.
Inspect(w) ==
    LET seen == dest
        old == job[w].old
    IN
    /\ pc[w] = "rec_inspect"
    /\ IF idx # NoProject /\ lease[HostOf[w]] = NoWorker
       THEN /\ lease' = [lease EXCEPT ![HostOf[w]] = w]
            /\ Goto(w, CASE seen # Absent /\ seen = job[w].new -> "fwd_refresh"
                         [] seen # Absent /\ seen = old -> "back_refresh"
                         [] seen = Absent /\ old = Absent -> "absent_refresh"
                         [] seen = Absent /\ old # Absent -> "rst_check"
                         [] OTHER -> "ext_refresh")
            /\ UNCHANGED job
       ELSE Fail(w)
    /\ UNCHANGED <<fs, db, env>>

\* The target holds the new content: the operation is carried to its end.
FwdRefresh(w) ==
    /\ pc[w] = "fwd_refresh"
    /\ idx' = Refreshed
    /\ Try(w, ExistingOK, "fwd_read")
    /\ UNCHANGED <<fs, journal, env>>

\* advance_to_indexed reads the phase once, then walks it by compare-and-set.
FwdRead(w) ==
    /\ pc[w] = "fwd_read"
    /\ IF J!IsActive(me(w))
       THEN /\ job' = [job EXCEPT ![w].phase = Row(w).phase]
            /\ Goto(w, "fwd_advance")
            /\ UNCHANGED lease
       ELSE Fail(w)
    /\ UNCHANGED <<fs, db, env>>

NextPhase == [prepared |-> "backup_ready", backup_ready |-> "replaced",
              replaced |-> "indexed"]

\* Mutant: the phase is set without walking it.
FwdAdvanceAtOnce(w) ==
    /\ pc[w] = "fwd_advance"
    /\ journal' = [journal EXCEPT ![me(w)].phase = "indexed"]
    /\ Goto(w, "fwd_rmtemp")
    /\ UNCHANGED <<fs, idx, lease, job, env>>

\* Mutant: the loop forgets the row that the transition returned.
FwdAdvanceForgetting(w) ==
    /\ pc[w] = "fwd_advance"
    /\ \/ /\ job[w].phase = "indexed"
          /\ Goto(w, "fwd_rmtemp")
          /\ UNCHANGED <<journal, lease, job>>
       \/ /\ job[w].phase # "indexed"
          /\ J!TransitionEditOperation(me(w), job[w].phase, NextPhase[job[w].phase])
          /\ UNCHANGED <<pc, lease, job>>
    /\ UNCHANGED <<fs, idx, env>>

FwdAdvance(w) ==
    /\ pc[w] = "fwd_advance"
    /\ \/ /\ job[w].phase = "indexed"
          /\ Goto(w, "fwd_rmtemp")
          /\ UNCHANGED <<journal, lease, job>>
       \/ /\ job[w].phase # "indexed"
          /\ LET next == NextPhase[job[w].phase] IN
             IF J!TransitionAccepted(me(w), job[w].phase, next)
             THEN /\ J!TransitionEditOperation(me(w), job[w].phase, next)
                  /\ job' = [job EXCEPT ![w].phase = next]
                  /\ UNCHANGED <<pc, lease>>
             ELSE Fail(w) /\ UNCHANGED journal
    /\ UNCHANGED <<fs, idx, env>>

FwdRemoveTemp(w) ==
    /\ pc[w] = "fwd_rmtemp"
    /\ temp' = [temp EXCEPT ![me(w)] = Absent]
    /\ Goto(w, "fwd_rmbackup")
    /\ UNCHANGED <<dest, bak, parent, db, env, lease, job>>

FwdRemoveBackup(w) ==
    /\ pc[w] = "fwd_rmbackup"
    /\ bak' = [bak EXCEPT ![me(w)] = Absent]
    /\ Try(w, parent, "fwd_commit")
    /\ UNCHANGED <<dest, temp, parent, db, env>>

FwdCommit(w) ==
    /\ pc[w] = "fwd_commit"
    /\ Mark(w, "indexed", "committed", "idle")
    /\ UNCHANGED <<fs, idx, env>>

\* The target holds the original content, or a creation never reached it: the
\* index is made to agree, and what the operation left behind is removed.
BackRefresh(w) ==
    /\ pc[w] \in {"back_refresh", "absent_refresh"}
    /\ idx' = Refreshed
    /\ Try(w, IF pc[w] = "back_refresh" THEN ExistingOK ELSE AbsentOK, "back_rmtemp")
    /\ UNCHANGED <<fs, journal, env>>

BackRemoveTemp(w) ==
    /\ pc[w] = "back_rmtemp"
    /\ temp' = [temp EXCEPT ![me(w)] = Absent]
    /\ Goto(w, "back_rmbackup")
    /\ UNCHANGED <<dest, bak, parent, db, env, lease, job>>

BackRemoveBackup(w) ==
    /\ pc[w] = "back_rmbackup"
    /\ bak' = [bak EXCEPT ![me(w)] = Absent]
    /\ Goto(w, "back_rmdirs")
    /\ UNCHANGED <<dest, temp, parent, db, env, lease, job>>

\* Mutant: recovery leaves the directories of an interrupted creation.
BackKeepDirectories(w) ==
    /\ pc[w] = "back_rmdirs"
    /\ Goto(w, "back_read")
    /\ UNCHANGED <<fs, db, env, lease, job>>

\* rollback_recorded_parents, of the directories the row names
BackRemoveDirectories(w) ==
    /\ pc[w] = "back_rmdirs"
    /\ parent' = (parent /\ ~(job[w].parents /\ Empty))
    /\ Goto(w, "back_read")
    /\ UNCHANGED <<dest, temp, bak, db, env, lease, job>>

\* mark_rolled_back reads the phase, then asks to leave it.
BackRead(w) ==
    /\ pc[w] = "back_read"
    /\ IF J!Exists(me(w))
       THEN IF Row(w).phase = "rolled_back" THEN EndAt(w, "idle")
            ELSE /\ job' = [job EXCEPT ![w].phase = Row(w).phase]
                 /\ Goto(w, "back_mark")
                 /\ UNCHANGED lease
       ELSE Fail(w)
    /\ UNCHANGED <<fs, db, env>>

BackMark(w) ==
    /\ pc[w] = "back_mark"
    /\ Mark(w, job[w].phase, "rolled_back", "idle")
    /\ UNCHANGED <<fs, idx, env>>

\* The target is missing: the backup of an update is put back.
RestoreCheck(w) ==
    /\ pc[w] = "rst_check"
    /\ Try(w, bak[me(w)] = job[w].old, "rst_linktarget")
    /\ UNCHANGED <<fs, db, env>>

\* Mutant: the backup is renamed over whatever is there.
RestoreOverTarget(w) ==
    LET granted == bak[me(w)] # Absent IN
    /\ pc[w] = "rst_linktarget"
    /\ dest' = IF granted THEN bak[me(w)] ELSE dest
    /\ Try(w, granted, "rst_dropbackup")
    /\ UNCHANGED <<temp, bak, parent, db, env>>

RestoreLinkTarget(w) ==
    LET granted == dest = Absent /\ bak[me(w)] # Absent IN
    /\ pc[w] = "rst_linktarget"
    /\ dest' = IF granted THEN bak[me(w)] ELSE dest
    /\ Try(w, granted, "rst_dropbackup")
    /\ UNCHANGED <<temp, bak, parent, db, env>>

RestoreDropBackup(w) ==
    /\ pc[w] = "rst_dropbackup"
    /\ bak' = [bak EXCEPT ![me(w)] = Absent]
    /\ Try(w, bak[me(w)] # Absent, "rst_refresh")
    /\ UNCHANGED <<dest, temp, parent, db, env>>

\* Mutant: the restored content is taken to be indexed still.
RestoreWithoutRefresh(w) ==
    /\ pc[w] = "rst_refresh"
    /\ Goto(w, "rst_rmtemp")
    /\ UNCHANGED <<fs, db, env, lease, job>>

RestoreRefresh(w) ==
    /\ pc[w] = "rst_refresh"
    /\ idx' = Refreshed
    /\ Try(w, ExistingOK, "rst_rmtemp")
    /\ UNCHANGED <<fs, journal, env>>

\* Mutant: the temporary file of an interrupted update is forgotten.
RestoreKeepTemp(w) ==
    /\ pc[w] = "rst_rmtemp"
    /\ Goto(w, "back_read")
    /\ UNCHANGED <<fs, db, env, lease, job>>

RestoreRemoveTemp(w) ==
    /\ pc[w] = "rst_rmtemp"
    /\ temp' = [temp EXCEPT ![me(w)] = Absent]
    /\ Goto(w, "back_read")
    /\ UNCHANGED <<dest, bak, parent, db, env, lease, job>>

\* Neither version: the index follows the file, the conflict is kept.
KeepConflict(w) ==
    /\ pc[w] = "ext_refresh"
    /\ idx' = Refreshed
    /\ Fail(w)
    /\ UNCHANGED <<fs, journal, env>>

-----------------------------------------------------------------------------
\* Faults, crashes and everyone else.

\* Any call may return an error instead (a full disk, a busy database, one of
\* the FaultPoints).  A refresh may fail before it commits or, in the rebuild of
\* the cross-project links, after it.
IoError(w) ==
    /\ faults < MaxFault
    /\ pc[w] \in Requesting \cup Recovering
    /\ faults' = faults + 1
    /\ idx' \in IF pc[w] \in Refreshing THEN {idx, Refreshed} ELSE {idx}
    /\ IF pc[w] = "refresh"
       THEN Goto(w, "undo_verify") /\ UNCHANGED <<lease, job>>
       ELSE Fail(w)
    /\ UNCHANGED <<fs, journal, disk, crashes, writes, powers, ghost>>

\* The service is opened again: a restart of an idle one, or another attempt
\* at one whose recovery was refused.
Reopen(w) ==
    /\ pc[w] \in {"idle", "refused"}
    /\ Goto(w, "start")
    /\ UNCHANGED <<fs, db, env, lease, job>>

\* What is left of the services of some hosts: nothing but the need to start.
Forgotten(hosts) ==
    /\ pc' = [w \in Worker |-> IF HostOf[w] \in hosts THEN "start" ELSE pc[w]]
    /\ job' = [w \in Worker |-> IF HostOf[w] \in hosts THEN NoJob ELSE job[w]]
    /\ lease' = [h \in Host |-> IF h \in hosts THEN NoWorker ELSE lease[h]]

\* A process dies between any two steps.
Crash(h) ==
    /\ crashes < MaxCrash
    /\ crashes' = crashes + 1
    /\ Forgotten({h})
    /\ UNCHANGED <<fs, db, disk, faults, writes, powers, ghost>>

\* The write-ahead log reaches the disk: at a checkpoint, not at a commit,
\* because the connection sets synchronous = NORMAL.
Flush ==
    /\ MaxPower > 0
    /\ disk # db
    /\ disk' = db
    /\ UNCHANGED <<fs, db, count, ghost, local>>

\* Power is lost: the database returns to what was flushed.  Files, which are
\* synchronised, keep their state.
PowerLoss ==
    /\ powers < MaxPower
    /\ powers' = powers + 1
    /\ journal' = disk[1] /\ idx' = disk[2]
    /\ Forgotten(Host)
    /\ UNCHANGED <<fs, disk, crashes, faults, writes, ghost>>

\* Between the last look at the target and the call that acts on it.
Unwatched == {"linkbackup", "droptarget", "undo_rmtemp", "undo_linktemp",
              "undo_droptarget"}

Versions(record) == {record.old, record.new}

\* An editor or a checkout replaces or removes the target, as editors do: by a
\* rename, so that links to the old content keep it.
ExternalWrite(content) ==
    /\ writes < MaxWrite
    /\ content # dest
    /\ writes' = writes + 1
    /\ dest' = content
    /\ parent' = (parent \/ content # Absent)
    /\ foreign' = content
    /\ timely' = \A w \in Worker :
                    /\ pc[w] \notin Unwatched
                    /\ pc[w] \in Requesting => content \notin Versions(job[w])
    /\ UNCHANGED <<temp, bak, db, disk, crashes, faults, powers, local>>

\* delete_project does not ask the edit service; the journal rows of the project
\* go with it (ON DELETE CASCADE).
DeleteProject ==
    /\ Deletable /\ idx # NoProject
    /\ idx' = NoProject
    /\ journal' = [o \in Op |-> J!NoRow]
    /\ UNCHANGED <<fs, env, local>>

-----------------------------------------------------------------------------
Init ==
    /\ dest = Initial
    /\ temp = [o \in Op |-> Absent] /\ bak = [o \in Op |-> Absent]
    /\ parent \in {TRUE, Initial # Absent}
    /\ journal = [o \in Op |-> J!NoRow] /\ idx = Initial
    /\ disk = <<journal, idx>>
    /\ lease = [h \in Host |-> NoWorker]
    /\ pc \in [Worker -> {"start", "idle"}]
    /\ job = [w \in Worker |-> NoJob]
    /\ crashes = 0 /\ faults = 0 /\ writes = 0 /\ powers = 0
    /\ foreign = Absent /\ timely = TRUE

Request(w) ==
    \E o \in Op, new \in Content :
       \/ PrepareEdit(w, o, new)
       \/ \E mkdirs \in BOOLEAN : PrepareCreate(w, o, new, mkdirs)

CommitStep(w) ==
    \/ Begin(w) \/ MakeParents(w) \/ OpenTemp(w) \/ FillTemp(w) \/ Verify(w)
    \/ LinkBackup(w) \/ DropTarget(w) \/ MarkBackupReady(w)
    \/ LinkTarget(w) \/ DropTemp(w) \/ MarkReplaced(w) \/ Refresh(w)
    \/ MarkIndexed(w) \/ RemoveBackup(w) \/ RemoveTemp(w) \/ MarkCommitted(w)

UndoStep(w) ==
    \/ UndoVerify(w) \/ UndoRemoveTemp(w) \/ UndoLinkTemp(w)
    \/ UndoDropTarget(w) \/ UndoLinkTarget(w) \/ UndoDropBackup(w)
    \/ UndoRefresh(w) \/ UndoClearTemp(w) \/ UndoRemoveDirectories(w)
    \/ UndoMark(w)

RecoveryStep(w) ==
    \/ ListIncomplete(w) \/ Inspect(w)
    \/ FwdRefresh(w) \/ FwdRead(w) \/ FwdAdvance(w) \/ FwdRemoveTemp(w)
    \/ FwdRemoveBackup(w) \/ FwdCommit(w)
    \/ BackRefresh(w) \/ BackRemoveTemp(w) \/ BackRemoveBackup(w)
    \/ BackRemoveDirectories(w) \/ BackRead(w) \/ BackMark(w)
    \/ RestoreCheck(w) \/ RestoreLinkTarget(w) \/ RestoreDropBackup(w)
    \/ RestoreRefresh(w) \/ RestoreRemoveTemp(w) \/ KeepConflict(w)

Step(w) == CommitStep(w) \/ UndoStep(w) \/ RecoveryStep(w)

Environment ==
    \/ \E h \in Host : Crash(h)
    \/ \E content \in Content \cup {Absent} : ExternalWrite(content)
    \/ Flush \/ PowerLoss \/ DeleteProject

Next ==
    \/ \E w \in Worker : Request(w) \/ Step(w) \/ IoError(w) \/ Reopen(w)
    \/ Environment

Spec == Init /\ [][Next]_vars

\* A thread that is inside a call goes on with it.
FairSpec == Spec /\ \A w \in Worker : WF_vars(Step(w))

-----------------------------------------------------------------------------
\* Properties.

Labels == {"start", "idle", "refused"} \cup Requesting \cup Recovering

Job == [op : Op \cup {NoOp}, kind : J!Kind \cup {"none"},
        old : Content \cup {Absent}, new : Content \cup {Absent},
        mkdirs : BOOLEAN, parents : BOOLEAN, phase : J!Phase \cup {"none"}]

\* The type of the state.  The target and the backups never hold a write that
\* did not finish: neither a crash nor a recovery shows one to a reader.
TypeOK ==
    /\ dest \in Content \cup {Absent} /\ parent \in BOOLEAN
    /\ temp \in [Op -> FileState] /\ bak \in [Op -> Content \cup {Absent}]
    /\ J!TypeOK /\ idx \in Content \cup {Absent, NoProject}
    /\ lease \in [Host -> Worker \cup {NoWorker}]
    /\ pc \in [Worker -> Labels] /\ job \in [Worker -> Job]
    /\ {crashes, faults, writes, powers} \subseteq Nat
    /\ foreign \in Content \cup {Absent} /\ timely \in BOOLEAN

\* The journal as the edit service uses it, from any number of processes, is the
\* journal the store promises: J!Spec, with the cheap disjunct first for TLC.
JournalSpec == J!Init /\ [][UNCHANGED journal \/ J!Next]_journal

\* Until an update is indexed its original content is the target or is its
\* backup; once it is indexed, the new content is both in place and in the graph.
OriginalRecoverable ==
    \A o \in Op :
       J!IsActive(o) /\ journal[o].kind = "update" =>
          \/ journal[o].old \in {dest, bak[o]}
          \/ journal[o].phase = "indexed" /\ dest = journal[o].new /\ idx = dest

\* A finished operation leaves neither its temporary nor its backup file behind,
\* whichever of the commit, the rollback and the recovery finished it.
ArtifactsGone ==
    \A o \in Op :
       journal[o].phase \in J!Terminal => temp[o] = Absent /\ bak[o] = Absent

\* Whenever no operation is open the graph describes the file that is there.
IndexAgreesWhenSettled ==
    (\A o \in Op : ~J!IsActive(o)) => idx = dest

\* A creation that is rolled back takes the directories it recorded with it,
\* even when a crash separates making them from removing them.
RollbackRemovesDirectories ==
    [][\A o \in Op :
         /\ J!IsActive(o) /\ journal'[o].phase = "rolled_back"
         /\ journal[o].parents
         => ~parent]_vars

\* What an outside writer put in the target before the service took its last look
\* stays there, until somebody asks for an edit of it.
ForeignKept == foreign # Absent /\ timely => dest = foreign

Saved == dest # Absent \/ \E o \in Op : bak[o] # Absent

\* A power loss or the deletion of the project may leave a backup that no row
\* leads to, but neither makes an update or its recovery destroy the last copy of
\* the file: only the rollback of a creation may.
LastCopyKept ==
    [][Saved => Saved' \/ \E w \in Worker : job[w].kind = "create"]_vars

\* The edit is atomic: the mapping reads a missing target through the backup of
\* the update that took it away.
SavedFile ==
    IF dest # Absent THEN dest
    ELSE LET saved == {o \in Op : /\ J!IsActive(o) /\ journal[o].kind = "update"
                                  /\ bak[o] = journal[o].old}
         IN IF saved = {} THEN Absent ELSE bak[CHOOSE o \in saved : TRUE]

SavedEdit ==
    [o \in Op |->
       IF ~J!Exists(o) THEN [state |-> "none", old |-> Absent, new |-> Absent]
       ELSE [state |-> IF J!IsActive(o) THEN "open" ELSE journal[o].phase,
             old |-> journal[o].old, new |-> journal[o].new]]

A == INSTANCE AtomicEdit WITH file <- SavedFile, edit <- SavedEdit

EditIsAtomic == A!Spec

\* A start of the service that meets no further crash or fault leaves no open
\* operation behind, unless an outside write gives it a conflict.
StartupResolves ==
    \A w \in Worker :
       pc[w] = "start" /\ crashes = MaxCrash /\ faults = MaxFault /\ writes = 0
       ~> writes # 0 \/ \A o \in Op : ~J!IsActive(o)

\* An operation that its request or its recovery gives up is left open, and its
\* target closed to every other edit, only for a reason: a call failed, the directory
\* of a creation is missing that the request did not ask to make, another service of
\* the process holds the target, or the indexer rejects the content that is there.
OpenForCause ==
    [][\A w \in Worker, o \in Op :
         /\ pc[w] \in (Requesting \ {"begin"}) \cup Recovering
         /\ pc'[w] \in {"idle", "refused"} /\ faults' = faults
         /\ o = me(w) /\ J!IsActive(o)'
         => \/ pc[w] = "opentemp" /\ ~parent
            \/ pc[w] = "rec_inspect" /\ lease[HostOf[w]] # NoWorker
            \/ pc[w] \in Refreshing /\ dest \in Content \ Accepted]_vars
=============================================================================
