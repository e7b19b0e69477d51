----------------------------- MODULE EditJournal -----------------------------
(***************************************************************************)
(* The edit journal of goldeneye-store: the SQLite table edit_journal and  *)
(* the operations of Store that write it.  Every operation runs in one     *)
(* immediate transaction, so each is a single step.  Any caller may invoke *)
(* any operation with any arguments: what the journal promises, it         *)
(* promises whatever its callers do.                                       *)
(***************************************************************************)
EXTENDS Naturals

CONSTANTS
    Op,         \* operation identifiers (the primary key)
    Path,       \* (project, path) targets
    Content,    \* file contents; a content stands for its SHA-256 hash
    Absent      \* no content: SQL NULL, or no file

ASSUME AbsentAssumption == Absent \notin Content

VARIABLE journal    \* the rows, by operation identifier

-----------------------------------------------------------------------------
\* EditPhase and its automaton.

Active == {"prepared", "backup_ready", "replaced", "indexed"}
Terminal == {"committed", "rolled_back"}
Phase == Active \cup Terminal

\* Mutant: a rolled-back operation may be tried again.
CanTransitionAgain(from, to) ==
    \/ <<from, to>> \in { <<"prepared", "backup_ready">>,
                          <<"backup_ready", "replaced">>,
                          <<"replaced", "indexed">>,
                          <<"indexed", "committed">>,
                          <<"rolled_back", "prepared">> }
    \/ from \notin Terminal /\ to = "rolled_back"

CanTransition(from, to) ==
    \/ <<from, to>> \in { <<"prepared", "backup_ready">>,
                          <<"backup_ready", "replaced">>,
                          <<"replaced", "indexed">>,
                          <<"indexed", "committed">> }
    \/ from \notin Terminal /\ to = "rolled_back"

Kind == {"create", "update", "delete"}

\* The hash columns of a row agree with the kind of the operation.
HashesMatchKind(kind, old, new) ==
    /\ (old = Absent) <=> (kind = "create")
    /\ (new = Absent) <=> (kind = "delete")

Row == [phase : Phase, path : Path, kind : Kind,
        old : Content \cup {Absent}, new : Content \cup {Absent},
        parents : BOOLEAN]     \* created_parent_paths is not empty

NoRow == [phase |-> "none"]

Exists(o) == journal[o] # NoRow
IsActive(o) == journal[o].phase \in Active

-----------------------------------------------------------------------------
\* The operations.  A refused call is a stutter: it returns an error.

\* Mutant: the record is not validated.
CanCreateUnvalidated(o, row) ==
    /\ \A other \in Op : IsActive(other) => journal[other].path # row.path
    /\ ~Exists(o)

\* create_edit_operation refuses a target that already has an active row, and
\* the primary key refuses an identifier that was ever used.
CanCreate(o, row) ==
    /\ HashesMatchKind(row.kind, row.old, row.new)
    /\ \A other \in Op : IsActive(other) => journal[other].path # row.path
    /\ ~Exists(o)

CreateEditOperation(o, row) ==
    /\ row.phase = "prepared"
    /\ CanCreate(o, row)
    /\ journal' = [journal EXCEPT ![o] = row]

\* Mutant: the phase is compared, but not whether it may be left for the next.
TransitionUnchecked(o, expected, next) ==
    /\ Exists(o)
    /\ journal[o].phase \in {expected, next}

\* transition_edit_operation: compare-and-set on the phase.  Asking again for
\* the phase the row already has succeeds and changes nothing.
TransitionAccepted(o, expected, next) ==
    /\ Exists(o)
    /\ \/ journal[o].phase = next
       \/ journal[o].phase = expected /\ CanTransition(expected, next)

TransitionEditOperation(o, expected, next) ==
    /\ TransitionAccepted(o, expected, next)
    /\ journal' = [journal EXCEPT ![o].phase = next]

\* delete_edit_operation removes a row whatever its phase.
DeleteEditOperation(o) ==
    /\ Exists(o)
    /\ journal' = [journal EXCEPT ![o] = NoRow]

\* Deleting a project deletes the rows of its targets (ON DELETE CASCADE).
DeleteProject(paths) ==
    /\ \E o \in Op : Exists(o) /\ journal[o].path \in paths
    /\ journal' = [o \in Op |->
                     IF Exists(o) /\ journal[o].path \in paths
                     THEN NoRow ELSE journal[o]]

-----------------------------------------------------------------------------
Init == journal = [o \in Op |-> NoRow]

Next ==
    \/ \E o \in Op, row \in Row : CreateEditOperation(o, row)
    \/ \E o \in Op, expected, next \in Phase :
          TransitionEditOperation(o, expected, next)
    \/ \E o \in Op : DeleteEditOperation(o)
    \/ \E paths \in SUBSET Path : DeleteProject(paths)

Spec == Init /\ [][Next]_journal

-----------------------------------------------------------------------------
\* Every row has the shape of the table's CHECK constraints.
TypeOK ==
    /\ journal \in [Op -> Row \cup {NoRow}]
    /\ \A o \in Op : Exists(o) =>
         HashesMatchKind(journal[o].kind, journal[o].old, journal[o].new)

\* At most one operation is active on a target: what the partial unique index
\* edit_journal_active_target_idx demands, kept although callers race and
\* phases move both forward and to a rollback.
OneActivePerTarget ==
    \A o1, o2 \in Op :
        IsActive(o1) /\ IsActive(o2) /\ journal[o1].path = journal[o2].path
        => o1 = o2

\* A row never returns from a terminal phase, never skips a phase on the way
\* forward, and never changes what it recorded: recovery may rely on hashes
\* and phases it read from a row as long as the row exists.
RowsOnlyAdvance ==
    [][\A o \in Op : Exists(o) /\ Exists(o)' =>
         /\ \/ journal'[o].phase = journal[o].phase
            \/ CanTransition(journal[o].phase, journal'[o].phase)
         /\ journal'[o] = [journal[o] EXCEPT !.phase = journal'[o].phase]]_journal
=============================================================================
