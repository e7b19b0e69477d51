----------------------------- MODULE MCEditJournal -----------------------------
(* An instance of EditJournal for TLC. *)
EXTENDS EditJournal, TLC

\* Identifiers, targets and contents are interchangeable.
Symmetry == Permutations(Op) \cup Permutations(Path) \cup Permutations(Content)
=============================================================================
