----------------------------- MODULE MCDurableEdit -----------------------------
(* Instances of DurableEdit for TLC. *)
EXTENDS DurableEdit, TLC

CONSTANTS h1, h2, w1, w2

\* Who runs where.
OneHost == [w \in Worker |-> h1]
OwnHosts == [w \in Worker |-> IF w = w1 THEN h1 ELSE h2]

\* Operation identifiers are interchangeable.
Symmetry == Permutations(Op)
=============================================================================
