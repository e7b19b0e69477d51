---------------------------- MODULE MCQueryCache ----------------------------
(* An instance of QueryCache for TLC. *)
EXTENDS QueryCache

CONSTANTS h1, h2, w1, w2

\* One writer in the process that is asked, one in another.
Threads == [w \in Writer |-> IF w = w1 THEN h1 ELSE h2]
=============================================================================
