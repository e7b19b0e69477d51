------------------------------ MODULE MCIndexJobs ------------------------------
(* Instances of IndexJobs for TLC. *)
EXTENDS IndexJobs

CONSTANTS h1, h2, t1, t2, t3

\* The threads t1 and t2 are of the process h1, t3 is of h2.
Threads == [t \in Thread |-> IF t = t3 THEN h2 ELSE h1]
=============================================================================
