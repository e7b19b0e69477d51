---------------------------- MODULE MCProjectGraph ----------------------------
EXTENDS ProjectGraph, TLC

\* Workers and files are interchangeable.
Symmetry == Permutations(Worker) \cup Permutations(File)

=============================================================================
