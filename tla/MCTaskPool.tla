----------------------------- MODULE MCTaskPool -----------------------------
(* Model-checking instances of TaskPool. *)
EXTENDS TaskPool, TLC

\* Jobs and DELETE requests are interchangeable: the safety runs use it.
Symmetry == Permutations(Jobs) \cup Permutations(Deletes)
=============================================================================
