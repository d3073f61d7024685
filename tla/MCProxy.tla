------------------------------ MODULE MCProxy ------------------------------
(* Model-checking instances of Proxy. *)
EXTENDS Proxy, TLC

\* Jobs and DELETE requests are interchangeable: the safety run uses it.
Symmetry == Permutations(Jobs) \cup Permutations(Deletes)

\* What a POST asks for in the way of archival meets the properties of
\* TransferTracking only; here every POST asks for it.
MCInit == Init /\ autoArchive = [j \in Jobs |-> TRUE]

MCSpec == MCInit /\ [][Next]_vars

\* A bound of the liveness run: two POSTs and a DELETE, or a POST and two
\* DELETEs.
MaxRequests == 3

Begun == {j \in Jobs : pc[j] # "idle" \/ adder[j] # "idle"}
Asked == {d \in Deletes : handler[d] # "idle" \/ answer[d] # "none"}

First(S) == CHOOSE x \in S : TRUE

\* Of the transfers and of the DELETEs, all alike at first, it is always the
\* same one that begins.  No behaviour is lost but its renamings; and no step
\* that fairness makes happen is the first of a POST or of a DELETE.
InOrder ==
  /\ Cardinality(Begun) + Cardinality(Asked) <= MaxRequests
  /\ Begun # {} => First(Jobs) \in Begun
  /\ Asked # {} => First(Deletes) \in Asked

MCFairSpec == MCInit /\ [][Next /\ InOrder']_vars /\ Fairness
=============================================================================
