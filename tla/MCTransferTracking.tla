------------------------- MODULE MCTransferTracking -------------------------
(* Model-checking instances of TransferTracking. *)
EXTENDS TransferTracking, TLC

\* The transfers are interchangeable: the safety runs use it.
Symmetry == Permutations(Jobs)
=============================================================================
