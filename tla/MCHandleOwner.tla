--------------------------- MODULE MCHandleOwner ---------------------------
(* Instance of HandleOwner for TLC: handle values and objects are alike.   *)
EXTENDS HandleOwner, TLC

Symmetry == Permutations(Handles) \cup Permutations(Objects)

=============================================================================
