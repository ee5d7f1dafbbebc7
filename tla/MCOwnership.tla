----------------------------- MODULE MCOwnership ------------------------------
(* VMOwnership on a small instance: the elements of each of its sets are   *)
(* alike, and no property is temporal, so all of them are symmetric.       *)
EXTENDS VMOwnership, TLC

Symmetry ==
  Permutations(Slot) \cup Permutations(Buffer) \cup Permutations(Instance)
    \cup Permutations(Wrapper) \cup Permutations(Call)
=============================================================================
