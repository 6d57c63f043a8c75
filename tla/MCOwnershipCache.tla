------------------------- MODULE MCOwnershipCache --------------------------
(* OwnershipCache on small instances. *)
EXTENDS OwnershipCache, TLC

Symmetry == Permutations(Users) \cup Permutations(Robots)
              \cup Permutations(Serials) \cup Permutations(Calls)
=============================================================================
