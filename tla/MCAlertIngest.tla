--------------------------- MODULE MCAlertIngest ---------------------------
(* AlertIngest on small instances. *)
EXTENDS AlertIngest, TLC

Symmetry == Permutations(Handlers)
=============================================================================
