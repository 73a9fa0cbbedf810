-------------------------- MODULE MCCloneOperation --------------------------
(* Instances of CloneOperation for model checking. *)
EXTENDS CloneOperation, TLC

Symmetry == Permutations(Tokens)
=============================================================================
