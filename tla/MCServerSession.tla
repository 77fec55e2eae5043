-------------------------- MODULE MCServerSession ---------------------------
(* Instances of ServerSession for TLC. *)
EXTENDS ServerSession

Symmetry == Permutations(Nodes) \cup Permutations(Objects)
=============================================================================
