----------------------------- MODULE MCBcapRpc ------------------------------
(* Instances of BcapRpc for TLC. *)
EXTENDS BcapRpc, TLC

Symmetry == Permutations(Clients)
=============================================================================
