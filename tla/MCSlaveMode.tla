---------------------------- MODULE MCSlaveMode ----------------------------
(* SlaveMode for TLC: it is finite, so the .cfg files give constants only. *)
EXTENDS SlaveMode
=============================================================================
