--------------------------- MODULE MCActionGoals ---------------------------
(* ActionGoals for TLC: goals and kinds are model values of the .cfg file. *)
EXTENDS ActionGoals
=============================================================================
