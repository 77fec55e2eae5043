------------------------------ MODULE MCMiniTP ------------------------------
(* An instance of MiniTP for TLC: an application that draws a text, a line *)
(* or a rectangle, or one colour itself.                                   *)
EXTENDS Integers, Sequences

VARIABLES by, asked, todo, data, result, packed

Room == 20
Texts == {<<>>, <<"c", "d">>}
ByteArgs == {15}
Lists == {<<[vt |-> "VARIANT", val |-> <<[vt |-> "", val |-> "COLOR_FG"], [vt |-> "", val |-> 15]>>]>>}

INSTANCE MiniTP
=============================================================================
