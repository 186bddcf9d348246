------------------------------- MODULE MCDecode -------------------------------
(***************************************************************************)
(* Instances of Decode for TLC: a user function, a function entered by a   *)
(* far call, and a linkage stub without a symbol.                          *)
(***************************************************************************)
EXTENDS Decode

(* A user function has a short name, one entered by a far call a longer    *)
(* one: with a buffer of four characters a stack of two functions is cut   *)
(* off before the upper one when the lower one was entered by a far call.  *)
Names == [f \in Symbols |-> IF f \in Kernel THEN <<"g", "g">> ELSE <<"f">>]

Executed == [profile |-> 5, tree |-> 6, collapsed |-> 7]
TreeExecuted == [tree |-> 8]
=============================================================================
