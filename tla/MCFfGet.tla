------------------------------- MODULE MCFfGet -------------------------------
(* A value, and a reference whose word is a smaller number.                 *)
EXTENDS Ff

MCFfKeys == {[ref |-> FALSE, word |-> 9], [ref |-> TRUE, word |-> 4]}
==============================================================================
