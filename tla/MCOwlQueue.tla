----------------------------- MODULE MCOwlQueue -----------------------------
(* Queues of up to five values: a half of an odd and of an even list, and   *)
(* enough operations to fill one, empty it from both ends and refill it.    *)
EXTENDS OwlQueue

CONSTANTS a, b
MCValue == {a, b}
==============================================================================
