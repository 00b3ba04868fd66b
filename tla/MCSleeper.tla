------------------------------ MODULE MCSleeper ------------------------------
(* Two clients that sleep three times, so that one has a bed of its next    *)
(* sleep behind one of the other that is left over; or three.               *)
EXTENDS Sleeper

CONSTANTS init, io, c1, c2, c3
MCThread == {init, io, c1, c2, c3}
MCClient == {c1, c2, c3}
MCTwo == {c1, c2}
==============================================================================
