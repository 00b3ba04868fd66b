------------------------------ MODULE MCInterop ------------------------------
(* Two clients, one server, and one more thread: one that mails the clients *)
(* things; one that spins and is cut off now and then; or one that spins and *)
(* keeps the processor, next to a client that polls.                         *)
EXTENDS Interop

CONSTANTS init, c1, c2, n1, intern
MCThread == {init, c1, c2, n1, intern}

Asking  == [poller |-> {}, noise |-> {n1}, spinner |-> {}, rounds |-> 0, pace |-> 1]
Sharing == [poller |-> {}, noise |-> {}, spinner |-> {n1}, rounds |-> 0, pace |-> 19]
Polling == [poller |-> {c1}, noise |-> {}, spinner |-> {n1}, rounds |-> 2, pace |-> 9]
All == {Asking, Sharing, Polling}
One == {Asking}
=============================================================================
