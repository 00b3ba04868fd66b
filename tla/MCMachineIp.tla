----------------------------- MODULE MCMachineIp -----------------------------
(* Two places a collection can put an object at.                            *)
EXTENDS Machine
==============================================================================
