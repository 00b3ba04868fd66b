---------------------------- MODULE MCFifthFloat ----------------------------
(* Five doubles for a callback of System V.                                 *)
EXTENDS Native

MCCalls == {<<<<"callable", <<"callable", 1>>>>>>}
MCTypes == {[k \in 1..5 |-> "double"]}
MCLists == {[l \in ListNames |-> <<>>]}
==============================================================================
