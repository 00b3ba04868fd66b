----------------------------- MODULE MCTalkback -----------------------------
(* Five programs: enough for an eval that returns too early, an answer that *)
(* comes after it, an eval that takes it, an error that throws away what     *)
(* was read ahead, and an eval after it.                                     *)
EXTENDS Talkback
==============================================================================
