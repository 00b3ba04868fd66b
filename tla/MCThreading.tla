----------------------------- MODULE MCThreading -----------------------------
(* The thread controller on a small instance: three names, so that one     *)
(* thread may mail, kill or be linked to a second while a third one waits. *)
EXTENDS Threading

CONSTANTS init, repl, io
MCThread == {init, repl, io}

\* Init tells 'init apart from the others.
Symmetry == Permutations({repl, io})
==============================================================================
