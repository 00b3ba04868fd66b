------------------------------ MODULE Talkback ------------------------------
(***************************************************************************)
(* The talkback extension (extensions/talkback/talkback.c): a C program    *)
(* runs the virtual machine in a thread of its own, writes programs into   *)
(* the pipe the repl reads, and takes answers from two fields, ok and      *)
(* error.  Either side can sleep on a condition variable and be woken by   *)
(* the other one; a signal that finds no one asleep is lost.               *)
(*                                                                         *)
(* A program is sent to be run (OL_tb_send) or to be answered              *)
(* (OL_tb_eval), and may fail.  Spurious wakings, which POSIX allows, are  *)
(* left out: nothing below needs them to go wrong.                         *)
(***************************************************************************)
EXTENDS Naturals, SequencesExt

CONSTANT MaxRequest  \* bound: programs sent

ASSUME TalkbackAssumption == MaxRequest \in Nat

None == 0  \* the null pointer

VARIABLES pipe,   \* programs written and not read
          ok,     \* state->ok: whose answer it is
          error,  \* state->error # 0
          olvm,   \* where the machine's thread is
          host,   \* where the C program is
          asked,  \* programs sent so far; the last one is what eval waits for
          got,    \* what the last eval returned
          last    \* history: the last answer that an eval returned

talkbackVars == <<pipe, ok, error, olvm, host, asked, got, last>>

Request == [id : 1..MaxRequest, eval : BOOLEAN, fails : BOOLEAN]

------------------------------------------------------------------------------
(* The machine's thread.                                                   *)

\* The repl evaluates the next program.  An error makes repl-trampoline read
\* from the pipe anew: what the old reader had read ahead is forgotten.
Process ==
    /\ olvm = "runs" /\ pipe # <<>>
    /\ LET r == Head(pipe)
       IN  \/ /\ ~r.eval /\ ~r.fails
              /\ pipe' = Tail(pipe)
              /\ UNCHANGED <<ok, error, olvm>>
           \/ /\ r.eval /\ ~r.fails
              /\ pipe' = Tail(pipe)
              /\ ok' = r.id /\ olvm' = "reports"
              /\ UNCHANGED error
           \/ /\ r.fails
              /\ \E n \in 1..Len(pipe) : pipe' = SubSeq(pipe, n + 1, Len(pipe))
              /\ error' = TRUE /\ olvm' = "reports"
              /\ UNCHANGED ok
    /\ UNCHANGED <<host, asked, got, last>>

\* OL_tb_an_answer, OL_tb_hook_fail: wakeup(me)
WakeHost ==
    /\ olvm = "reports"
    /\ olvm' = "stops"
    /\ host' = IF host = "sleeps" THEN "woken" ELSE host
    /\ UNCHANGED <<pipe, ok, error, asked, got, last>>

\* ...: wait(olvm)
Stop ==
    /\ olvm = "stops"
    /\ olvm' = "waits"
    /\ UNCHANGED <<pipe, ok, error, host, asked, got, last>>

Olvm == Process \/ WakeHost \/ Stop

------------------------------------------------------------------------------
(* The C program.                                                          *)

Write(eval, fails, next) ==
    /\ asked < MaxRequest
    /\ asked' = asked + 1
    /\ pipe' = Append(pipe, [id |-> asked + 1, eval |-> eval, fails |-> fails])
    /\ host' = next

\* wakeup(olvm)
WakeOlvm(next) ==
    /\ olvm' = IF olvm = "waits" THEN "runs" ELSE olvm
    /\ host' = next

\* OL_tb_send: write; wakeup(olvm)
Send ==
    \/ /\ host = "idle"
       /\ \E fails \in BOOLEAN : Write(FALSE, fails, "sent")
       /\ UNCHANGED <<ok, error, olvm, got, last>>
    \/ /\ host = "sent"
       /\ WakeOlvm("idle")
       /\ UNCHANGED <<pipe, ok, error, asked, got, last>>

\* OL_tb_eval: write
Eval ==
    /\ host = "idle" /\ ~error
    /\ \E fails \in BOOLEAN : Write(TRUE, fails, "written")
    /\ UNCHANGED <<ok, error, olvm, got, last>>

\* Mutant: the last answer is not cleared.
ClearForgotten ==
    /\ host = "written"
    /\ host' = "cleared"
    /\ UNCHANGED <<pipe, ok, error, olvm, asked, got, last>>

\* ...: ok = 0
Clear ==
    /\ host = "written"
    /\ ok' = None
    /\ host' = "cleared"
    /\ UNCHANGED <<pipe, error, olvm, asked, got, last>>

\* ...: wakeup(olvm)
EvalWakes ==
    /\ host = "cleared"
    /\ WakeOlvm("checks")
    /\ UNCHANGED <<pipe, ok, error, asked, got, last>>

\* ...: return 0 or the answer, which the program then uses
Return ==
    \/ error /\ host' = "idle" /\ got' = None /\ last' = last
    \/ /\ ~error
       /\ host' = "uses" /\ got' = ok
       /\ last' = IF ok # None THEN ok ELSE last

\* ...: with me_mutex held: an error, an answer, or pthread_cond_wait
Check ==
    /\ host = "checks"
    /\ \/ (error \/ ok # None) /\ Return
       \/ ~error /\ ok = None /\ host' = "sleeps" /\ UNCHANGED <<got, last>>
    /\ UNCHANGED <<pipe, ok, error, olvm, asked>>

Woken ==
    /\ host = "woken"
    /\ Return
    /\ UNCHANGED <<pipe, ok, error, olvm, asked>>

\* The program is done with the answer.
Used ==
    /\ host = "uses"
    /\ host' = "idle"
    /\ UNCHANGED <<pipe, ok, error, olvm, asked, got, last>>

\* OL_tb_reset
Reset ==
    /\ host = "idle" /\ error
    /\ error' = FALSE
    /\ UNCHANGED <<pipe, ok, olvm, host, asked, got, last>>

Host == Send \/ Eval \/ Clear \/ EvalWakes \/ Check \/ Woken \/ Used \/ Reset

------------------------------------------------------------------------------
\* OL_tb_start, when the repl has read the first definitions.
Init ==
    /\ pipe = <<>> /\ ok = None /\ error = FALSE
    /\ olvm = "runs" /\ host = "idle"
    /\ asked = 0 /\ got = None /\ last = None

Next == Olvm \/ Host

Spec == Init /\ [][Next]_talkbackVars

------------------------------------------------------------------------------
(* Correctness.                                                            *)

\* No answer is returned to two evals, nor after a later one: what
\* OL_tb_eval finds in ok is not left over from a call before it.
AnswersAdvance ==
    [][host' = "uses" /\ host # "uses" /\ got' # None => got' > last]_talkbackVars

\* "Forces olvm to execute provided text program in local context and returns
\* the value as result of execution" (talkback.h): what OL_tb_eval returns is
\* not the answer to a program it was not called with.
NoOtherAnswer == host = "uses" => got \in {None, asked}

\* "let's sleep and make main thread to process answer (avoiding this answer to
\* be GC'ed)" (talkback.c): the machine stands still while the C program uses
\* an answer, which is a pointer into the machine's heap.
AnswerKept == host = "uses" => olvm # "runs"
==============================================================================
