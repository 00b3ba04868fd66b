------------------------------ MODULE Machine ------------------------------
(***************************************************************************)
(* The dispatcher of the virtual machine (runtime in src/olvm.c): the      *)
(* apply loop, the quanta that threads are cut by, the master control      *)
(* program (mcp) they are handed to, and the calls of native functions     *)
(* that call back into the machine, which nest activations of runtime.     *)
(* Blocks of code are known by their names; where an object lies matters   *)
(* only because ip points into one while the collector moves them.         *)
(***************************************************************************)
EXTENDS Integers, Sequences, FiniteSets

CONSTANTS Ticks,     \* TICKS: the quantum of whoever runs without one
          Deposit,   \* ticks beyond which an interop banks the rest (10)
          Quanta,    \* the quanta the mcp gives
          Place,     \* addresses the collector can put an object at
          MaxDepth   \* bound: activations of runtime

VARIABLES R,      \* registers: R0 is the mcp's continuation or #false
          pin,    \* R[NR + 0] and R[NR + 3]: what a callback keeps there
          run,    \* the activations of runtime, the innermost one last
          where,  \* the address of every object that is run
          ready,  \* what the mcp holds to run: thunks and thread states
          paused  \* for the model only: what the threads that were cut left

machineVars == <<R, pin, run, where, ready, paused>>

\* Words.
False    == <<"const", "#false">>
IHalt     == <<"const", "IHALT">>
IReturn   == <<"const", "IRETURN">>
EmptyFf  == <<"const", "IEMPTY">>
Num(n)   == <<"num", n>>
Code(c)  == <<"code", c>>        \* TBYTECODE
Proc(c)  == <<"proc", c>>        \* TPROC: a pair of code and its literals
Clos(c)  == <<"clos", c>>        \* TCLOS: a proc and its environment
Ff(b)    == <<"ff", b>>          \* a non-empty ff, that has the key or not
Thread(regs) == <<"thread", regs>>

IsReference(w) == w[1] \notin {"const", "num"}
Boss == Clos("mcp")

\* The objects ip or this can point into.
Object == {"mcp", "user", "cont", "back", "thread"}
Body(w) == IF w[1] = "thread" THEN "thread" ELSE w[2]

Depth == Len(run)
M == run[Depth]                     \* the activation that runs
At(pc) == Depth > 0 /\ M.pc = pc
Becomes(m) == run' = [run EXCEPT ![Depth] = m]

\* The objects are somewhere else after a collection; ip is set from this.
Collects == where' \in [Object -> Place]
IpAfter(m) ==
    LET o == Body(m.this) IN
    IF IsReference(m.this) THEN [m.ip EXCEPT !.at = @ - where[o] + where'[o]] ELSE m.ip

------------------------------------------------------------------------------
\* Mutant: only the continuation is given back.
FinishForgets(regs, this) ==
    /\ run' = IF Depth = 1 THEN <<>>
              ELSE [SubSeq(run, 1, Depth - 1) EXCEPT ![Depth - 1].this = this]
    /\ R' = IF Depth = 1 THEN regs ELSE [regs EXCEPT ![3] = pin[3]]
    /\ UNCHANGED <<pin, where, ready>>

\* done: the activation ends.  The outermost one ends the program; another one
\* gives the registers it pinned back to the native function it was called by.
Finish(regs, this) ==
    /\ run' = IF Depth = 1 THEN <<>>
              ELSE [SubSeq(run, 1, Depth - 1) EXCEPT ![Depth - 1].this = this]
    /\ R' = IF Depth = 1 THEN regs
            ELSE [regs EXCEPT ![0] = pin[0], ![3] = pin[3]]
    /\ UNCHANGED <<pin, where, ready>>

\* error: the mcp, if there is one, is told the operation and its arguments.
Fail(regs, op) ==
    LET told == [regs EXCEPT ![0] = False, ![3] = Num(3), ![4] = Num(op)] IN
    IF IsReference(regs[0])
    THEN /\ R' = told
         /\ Becomes([M EXCEPT !.pc = "apply", !.this = regs[0], !.acc = 4])
         /\ UNCHANGED <<pin, where, ready>>
    ELSE Finish(told, regs[0])

\* An ff without bindings, applied: the default, or #false.
ApplyEmpty ==
    /\ At("apply") /\ M.this = EmptyFf /\ M.acc > 1
    /\ Becomes([M EXCEPT !.this = R[3], !.acc = 1])
    /\ R' = [R EXCEPT ![3] = IF M.acc > 2 THEN R[5] ELSE False]
    /\ UNCHANGED <<pin, where, ready, paused>>

\* The final continuation: the mcp hears that the thread is done, and there is
\* nothing more to do when it is the mcp that is done.
ApplyHalt ==
    /\ At("apply") /\ M.this = IHalt
    /\ IF IsReference(R[0])
       THEN /\ R' = [R EXCEPT ![0] = False, ![3] = Num(2), ![4] = R[3],
                              ![5] = False, ![6] = False]
            /\ Becomes([M EXCEPT !.this = R[0], !.acc = 4, !.breaked = FALSE,
                                 !.ticker = Ticks, !.bank = 0])
            /\ UNCHANGED <<pin, where, ready>>
       ELSE Finish(R, R[0])
    /\ UNCHANGED paused

\* The end of a callback.
ApplyReturn ==
    /\ At("apply") /\ M.this = IReturn
    /\ Finish(R, IReturn)
    /\ UNCHANGED paused

\* An ff applied to a key and perhaps a default.
ApplyFf ==
    /\ At("apply") /\ M.this[1] = "ff"
    /\ IF M.acc \notin {2, 3} THEN Fail(R, 259)
       ELSE IF M.acc = 2 /\ ~ M.this[2] THEN Fail(R, 260)
       ELSE /\ R' = [R EXCEPT ![3] = IF M.this[2] THEN Num(0) ELSE R[5]]
            /\ Becomes([M EXCEPT !.this = R[3], !.acc = 1])
            /\ UNCHANGED <<pin, where, ready>>
    /\ UNCHANGED paused

\* The thread state: the registers up to the last of the n arguments, and the
\* block that was about to run.
Save(regs, n, code) == [i \in 1..(n + 3) |-> IF i = n + 3 THEN code ELSE regs[i]]

\* Code, the code of a proc or of a closure.  The quantum is charged for it;
\* when it is used up and there is an mcp the thread is saved and the mcp runs.
\* Otherwise the room is checked, which may collect, and the block starts.
ApplyCode ==
    /\ At("apply") /\ M.this[1] \in {"code", "proc", "clos"}
    /\ LET code == Code(M.this[2])
           env  == [R EXCEPT ![1] = IF M.this = code THEN R[1] ELSE M.this,
                             ![2] = IF M.this[1] = "clos" THEN Proc(M.this[2]) ELSE R[2]]
           over == M.ticker = 0
           left == IF over THEN Ticks ELSE M.ticker - 1
       IN  IF over /\ R[0] # False
           THEN /\ R' = [env EXCEPT ![0] = False,
                           ![3] = IF M.breaked THEN Num(14) ELSE Num(1),
                           ![4] = Thread(Save(env, M.acc, code)),
                           ![5] = Num(IF M.breaked THEN 8 ELSE 0), ![6] = False]
                /\ Becomes([M EXCEPT !.this = R[0], !.acc = 4, !.ticker = Ticks,
                                     !.bank = 0, !.breaked = FALSE])
                /\ paused' = paused \cup {<<code, M.acc, [i \in 1..(M.acc + 2) |-> env[i]]>>}
                /\ UNCHANGED <<pin, where, ready>>
           ELSE /\ R' = env
                /\ \E gc \in BOOLEAN, full \in BOOLEAN :
                     /\ IF gc THEN Collects ELSE ~ full /\ UNCHANGED where
                     /\ Becomes([M EXCEPT !.pc = "loop", !.this = code,
                                   !.ticker = left, !.breaked = @ \/ full,
                                   !.ip = [code |-> code[2], at |-> where'[code[2]]]])
                /\ UNCHANGED <<pin, ready, paused>>

\* Anything else cannot be applied.
ApplyOther ==
    /\ At("apply")
    /\ \/ M.this[1] \in {"thread", "num"} \/ M.this = False
       \/ M.this = EmptyFf /\ M.acc <= 1
    /\ Fail(R, IF M.this[1] = "thread" THEN 259 ELSE 257)
    /\ UNCHANGED paused

------------------------------------------------------------------------------
\* The instructions.  The mcp's code runs one of the threads it holds; other
\* code moves arguments and applies, returns, asks the mcp, calls out.
InBlock(c) == At("loop") /\ (M.ip.code = "mcp" <=> c = "mcp")

\* GOTO, after the moves that set its registers: f with a continuation and
\* n - 1 arguments.
Goto(f, n, k) ==
    /\ InBlock("user")
    /\ R' = [R EXCEPT ![3] = k, ![4] = Num(0), ![5] = Num(0), ![6] = False]
    /\ Becomes([M EXCEPT !.pc = "apply", !.this = f, !.acc = n])
    /\ UNCHANGED <<pin, where, ready, paused>>

\* RET.
Ret ==
    /\ InBlock("user")
    /\ R' = [R EXCEPT ![3] = Num(0), ![4] = False, ![5] = False, ![6] = False]
    /\ Becomes([M EXCEPT !.pc = "apply", !.this = R[3], !.acc = 1])
    /\ UNCHANGED <<pin, where, ready, paused>>

\* SYS: the mcp gets the continuation, with an operation; what is left of the
\* quantum is put by, when it is worth it.
Sys ==
    /\ InBlock("user")
    /\ R' = [R EXCEPT ![0] = False, ![3] = Num(5), ![4] = R[3], ![5] = False, ![6] = False]
    /\ Becomes([M EXCEPT !.pc = "apply", !.this = R[0], !.acc = 4, !.ticker = Ticks,
                         !.bank = IF M.ticker > Deposit THEN M.ticker ELSE @])
    /\ UNCHANGED <<pin, where, ready, paused>>

\* Mutant: the arity is taken from the size of the state, header included.
RestoredArity(state) == Len(state) - 2

\* The arity a thread state of so many words stands for.
Arity(state) == Len(state) - 3

\* RUN, by the mcp, which keeps what it has just been handed: a thread state
\* goes on in its block, a thunk is applied with the final continuation.
RunNext(t, quantum) ==
    /\ InBlock("mcp")
    /\ LET handed == {w \in {R[4]} : IsReference(w) /\ R[3] \in {Num(1), Num(5), Num(14)}}
           boss   == [M EXCEPT !.this = t, !.bank = 0,
                               !.ticker = IF M.bank # 0 THEN M.bank ELSE quantum]
       IN  /\ t \in ready \cup handed
           /\ ready' = (ready \cup handed) \ {t}
           /\ IF t[1] = "thread"
              THEN LET code == t[2][Len(t[2])][2] IN
                   /\ R' = [i \in DOMAIN R |-> IF i = 0 THEN Boss
                                ELSE IF i < Len(t[2]) THEN t[2][i] ELSE R[i]]
                   /\ Becomes([boss EXCEPT !.acc = Arity(t[2]),
                                  !.ip = [code |-> code, at |-> where[code]]])
                   /\ paused' = paused \ {<<Code(code), Arity(t[2]),
                                   SubSeq(t[2], 1, Len(t[2]) - 1)>>}
              ELSE /\ R' = [R EXCEPT ![0] = Boss, ![3] = IHalt]
                   /\ Becomes([boss EXCEPT !.pc = "apply", !.acc = 1])
                   /\ UNCHANGED paused
    /\ UNCHANGED <<pin, where>>

\* The mcp with nothing to run ends.
BossEnds ==
    /\ InBlock("mcp") /\ ready = {}
    /\ R[3] \notin {Num(1), Num(5), Num(14)}
    /\ Becomes([M EXCEPT !.pc = "apply", !.this = IHalt, !.acc = 1])
    /\ UNCHANGED <<R, pin, where, ready, paused>>

\* A collection in the middle of a block: by VMNEW_OBJECT, VMNEW_RAWOBJECT,
\* read, or the syscall 1000.
CollectInBlock ==
    /\ At("loop")
    /\ Collects
    /\ Becomes([M EXCEPT !.ip = IpAfter(M)])
    /\ UNCHANGED <<R, pin, ready, paused>>

\* Syscall 59: a native function, which calls the machine back before it
\* returns.  The callback runs without an mcp, in an activation of its own.
CallBack(n) ==
    /\ InBlock("user") /\ Depth < MaxDepth
    /\ pin' = [i \in {0, 3} |-> R[i]]
    /\ R' = [R EXCEPT ![0] = False, ![3] = IReturn, ![4] = Num(4)]
    /\ run' = Append(run, [pc |-> "apply", this |-> Clos("back"), acc |-> n, ticker |-> Ticks,
                           bank |-> 0, breaked |-> FALSE, ip |-> [code |-> "back", at |-> 0],
                           caller |-> <<R[0], R[3]>>])
    /\ UNCHANGED <<where, ready, paused>>

\* Syscall 60: the outermost activation ends, and the program with it.
Exit ==
    /\ At("loop")
    /\ Finish([R EXCEPT ![3] = Num(0)], R[3])
    /\ UNCHANGED paused

\* An instruction that fails, an arity error for instance.
Crash ==
    /\ At("loop")
    /\ Fail(R, 17)
    /\ UNCHANGED paused

\* The mcp is started by the program of the image, with threads to run.
MachineInit ==
    /\ R = [i \in 0..6 |-> IF i = 3 THEN IHalt ELSE False]
    /\ pin = [i \in {0, 3} |-> False]
    /\ run = <<[pc |-> "apply", this |-> Boss, acc |-> 2, ticker |-> Ticks, bank |-> 0,
                breaked |-> FALSE, ip |-> [code |-> "mcp", at |-> 0], caller |-> <<>>]>>
    /\ where \in {[o \in Object |-> p] : p \in Place}
    /\ ready = {Clos("user"), Proc("user")}
    /\ paused = {}

\* What a block calls, with how many arguments, and what gets the result: a
\* chain of continuations that ends in the one the activation began with.
Calls == {<<Clos("user"), 2>>, <<Ff(TRUE), 2>>, <<Ff(FALSE), 2>>, <<Ff(FALSE), 3>>,
          <<EmptyFf, 3>>, <<EmptyFf, 1>>}
Chain == {IF Depth = 1 THEN IHalt ELSE IReturn, Proc("cont")}

MachineNext ==
    \/ ApplyEmpty \/ ApplyHalt \/ ApplyReturn \/ ApplyFf \/ ApplyCode \/ ApplyOther
    \/ \E c \in Calls, k \in Chain : Goto(c[1], c[2], k)
    \/ Ret \/ Sys
    \/ \E t \in ready \cup {R[4]}, q \in Quanta : RunNext(t, q)
    \/ BossEnds \/ CollectInBlock
    \/ CallBack(1)
    \/ Exit \/ Crash

MachineSpec == MachineInit /\ [][MachineNext]_machineVars

------------------------------------------------------------------------------
\* The mcp is never lost: it runs, or the register 0 has its continuation, or,
\* while a callback runs, the place a callback keeps it in.
BossKept ==
    Depth > 0 =>
      \/ R[0] = Boss
      \/ Depth > 1 /\ pin[0] = Boss
      \/ Depth = 1 /\ At("apply") /\ M.this \in {Boss, IHalt}
      \/ Depth = 1 /\ At("loop") /\ M.ip.code = "mcp"

\* A thread that was cut goes on where it was, with the registers and the
\* arity it had, whatever ran in between.
Resumed ==
    [][\A m \in {run'[k] : k \in DOMAIN run'} :
         M.ip.code = "mcp" /\ m.this[1] = "thread" =>
           <<Code(m.ip.code), m.acc, [i \in 1..(m.acc + 2) |-> R'[i]]>> \in paused
      ]_machineVars

\* A native function that called back goes on with the continuation and the
\* mcp it was called with.
CallbackReturns ==
    [][Len(run') \in 1..(Depth - 1) =>
         <<R'[0], R'[3]>> = M.caller]_machineVars

\* The instruction pointer stays in the code it runs (src/olvm.c:1904).
IpInCode == At("loop") => M.ip.at = where[M.ip.code]
==============================================================================
