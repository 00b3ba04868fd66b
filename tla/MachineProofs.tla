--------------------------- MODULE MachineProofs ---------------------------
(***************************************************************************)
(* Proofs about Machine, for every quantum and deposit and all places the  *)
(* collector can choose: that the master control program (mcp) is never    *)
(* lost, that a thread that was cut goes on as it was, and a native        *)
(* function too, when the machine it called back is done.  Callbacks do    *)
(* not nest: a callback within a callback keeps its registers where the    *)
(* first one keeps them, and none of this holds.                           *)
(*                                                                         *)
(* The invariant says who runs.  Alone on the stack of activations, it is  *)
(* a thread while R0 has the mcp's continuation, and the mcp while R0 is   *)
(* #false.  In a callback R0 is #false and the mcp is pinned.  Whatever    *)
(* can reach the mcp's hands is a thunk, or the state of a thread that was *)
(* cut and is listed in paused; no thread gets hold of either the mcp or a *)
(* thread state as something to apply.                                     *)
(*                                                                         *)
(* At the end, what the collector's arithmetic gives for heaps of every    *)
(* size: Heap relies on it for RoomToRun, and TLC sees some sizes only.    *)
(***************************************************************************)
EXTENDS Machine, HeapSize, SequenceTheorems, TLAPS

Fields == {"pc", "this", "acc", "ticker", "bank", "breaked", "ip", "caller"}

\* What a thread can apply: neither the mcp nor the state of a thread.
Mild(w) == w[1] # "thread" /\ (w[1] \in {"code", "proc", "clos"} => w[2] # "mcp")

\* What is noted of a thread that was cut: its block, its arity, its registers.
Left(m) ==
    /\ m = <<m[1], m[2], m[3]>> /\ m[1] = Code(m[1][2]) /\ m[1][2] # "mcp"
    /\ m[2] \in 1..4
    /\ m[3] = [i \in 1..(m[2] + 2) |-> m[3][i]]
    /\ Mild(m[3][3]) /\ (m[2] >= 3 => Mild(m[3][5]))

\* What the mcp can hold: the state of a thread that was cut, or a thunk.
Cut(w) == \E m \in paused : w = Thread(Save(m[3], m[2], m[1]))
Held(w) == Mild(w) \/ Cut(w)

\* What holds of registers and of the mcp's threads at any time.  R3 is the
\* continuation, and what an ff applied to a key without a value gives is in R5.
Stored ==
    /\ DOMAIN R = 0..6 /\ DOMAIN pin = {0, 3}
    /\ Mild(R[3]) /\ Mild(R[5])
    /\ \A m \in paused : Left(m)
    /\ \A w \in ready : Held(w)

\* What the mcp is about to put on its list, when it was told to.
Handing == R[3] \in {Num(1), Num(5), Num(14)} => Held(R[4])

Activation(a) ==
    /\ DOMAIN a = Fields /\ DOMAIN a.ip = {"code", "at"}
    /\ a.acc \in 1..4 /\ a.pc \in {"apply", "loop"}

\* The activation is in a thread's hands, or in the mcp's.
Works(a) == IF a.pc = "apply" THEN Mild(a.this) ELSE a.ip.code # "mcp"
Bossy(a) == IF a.pc = "apply" THEN a.this \in {Boss, IHalt}
                              ELSE a.ip.code = "mcp" /\ a.this[1] # "thread"

\* The only activation a; and a callback's activation b, on top of the one that
\* called the native function.
Outer(a) ==
    /\ Activation(a)
    /\ \/ R[0] = Boss /\ Works(a)
       \/ R[0] = False /\ Bossy(a) /\ Handing
Inner(a, b) ==
    /\ Activation(a) /\ Activation(b)
    /\ R[0] = False /\ Works(b) /\ b.ip.code # "mcp"
    /\ a.pc = "loop" /\ a.ip.code # "mcp"
    /\ pin[0] = Boss /\ Mild(pin[3]) /\ b.caller = <<pin[0], pin[3]>>

Alone  == Stored /\ run = <<run[1]>> /\ Outer(run[1])
Nested == Stored /\ run = <<run[1], run[2]>> /\ Inner(run[1], run[2])

\* The inductive invariant.  Nothing is said of a machine that has ended.
MachineInv == run = <<>> \/ Alone \/ Nested

\* The steps that Resumed and CallbackReturns allow.
GoesOn ==
    \A m \in {run'[k] : k \in DOMAIN run'} :
         M.ip.code = "mcp" /\ m.this[1] = "thread" =>
           <<Code(m.ip.code), m.acc, [i \in 1..(m.acc + 2) |-> R'[i]]>> \in paused
GoesBack == Len(run') \in 1..(Depth - 1) => <<R'[0], R'[3]>> = M.caller

\* What is shown of every action.
Kept == MachineInv' /\ GoesOn /\ GoesBack

\* A step to the activation m is a step to one that the invariant allows, and
\* that goes on as the thread was cut.
Fits(m) ==
    \/ Depth = 1 /\ R'[0] = Boss /\ Works(m)
    \/ Depth = 1 /\ R'[0] = False /\ Bossy(m) /\ Handing'
    \/ Depth = 2 /\ R'[0] = False /\ Works(m) /\ m.ip.code # "mcp"
Resumes(m) ==
    M.ip.code = "mcp" /\ m.this[1] = "thread" =>
      <<Code(m.ip.code), m.acc, [i \in 1..(m.acc + 2) |-> R'[i]]>> \in paused

\* A thread runs, or a callback.
Runs ==
    \/ Depth = 1 /\ R[0] = Boss
    \/ Depth = 2 /\ R[0] = False /\ M.ip.code # "mcp"

------------------------------------------------------------------------------
\* The stack with another activation on top.
LEMMA Changed ==
  /\ \A a, m : [<<a>> EXCEPT ![1] = m] = <<m>>
  /\ \A a, b, m : [<<a, b>> EXCEPT ![2] = m] = <<a, m>>
  OBVIOUS

\* The stack without the callback.
LEMMA Shorter == \A a, b : SubSeq(<<a, b>>, 1, 1) = <<a>>
<1> SUFFICES ASSUME NEW a, NEW b PROVE SubSeq(<<a, b>>, 1, 1) = <<a>>
  OBVIOUS
<1> DEFINE s == <<a, b>>
<1>1. s \in Seq({a, b}) /\ Len(s) = 2 /\ s[1] = a
  OBVIOUS
<1> HIDE DEF s
<1>2. SubSeq(s, 1, 1) \in Seq({a, b}) /\ Len(SubSeq(s, 1, 1)) = 1 /\ SubSeq(s, 1, 1)[1] = a
  BY <1>1
<1>3. \A t \in Seq({a, b}) : Len(t) = 1 /\ t[1] = a => t = <<a>>
  OBVIOUS
<1> QED BY <1>2, <1>3 DEF s

\* The stack with a callback.
LEMMA Longer == \A a, b : Append(<<a>>, b) = <<a, b>>
<1> SUFFICES ASSUME NEW a, NEW b PROVE Append(<<a>>, b) = <<a, b>>
  OBVIOUS
<1> DEFINE s == <<a>>
<1>1. s \in Seq({a, b}) /\ Len(s) = 1 /\ s[1] = a
  OBVIOUS
<1> HIDE DEF s
<1>2. Append(s, b) \in Seq({a, b}) /\ Len(Append(s, b)) = 2
      /\ Append(s, b)[1] = a /\ Append(s, b)[2] = b
  <2> DEFINE T == {a, b}
  <2>1. s \in Seq(T) /\ b \in T
    BY <1>1
  <2> HIDE DEF T
  <2> DEFINE q == Append(s, b)
  <2>2. q \in Seq(T) /\ Len(q) = Len(s) + 1 /\ q[Len(s) + 1] = b
        /\ \A i \in 1..Len(s) : q[i] = s[i]
    BY <2>1, AppendProperties
  <2> HIDE DEF q
  <2>3. Len(q) = 2 /\ q[1] = a /\ q[2] = b
    BY <1>1, <2>2
  <2> QED BY <2>2, <2>3 DEF T, q
<1>3. \A t \in Seq({a, b}) : Len(t) = 2 /\ t[1] = a /\ t[2] = b => t = <<a, b>>
  OBVIOUS
<1> QED BY <1>2, <1>3 DEF s

\* A step of the innermost activation that stays on the stack.
LEMMA Stays ==
  ASSUME Alone \/ Nested, NEW m, Becomes(m), pin' = pin, Stored',
         Activation(m), m.caller = M.caller,
         Fits(m), Resumes(m)
  PROVE  Kept
<1>1. CASE Alone
  <2>1. run = <<run[1]>> /\ Depth = 1 /\ M = run[1]
    BY <1>1 DEF Alone, Depth, M
  <2>2. run' = <<m>> /\ run'[1] = m
    BY <2>1, Changed DEF Becomes
  <2>3. Alone'
    BY <2>1, <2>2 DEF Alone, Outer, Fits
  <2>4. GoesOn
    <3>1. SUFFICES ASSUME NEW k \in DOMAIN run'
          PROVE  M.ip.code = "mcp" /\ run'[k].this[1] = "thread" =>
                   <<Code(run'[k].ip.code), run'[k].acc,
                     [i \in 1..(run'[k].acc + 2) |-> R'[i]]>> \in paused
      BY DEF GoesOn
    <3>2. run'[k] = m
      BY <2>2
    <3> QED BY <3>2 DEF Resumes
  <2>5. GoesBack
    BY <2>1, <2>2 DEF GoesBack
  <2> QED BY <2>3, <2>4, <2>5 DEF Kept, MachineInv
<1>2. CASE Nested
  <2>1. run = <<run[1], run[2]>> /\ Depth = 2 /\ M = run[2]
    BY <1>2 DEF Nested, Depth, M
  <2>2. run' = <<run[1], m>> /\ run'[1] = run[1] /\ run'[2] = m
    BY <2>1, Changed DEF Becomes
  <2>3. Nested'
    BY <1>2, <2>1, <2>2 DEF Nested, Inner, Fits
  <2>4. GoesOn
    BY <1>2, <2>1, <2>2 DEF GoesOn, Nested, Inner
  <2>5. GoesBack
    BY <2>1, <2>2 DEF GoesBack
  <2> QED BY <2>3, <2>4, <2>5 DEF Kept, MachineInv
<1> QED BY <1>1, <1>2

\* The end of an activation, whatever ended it: the one below has its
\* continuation and the mcp again.
LEMMA Ends ==
  ASSUME Alone \/ Nested, NEW regs, NEW this, Finish(regs, this), paused' = paused,
         DOMAIN regs = 0..6, Mild(regs[5])
  PROVE  Kept
<1>1. CASE Alone
  <2>1. run' = <<>>
    BY <1>1 DEF Alone, Depth, Finish
  <2>2. GoesOn /\ GoesBack
    BY <2>1 DEF GoesOn, GoesBack
  <2> QED BY <2>1, <2>2 DEF Kept, MachineInv
<1>2. CASE Nested
  <2> DEFINE a == [run[1] EXCEPT !.this = this]
  <2>1. run = <<run[1], run[2]>> /\ Depth = 2 /\ M = run[2]
    BY <1>2 DEF Nested, Depth, M
  <2>2. run' = [SubSeq(run, 1, 1) EXCEPT ![1].this = this]
    BY <2>1 DEF Finish
  <2>3. SubSeq(run, 1, 1) = <<run[1]>>
    BY <2>1, Shorter
  <2>4. run' = <<a>> /\ run'[1] = a
    BY <2>2, <2>3, Changed
  <2>5. R' = [regs EXCEPT ![0] = pin[0], ![3] = pin[3]]
    BY <2>1 DEF Finish
  <2>6. R'[0] = Boss /\ R'[3] = pin[3] /\ R'[5] = regs[5] /\ DOMAIN R' = 0..6
    BY <1>2, <2>5 DEF Nested, Inner
  <2>7. Stored'
    BY <1>2, <2>6 DEF Nested, Inner, Stored, Finish, Held, Cut
  <2>8. Activation(a) /\ Works(a)
    BY <1>2 DEF Nested, Inner, Activation, Works, Fields
  <2>9. Alone'
    BY <2>4, <2>6, <2>7, <2>8 DEF Alone, Outer
  <2>10. GoesOn
    BY <1>2, <2>1 DEF GoesOn, Nested, Inner
  <2>11. GoesBack
    BY <1>2, <2>1, <2>6 DEF GoesBack, Nested, Inner
  <2> QED BY <2>9, <2>10, <2>11 DEF Kept, MachineInv
<1> QED BY <1>1, <1>2

\* What the invariant says of the activation that runs.
LEMMA Running ==
  ASSUME Alone \/ Nested
  PROVE  /\ Stored
         /\ Activation(M)
         /\ \/ Depth = 1 /\ Outer(M)
            \/ Depth = 2 /\ R[0] = False /\ Works(M) /\ M.ip.code # "mcp"
  BY DEF Alone, Nested, Outer, Inner, Depth, M

\* An error is told to the mcp, or ends the activation when there is none.
LEMMA Fails ==
  ASSUME Alone \/ Nested, NEW regs, NEW op, Fail(regs, op), paused' = paused,
         DOMAIN regs = 0..6, regs[0] = R[0], Mild(regs[5])
  PROVE  Kept
<1> DEFINE told == [regs EXCEPT ![0] = False, ![3] = Num(3), ![4] = Num(op)]
           m == [M EXCEPT !.pc = "apply", !.this = regs[0], !.acc = 4]
<1>1. told[0] = False /\ told[3] = Num(3) /\ told[5] = regs[5] /\ DOMAIN told = 0..6
  OBVIOUS
<1>2. CASE IsReference(regs[0])
  <2>1. R' = told /\ Becomes(m) /\ pin' = pin /\ ready' = ready
    BY <1>2 DEF Fail
  <2>2. Depth = 1 /\ regs[0] = Boss
    BY <1>2, Running DEF IsReference, False, Outer
  <2>3. Activation(m) /\ m.caller = M.caller /\ m.pc = "apply" /\ m.this = Boss
    BY <2>2, Running DEF Activation, Fields
  <2>4. Stored'
    BY <1>1, <2>1, Running DEF Stored, Held, Cut, Mild, Num
  <2>5. Handing'
    BY <1>1, <2>1 DEF Handing, Num
  <2>6. Bossy(m) /\ Resumes(m)
    BY <2>3 DEF Bossy, Boss, Clos, Resumes
  <2>7. Fits(m)
    BY <1>1, <2>1, <2>2, <2>5, <2>6 DEF Fits
  <2> HIDE DEF m
  <2> QED BY <2>1, <2>3, <2>4, <2>6, <2>7, Stays
<1>3. CASE ~ IsReference(regs[0])
  <2>1. Finish(told, regs[0])
    BY <1>3 DEF Fail
  <2> HIDE DEF told
  <2> QED BY <1>1, <2>1, Ends
<1> QED BY <1>2, <1>3

\* Whoever acts is on the stack.
LEMMA Alive ==
  ASSUME MachineInv, Depth > 0
  PROVE  Alone \/ Nested
  BY DEF MachineInv, Depth

\* Registers that change to something mild leave the rest as it is.
LEMMA StillStored ==
  ASSUME Stored, pin' = pin, ready' = ready, paused' = paused,
         DOMAIN R' = 0..6, Mild(R'[3]), Mild(R'[5])
  PROVE  Stored'
  BY DEF Stored, Held, Cut

\* A thread applies something.
LEMMA Applies ==
  ASSUME Alone \/ Nested, NEW m, Becomes(m), pin' = pin, Stored', Runs, R'[0] = R[0],
         Activation(m), m.caller = M.caller, m.ip = M.ip, m.pc = "apply", Mild(m.this)
  PROVE  Kept
<1>1. Works(m) /\ Resumes(m)
  BY DEF Works, Resumes, Mild
<1>2. Fits(m)
  BY <1>1 DEF Fits, Runs
<1> QED BY <1>1, <1>2, Stays

\* A thread, or the machine on its behalf, calls the mcp.
LEMMA HandsOver ==
  ASSUME Alone \/ Nested, NEW m, Becomes(m), pin' = pin, Stored', Depth = 1, R'[0] = False,
         Handing', Activation(m), m.caller = M.caller, m.pc = "apply", m.this = Boss
  PROVE  Kept
<1>1. Bossy(m) /\ Resumes(m)
  BY DEF Bossy, Boss, Clos, Resumes
<1>2. Fits(m)
  BY <1>1 DEF Fits
<1> QED BY <1>1, <1>2, Stays

\* Who applies anything but the mcp and the final continuation, or is in a
\* block other than the mcp's, is a thread or a callback.
LEMMA OfThread ==
  ASSUME Alone \/ Nested, IF M.pc = "apply" THEN M.this \notin {Boss, IHalt} ELSE M.ip.code # "mcp"
  PROVE  Stored /\ Activation(M) /\ Runs /\ Works(M)
<1>1. ~ Bossy(M)
  BY DEF Bossy
<1>2. Stored /\ Activation(M)
  BY Running
<1>3. CASE Depth = 1 /\ Outer(M)
  BY <1>1, <1>2, <1>3 DEF Runs, Outer
<1>4. CASE Depth = 2 /\ R[0] = False /\ Works(M) /\ M.ip.code # "mcp"
  BY <1>2, <1>4 DEF Runs
<1> QED BY <1>3, <1>4, Running

\* One lemma for each action.
LEMMA ApplyEmptyKeeps ==
  ASSUME MachineInv, ApplyEmpty
  PROVE  Kept
<1> DEFINE m == [M EXCEPT !.this = R[3], !.acc = 1]
<1>1. Alone \/ Nested
  BY Alive DEF ApplyEmpty, At
<1>2. M.pc = "apply" /\ M.this = EmptyFf /\ Becomes(m) /\ pin' = pin /\ ready' = ready
      /\ paused' = paused /\ R' = [R EXCEPT ![3] = IF M.acc > 2 THEN R[5] ELSE False]
  BY DEF ApplyEmpty, At
<1> M.this \notin {Boss, IHalt}
  BY <1>2 DEF EmptyFf, Boss, Clos, IHalt
<1>3. Stored /\ Activation(M) /\ Runs
  BY <1>1, <1>2, OfThread
<1>4. Activation(m) /\ m.caller = M.caller /\ m.ip = M.ip /\ m.pc = "apply" /\ m.this = R[3]
  BY <1>2, <1>3 DEF Activation, Fields
<1>5. DOMAIN R' = 0..6 /\ Mild(R'[3]) /\ Mild(R'[5]) /\ R'[0] = R[0]
  BY <1>2, <1>3 DEF Stored, Mild, False
<1>6. Stored'
  BY <1>2, <1>3, <1>5, StillStored
<1>7. Mild(m.this)
  BY <1>3, <1>4 DEF Stored
<1> HIDE DEF m
<1> QED BY <1>1, <1>2, <1>3, <1>4, <1>5, <1>6, <1>7, Applies

LEMMA ApplyHaltKeeps ==
  ASSUME MachineInv, ApplyHalt
  PROVE  Kept
<1> DEFINE m == [M EXCEPT !.this = R[0], !.acc = 4, !.breaked = FALSE,
                          !.ticker = Ticks, !.bank = 0]
<1>1. Alone \/ Nested
  BY Alive DEF ApplyHalt, At
<1>2. Stored /\ Activation(M) /\ paused' = paused /\ M.pc = "apply"
  BY <1>1, Running DEF ApplyHalt, At
<1>3. CASE IsReference(R[0])
  <2>1. Becomes(m) /\ pin' = pin /\ ready' = ready
        /\ R' = [R EXCEPT ![0] = False, ![3] = Num(2), ![4] = R[3], ![5] = False, ![6] = False]
    BY <1>3 DEF ApplyHalt
  <2>2. Depth = 1 /\ R[0] = Boss
    BY <1>1, <1>3, Running DEF IsReference, False, Outer
  <2>3. Activation(m) /\ m.caller = M.caller /\ m.pc = "apply" /\ m.this = Boss
    BY <1>2, <2>2 DEF Activation, Fields
  <2>4. DOMAIN R' = 0..6 /\ R'[0] = False /\ R'[3] = Num(2) /\ R'[5] = False
    BY <1>2, <2>1 DEF Stored
  <2>5. Stored'
    BY <1>2, <2>1, <2>4, StillStored DEF Mild, Num, False
  <2>6. Handing'
    BY <2>4 DEF Handing, Num
  <2> HIDE DEF m
  <2> QED BY <1>1, <2>1, <2>2, <2>3, <2>4, <2>5, <2>6, HandsOver
<1>4. CASE ~ IsReference(R[0])
  <2>1. Finish(R, R[0])
    BY <1>4 DEF ApplyHalt
  <2>2. DOMAIN R = 0..6 /\ Mild(R[5])
    BY <1>2 DEF Stored
  <2> QED BY <1>1, <1>2, <2>1, <2>2, Ends
<1> QED BY <1>3, <1>4

LEMMA ApplyReturnKeeps ==
  ASSUME MachineInv, ApplyReturn
  PROVE  Kept
<1>1. Alone \/ Nested
  BY Alive DEF ApplyReturn, At
<1>2. Finish(R, IReturn) /\ paused' = paused
  BY DEF ApplyReturn
<1>3. DOMAIN R = 0..6 /\ Mild(R[5])
  BY <1>1, Running DEF Stored
<1> QED BY <1>1, <1>2, <1>3, Ends

\* An error with the registers as they are.
LEMMA FailKeeps ==
  ASSUME MachineInv, Depth > 0, NEW op, Fail(R, op), paused' = paused
  PROVE  Kept
<1>1. Alone \/ Nested
  BY Alive
<1>2. DOMAIN R = 0..6 /\ Mild(R[5])
  BY <1>1, Running DEF Stored
<1> QED BY <1>1, <1>2, Fails

LEMMA ApplyFfKeeps ==
  ASSUME MachineInv, ApplyFf
  PROVE  Kept
<1>1. Depth > 0 /\ paused' = paused
  BY DEF ApplyFf, At
<1>2. CASE Fail(R, 259) \/ Fail(R, 260)
  BY <1>1, <1>2, FailKeeps
<1>3. CASE ~ (Fail(R, 259) \/ Fail(R, 260))
  <2> DEFINE m == [M EXCEPT !.this = R[3], !.acc = 1]
  <2>1. Alone \/ Nested
    BY <1>1, Alive
  <2>2. M.pc = "apply" /\ M.this[1] = "ff" /\ Becomes(m) /\ pin' = pin /\ ready' = ready
        /\ R' = [R EXCEPT ![3] = IF M.this[2] THEN Num(0) ELSE R[5]]
    BY <1>3 DEF ApplyFf, At
  <2> M.this \notin {Boss, IHalt}
    BY <2>2 DEF Boss, Clos, IHalt
  <2>3. Stored /\ Activation(M) /\ Runs
    BY <2>1, <2>2, OfThread
  <2>4. Activation(m) /\ m.caller = M.caller /\ m.ip = M.ip /\ m.pc = "apply" /\ m.this = R[3]
    BY <2>2, <2>3 DEF Activation, Fields
  <2>5. DOMAIN R' = 0..6 /\ Mild(R'[3]) /\ Mild(R'[5]) /\ R'[0] = R[0]
    BY <2>2, <2>3 DEF Stored, Mild, Num
  <2>6. Stored'
    BY <1>1, <2>2, <2>3, <2>5, StillStored
  <2>7. Mild(m.this)
    BY <2>3, <2>4 DEF Stored
  <2> HIDE DEF m
  <2> QED BY <2>1, <2>2, <2>3, <2>4, <2>5, <2>6, <2>7, Applies
<1> QED BY <1>2, <1>3

LEMMA ApplyOtherKeeps ==
  ASSUME MachineInv, ApplyOther
  PROVE  Kept
<1>1. Depth > 0 /\ paused' = paused
  BY DEF ApplyOther, At
<1>2. \E op : Fail(R, op)
  BY DEF ApplyOther
<1> QED BY <1>1, <1>2, FailKeeps

LEMMA CrashKeeps ==
  ASSUME MachineInv, Crash
  PROVE  Kept
  BY FailKeeps DEF Crash, At

LEMMA ExitKeeps ==
  ASSUME MachineInv, Exit
  PROVE  Kept
<1> DEFINE regs == [R EXCEPT ![3] = Num(0)]
<1>1. Alone \/ Nested
  BY Alive DEF Exit, At
<1>2. Finish(regs, R[3]) /\ paused' = paused
  BY DEF Exit
<1>3. DOMAIN regs = 0..6 /\ Mild(regs[5])
  BY <1>1, Running DEF Stored
<1> HIDE DEF regs
<1> QED BY <1>1, <1>2, <1>3, Ends

\* The block of a thread.
LEMMA UserBlock ==
  ASSUME MachineInv, InBlock("user")
  PROVE  /\ Alone \/ Nested
         /\ Stored /\ Activation(M) /\ Runs /\ M.pc = "loop" /\ M.ip.code # "mcp"
<1>1. M.pc = "loop" /\ M.ip.code # "mcp" /\ Depth > 0
  BY DEF InBlock, At
<1>2. Alone \/ Nested
  BY <1>1, Alive
<1> QED BY <1>1, <1>2, OfThread

LEMMA GotoKeeps ==
  ASSUME MachineInv, NEW c \in Calls, NEW k \in Chain, Goto(c[1], c[2], k)
  PROVE  Kept
<1> DEFINE m == [M EXCEPT !.pc = "apply", !.this = c[1], !.acc = c[2]]
<1>1. Becomes(m) /\ pin' = pin /\ ready' = ready /\ paused' = paused /\ InBlock("user")
      /\ R' = [R EXCEPT ![3] = k, ![4] = Num(0), ![5] = Num(0), ![6] = False]
  BY DEF Goto
<1>2. Alone \/ Nested
  BY <1>1, UserBlock
<1>3. Stored /\ Activation(M) /\ Runs
  BY <1>1, UserBlock
<1>4. Mild(k) /\ Mild(c[1]) /\ c[2] \in 1..4
  <2>1. Mild(k)
    BY DEF Chain, Mild, IHalt, IReturn, Proc
  <2>2. PICK f \in {Clos("user"), Ff(TRUE), Ff(FALSE), EmptyFf}, n \in {1, 2, 3} : c = <<f, n>>
    BY Zenon DEF Calls
  <2>3. c[1] = f /\ c[2] = n
    BY <2>2
  <2>4. Mild(Clos("user")) /\ Mild(EmptyFf) /\ \A b : Mild(Ff(b))
    BY DEF Mild, Clos, Ff, EmptyFf
  <2>5. Mild(f)
    BY Zenon, <2>4
  <2> QED BY <2>1, <2>3, <2>5
<1>5. Activation(m) /\ m.caller = M.caller /\ m.ip = M.ip /\ m.pc = "apply" /\ m.this = c[1]
  BY <1>3, <1>4 DEF Activation, Fields
<1>6. DOMAIN R' = 0..6 /\ R'[3] = k /\ R'[5] = Num(0) /\ R'[0] = R[0]
  BY <1>1, <1>3 DEF Stored
<1>7. Stored'
  BY <1>1, <1>3, <1>4, <1>6, StillStored DEF Mild, Num
<1> HIDE DEF m
<1> QED BY <1>1, <1>2, <1>3, <1>4, <1>5, <1>6, <1>7, Applies

LEMMA RetKeeps ==
  ASSUME MachineInv, Ret
  PROVE  Kept
<1> DEFINE m == [M EXCEPT !.pc = "apply", !.this = R[3], !.acc = 1]
<1>1. Becomes(m) /\ pin' = pin /\ ready' = ready /\ paused' = paused /\ InBlock("user")
      /\ R' = [R EXCEPT ![3] = Num(0), ![4] = False, ![5] = False, ![6] = False]
  BY DEF Ret
<1>2. Alone \/ Nested
  BY <1>1, UserBlock
<1>3. Stored /\ Activation(M) /\ Runs
  BY <1>1, UserBlock
<1>4. Activation(m) /\ m.caller = M.caller /\ m.ip = M.ip /\ m.pc = "apply" /\ m.this = R[3]
  BY <1>3 DEF Activation, Fields
<1>5. DOMAIN R' = 0..6 /\ R'[3] = Num(0) /\ R'[5] = False /\ R'[0] = R[0]
  BY <1>1, <1>3 DEF Stored
<1>6. Stored'
  BY <1>1, <1>3, <1>5, StillStored DEF Mild, Num, False
<1>7. Mild(m.this)
  BY <1>3, <1>4 DEF Stored
<1> HIDE DEF m
<1> QED BY <1>1, <1>2, <1>3, <1>4, <1>5, <1>6, <1>7, Applies

LEMMA SysKeeps ==
  ASSUME MachineInv, Sys
  PROVE  Kept
<1> DEFINE m == [M EXCEPT !.pc = "apply", !.this = R[0], !.acc = 4, !.ticker = Ticks,
                          !.bank = IF M.ticker > Deposit THEN M.ticker ELSE @]
<1>1. Becomes(m) /\ pin' = pin /\ ready' = ready /\ paused' = paused /\ InBlock("user")
      /\ R' = [R EXCEPT ![0] = False, ![3] = Num(5), ![4] = R[3], ![5] = False, ![6] = False]
  BY DEF Sys
<1>2. Alone \/ Nested
  BY <1>1, UserBlock
<1>3. Stored /\ Activation(M) /\ Runs
  BY <1>1, UserBlock
<1>4. Activation(m) /\ m.caller = M.caller /\ m.ip = M.ip /\ m.pc = "apply" /\ m.this = R[0]
  BY <1>3 DEF Activation, Fields
<1>5. DOMAIN R' = 0..6 /\ R'[0] = False /\ R'[3] = Num(5) /\ R'[4] = R[3] /\ R'[5] = False
  BY <1>1, <1>3 DEF Stored
<1>6. Stored'
  BY <1>1, <1>3, <1>5, StillStored DEF Mild, Num, False
<1>7. Handing'
  BY <1>3, <1>5 DEF Handing, Held, Stored
<1> HIDE DEF m
<1>8. CASE Depth = 1 /\ R[0] = Boss
  BY <1>1, <1>2, <1>4, <1>5, <1>6, <1>7, <1>8, HandsOver
<1>9. CASE Depth = 2 /\ R[0] = False
  <2>1. Mild(m.this) /\ R'[0] = R[0]
    BY <1>4, <1>5, <1>9 DEF Mild, False
  <2> QED BY <1>1, <1>2, <1>3, <1>4, <1>6, <2>1, Applies
<1> QED BY <1>3, <1>8, <1>9 DEF Runs

\* The block of the mcp, which has R0 = #false and something held in R4.
LEMMA BossBlock ==
  ASSUME MachineInv, At("loop"), M.ip.code = "mcp"
  PROVE  /\ Alone \/ Nested
         /\ Stored /\ Activation(M) /\ Depth = 1 /\ R[0] = False /\ Handing
         /\ M.pc = "loop" /\ M.this[1] # "thread"
<1>1. Alone \/ Nested
  BY Alive DEF At
<1>2. ~ Works(M) /\ M.pc = "loop"
  BY DEF Works, At
<1> QED BY <1>1, <1>2, Running DEF Outer, Bossy

LEMMA BossEndsKeeps ==
  ASSUME MachineInv, BossEnds
  PROVE  Kept
<1> DEFINE m == [M EXCEPT !.pc = "apply", !.this = IHalt, !.acc = 1]
<1>1. At("loop") /\ M.ip.code = "mcp" /\ Becomes(m) /\ R' = R /\ pin' = pin /\ ready' = ready
      /\ paused' = paused
  BY DEF BossEnds, InBlock
<1>2. Alone \/ Nested
  BY <1>1, BossBlock
<1>3. Stored /\ Activation(M) /\ Depth = 1 /\ R[0] = False /\ Handing
  BY <1>1, BossBlock
<1>4. Activation(m) /\ m.caller = M.caller /\ m.pc = "apply" /\ m.this = IHalt
  BY <1>3 DEF Activation, Fields
<1>5. Stored' /\ Handing'
  BY <1>1, <1>3 DEF Stored, Handing, Held, Cut
<1>6. Bossy(m) /\ Resumes(m)
  BY <1>4 DEF Bossy, IHalt, Resumes
<1>7. Fits(m)
  BY <1>1, <1>3, <1>5, <1>6 DEF Fits
<1> HIDE DEF m
<1> QED BY <1>1, <1>2, <1>4, <1>5, <1>6, <1>7, Stays

LEMMA CollectKeeps ==
  ASSUME MachineInv, CollectInBlock
  PROVE  Kept
<1> DEFINE m == [M EXCEPT !.ip = IpAfter(M)]
<1>1. At("loop") /\ Becomes(m) /\ R' = R /\ pin' = pin /\ ready' = ready /\ paused' = paused
  BY DEF CollectInBlock
<1>2. Alone \/ Nested
  BY <1>1, Alive DEF At
<1>3. Stored /\ Activation(M) /\ M.pc = "loop"
  BY <1>1, <1>2, Running DEF At
<1>4. DOMAIN IpAfter(M) = {"code", "at"} /\ IpAfter(M).code = M.ip.code
  BY <1>3 DEF IpAfter, Activation
<1>5. Activation(m) /\ m.caller = M.caller /\ m.pc = "loop" /\ m.this = M.this
      /\ m.ip.code = M.ip.code
  BY <1>3, <1>4 DEF Activation, Fields
<1>6. Stored' /\ (Handing => Handing')
  BY <1>1, <1>3 DEF Stored, Handing, Held, Cut
<1> HIDE DEF m
<1>7. Fits(m)
  BY <1>1, <1>2, <1>3, <1>5, <1>6, Running DEF Fits, Outer, Works, Bossy
<1>8. Resumes(m)
  BY <1>1, <1>5, BossBlock DEF Resumes
<1> QED BY <1>1, <1>2, <1>5, <1>6, <1>7, <1>8, Stays

\* A thread state has the registers up to the last argument, and no other.
LEMMA SaveLooksNoFurther ==
  ASSUME NEW regs, NEW n \in Nat, NEW code
  PROVE  Save(regs, n, code) = Save([i \in 1..(n + 2) |-> regs[i]], n, code)
  BY DEF Save

\* Either the thread is cut, and its state is in the mcp's hands, or the block
\* of code starts.
LEMMA ApplyCodeKeeps ==
  ASSUME MachineInv, ApplyCode
  PROVE  Kept
<1> DEFINE code == Code(M.this[2])
           env  == [R EXCEPT ![1] = IF M.this = code THEN R[1] ELSE M.this,
                             ![2] = IF M.this[1] = "clos" THEN Proc(M.this[2]) ELSE R[2]]
           over == M.ticker = 0
           left == IF over THEN Ticks ELSE M.ticker - 1
           regs == [i \in 1..(M.acc + 2) |-> env[i]]
           cut  == <<code, M.acc, regs>>
<1>1. Alone \/ Nested
  BY Alive DEF ApplyCode, At
<1>2. Stored /\ Activation(M) /\ M.pc = "apply" /\ M.this[1] \in {"code", "proc", "clos"}
      /\ pin' = pin /\ ready' = ready
  BY <1>1, Running DEF ApplyCode, At
<1>3. DOMAIN env = 0..6 /\ env[0] = R[0] /\ env[3] = R[3] /\ env[5] = R[5]
  BY <1>2 DEF Stored
<1>4. CASE over /\ R[0] # False
  <2> DEFINE m == [M EXCEPT !.this = R[0], !.acc = 4, !.ticker = Ticks,
                            !.bank = 0, !.breaked = FALSE]
  <2>1. /\ R' = [env EXCEPT ![0] = False,
                   ![3] = IF M.breaked THEN Num(14) ELSE Num(1),
                   ![4] = Thread(Save(env, M.acc, code)),
                   ![5] = Num(IF M.breaked THEN 8 ELSE 0), ![6] = False]
        /\ Becomes(m) /\ paused' = paused \cup {cut}
    BY <1>4 DEF ApplyCode
  <2>2. Depth = 1 /\ R[0] = Boss /\ Works(M)
    BY <1>1, <1>4, Running DEF Outer
  <2>3. Activation(m) /\ m.caller = M.caller /\ m.pc = "apply" /\ m.this = Boss
    BY <1>2, <2>2 DEF Activation, Fields
  <2> HIDE DEF env, over, m
  <2>4. DOMAIN R' = 0..6 /\ R'[0] = False /\ R'[3] \in {Num(14), Num(1)}
        /\ R'[4] = Thread(Save(env, M.acc, code)) /\ R'[5][1] = "num"
    BY <1>3, <2>1 DEF Num
  <2>5. M.this[2] # "mcp" /\ M.acc \in 1..4
    BY <1>2, <2>2 DEF Works, Mild, Activation
  <2>6. Left(cut)
    <3>1. cut[1] = code /\ cut[2] = M.acc /\ cut[3] = regs /\ code[2] = M.this[2]
      BY DEF Code
    <3>2. regs[3] = R[3] /\ (M.acc >= 3 => regs[5] = R[5])
      BY <1>3, <2>5
    <3>3. regs = [i \in 1..(M.acc + 2) |-> regs[i]]
      OBVIOUS
    <3> HIDE DEF regs
    <3> QED BY <1>2, <2>5, <3>1, <3>2, <3>3 DEF Left, Stored, Code
  <2>7. Cut(R[4])'
    <3>1. Save(env, M.acc, code) = Save(regs, M.acc, code)
      BY <2>5, SaveLooksNoFurther
    <3>2. cut[1] = code /\ cut[2] = M.acc /\ cut[3] = regs /\ cut \in paused'
      BY <2>1
    <3> HIDE DEF cut, regs
    <3> QED BY <2>4, <3>1, <3>2 DEF Cut
  <2> HIDE DEF cut
  <2>8. Stored'
    <3>1. \A w : Held(w) => Held(w)'
      BY <2>1 DEF Held, Cut
    <3>2. Mild(R'[3]) /\ Mild(R'[5])
      BY <2>4 DEF Mild, Num
    <3> QED BY <1>2, <2>1, <2>4, <2>6, <3>1, <3>2 DEF Stored
  <2>9. Handing'
    BY <2>7 DEF Handing, Held
  <2> QED BY <1>1, <1>2, <2>1, <2>2, <2>3, <2>4, <2>8, <2>9, HandsOver
<1>5. CASE ~ (over /\ R[0] # False)
  <2>1. R' = env /\ paused' = paused
    BY <1>5 DEF ApplyCode
  <2>2. PICK full \in BOOLEAN :
          Becomes([M EXCEPT !.pc = "loop", !.this = code,
                     !.ticker = left, !.breaked = @ \/ full,
                     !.ip = [code |-> code[2], at |-> where'[code[2]]]])
    BY <1>5 DEF ApplyCode
  <2> DEFINE m == [M EXCEPT !.pc = "loop", !.this = code,
                     !.ticker = left, !.breaked = @ \/ full,
                     !.ip = [code |-> code[2], at |-> where'[code[2]]]]
  <2>3. Activation(m) /\ m.caller = M.caller /\ m.pc = "loop" /\ m.this[1] = "code"
        /\ m.ip.code = M.this[2]
    BY <1>2 DEF Activation, Fields, Code
  <2>4. Becomes(m)
    BY <2>2
  <2> HIDE DEF m, env
  <2>5. Stored' /\ R'[0] = R[0] /\ (Handing => Handing')
    <3>1. R'[4] = R[4]
      BY <2>1, <1>2 DEF env, Stored
    <3>2. Stored'
      BY <1>2, <1>3, <2>1, StillStored DEF Stored
    <3> QED BY <1>3, <2>1, <3>1, <3>2 DEF Handing, Held, Cut
  <2>6. Resumes(m)
    BY <2>3 DEF Resumes
  <2>7. Fits(m)
    <3>1. CASE Depth = 1 /\ R[0] = Boss /\ Works(M)
      BY <1>2, <2>3, <2>5, <3>1 DEF Fits, Works, Mild
    <3>2. CASE Depth = 1 /\ R[0] = False /\ Bossy(M) /\ Handing
      <4>1. M.this = Boss
        BY <1>2, <3>2 DEF Bossy, IHalt
      <4>2. Bossy(m)
        BY <2>3, <4>1 DEF Bossy, Boss, Clos
      <4> QED BY <2>5, <3>2, <4>2 DEF Fits
    <3>3. CASE Depth = 2 /\ R[0] = False /\ Works(M)
      BY <1>2, <2>3, <2>5, <3>3 DEF Fits, Works, Mild
    <3> QED BY <1>1, <3>1, <3>2, <3>3, Running DEF Outer
  <2> QED BY <1>1, <1>2, <2>3, <2>4, <2>5, <2>6, <2>7, Stays
<1> QED BY <1>4, <1>5

\* The callback pins the mcp; there is one only when none runs.
LEMMA CallBackKeeps ==
  ASSUME MachineInv, MaxDepth \in 1..2, CallBack(1)
  PROVE  Kept
<1> DEFINE b == [pc |-> "apply", this |-> Clos("back"), acc |-> 1, ticker |-> Ticks,
                 bank |-> 0, breaked |-> FALSE, ip |-> [code |-> "back", at |-> 0],
                 caller |-> <<R[0], R[3]>>]
<1>1. InBlock("user") /\ Depth < MaxDepth /\ run' = Append(run, b)
      /\ pin' = [i \in {0, 3} |-> R[i]] /\ ready' = ready /\ paused' = paused
      /\ R' = [R EXCEPT ![0] = False, ![3] = IReturn, ![4] = Num(4)]
  BY DEF CallBack
<1>2. (Alone \/ Nested) /\ Stored /\ Activation(M) /\ Runs /\ M.pc = "loop" /\ M.ip.code # "mcp"
  BY <1>1, UserBlock
<1>3. Depth = 1 /\ R[0] = Boss /\ Alone
  BY <1>1, <1>2 DEF Runs, Nested, Depth
<1>4. run = <<run[1]>> /\ M = run[1]
  BY <1>3 DEF Alone, M
<1> HIDE DEF b
<1>5. run' = <<run[1], b>> /\ run'[1] = run[1] /\ run'[2] = b
  <2>1. run' = <<run[1], b>>
    BY <1>1, <1>4, Longer
  <2> QED BY <2>1
<1>6. DOMAIN R' = 0..6 /\ R'[0] = False /\ R'[3] = IReturn /\ R'[5] = R[5]
  BY <1>1, <1>2 DEF Stored
<1>7. DOMAIN pin' = {0, 3} /\ pin'[0] = Boss /\ pin'[3] = R[3]
  BY <1>1, <1>3
<1>8. Stored'
  BY <1>1, <1>2, <1>6, <1>7 DEF Stored, Mild, IReturn, Held, Cut
<1>9. Activation(b) /\ Works(b) /\ b.ip.code # "mcp" /\ b.caller = <<R[0], R[3]>>
  BY DEF b, Activation, Fields, Works, Mild, Clos
<1>10. Nested'
  BY <1>2, <1>3, <1>4, <1>5, <1>6, <1>7, <1>8, <1>9 DEF Nested, Inner, Stored
<1>11. GoesOn
  BY <1>2 DEF GoesOn
<1>12. GoesBack
  BY <1>3, <1>5 DEF GoesBack
<1> QED BY <1>10, <1>11, <1>12 DEF Kept, MachineInv

\* What RUN takes from a thread state is what was noted when it was cut.
LEMMA SavedState ==
  ASSUME NEW m, Left(m), NEW s, s = Save(m[3], m[2], m[1])
  PROVE  /\ Len(s) = m[2] + 3 /\ Arity(s) = m[2] /\ s[Len(s)] = m[1]
         /\ \A i \in 1..(m[2] + 2) : s[i] = m[3][i]
         /\ SubSeq(s, 1, Len(s) - 1) = m[3]
<1> DEFINE n == m[2]
           S == {s[i] : i \in 1..(n + 3)}
<1>1. n \in 1..4 /\ m[3] = [i \in 1..(n + 2) |-> m[3][i]]
  BY DEF Left
<1>2. s = [i \in 1..(n + 3) |-> IF i = n + 3 THEN m[1] ELSE m[3][i]]
  BY DEF Save
<1> HIDE DEF n
<1>3. s = [i \in 1..(n + 3) |-> s[i]]
  BY <1>2
<1>4. s \in Seq(S) /\ Len(s) = n + 3
  <2>1. s \in [1..(n + 3) -> S] /\ n + 3 \in Nat
    BY <1>1, <1>3
  <2> HIDE DEF S
  <2> QED BY <2>1
<1>5. s[n + 3] = m[1] /\ \A i \in 1..(n + 2) : s[i] = m[3][i]
  <2>1. n \in 1..4
    BY <1>1
  <2>2. s[n + 3] = m[1]
    BY <2>1, <1>2
  <2>3. ASSUME NEW i \in 1..(n + 2) PROVE s[i] = m[3][i]
    BY <2>1, <1>2
  <2> QED BY <2>2, <2>3
<1>6. SubSeq(s, 1, n + 2) = [i \in 1..(n + 2) |-> s[i]]
  <2> HIDE DEF S
  <2> QED BY <1>1, <1>4
<1>7. [i \in 1..(n + 2) |-> s[i]] = m[3]
  BY <1>1, <1>5
<1>8. Len(s) - 1 = n + 2 /\ Len(s) - 3 = n
  BY <1>1, <1>4
<1> QED BY <1>4, <1>5, <1>6, <1>7, <1>8 DEF Arity, n

\* The mcp lets go of one of those it holds. A thread state is that of a thread
\* that was cut, and of one only, since thread states that are equal are one.
LEMMA RunNextKeeps ==
  ASSUME MachineInv, NEW t, NEW q, RunNext(t, q)
  PROVE  Kept
<1> DEFINE handed == {w \in {R[4]} : IsReference(w) /\ R[3] \in {Num(1), Num(5), Num(14)}}
           boss   == [M EXCEPT !.this = t, !.bank = 0,
                               !.ticker = IF M.bank # 0 THEN M.bank ELSE q]
<1>1. InBlock("mcp") /\ t \in ready \cup handed /\ ready' = (ready \cup handed) \ {t}
      /\ pin' = pin
  BY DEF RunNext
<1>2. At("loop") /\ M.ip.code = "mcp"
  BY <1>1 DEF InBlock
<1>3. (Alone \/ Nested) /\ Stored /\ Activation(M) /\ Depth = 1 /\ Handing /\ M.pc = "loop"
  BY <1>2, BossBlock
<1>4. \A w \in ready \cup handed : Held(w)
  BY <1>3 DEF Stored, Handing
<1>5. CASE t[1] = "thread"
  <2> DEFINE s == t[2]
             code == s[Len(s)][2]
             m == [boss EXCEPT !.acc = Arity(s), !.ip = [code |-> code, at |-> where[code]]]
  <2>1. /\ R' = [i \in DOMAIN R |-> IF i = 0 THEN Boss ELSE IF i < Len(s) THEN s[i] ELSE R[i]]
        /\ Becomes(m)
        /\ paused' = paused \ {<<Code(code), Arity(s), SubSeq(s, 1, Len(s) - 1)>>}
    BY <1>5 DEF RunNext
  <2>2. PICK c \in paused : t = Thread(Save(c[3], c[2], c[1]))
    BY <1>1, <1>4, <1>5 DEF Held, Mild, Cut
  <2>3. Left(c) /\ s = Save(c[3], c[2], c[1])
    BY <1>3, <2>2 DEF Stored, Thread
  <2> HIDE DEF s
  <2>4. /\ Len(s) = c[2] + 3 /\ Arity(s) = c[2] /\ s[Len(s)] = c[1]
        /\ \A i \in 1..(c[2] + 2) : s[i] = c[3][i]
        /\ SubSeq(s, 1, Len(s) - 1) = c[3]
    BY <2>3, SavedState
  <2>5. /\ c = <<Code(code), c[2], c[3]>> /\ code # "mcp" /\ c[2] \in 1..4
        /\ Mild(c[3][3]) /\ (c[2] >= 3 => Mild(c[3][5]))
    BY <2>3, <2>4 DEF Left
  <2>6. paused' = paused \ {c}
    BY <2>1, <2>4, <2>5
  <2>7. Activation(m) /\ m.caller = M.caller /\ m.pc = "loop" /\ m.acc = c[2]
        /\ m.ip.code = code
    BY <1>3, <2>4, <2>5 DEF Activation, Fields
  <2> HIDE DEF m, code
  <2>8. DOMAIN R' = 0..6 /\ R'[0] = Boss /\ R'[3] = c[3][3] /\ Mild(R'[5])
        /\ \A i \in 1..(c[2] + 2) : R'[i] = c[3][i]
    BY <1>3, <2>1, <2>4, <2>5 DEF Stored
  <2>9. \A w \in ready' : Held(w)'
    <3> SUFFICES ASSUME NEW w \in ready' PROVE Held(w)'
      OBVIOUS
    <3>1. w # t /\ Held(w)
      BY <1>1, <1>4
    <3>2. ASSUME Cut(w) PROVE Cut(w)'
      BY <2>2, <2>6, <3>1, <3>2 DEF Cut
    <3> QED BY <3>1, <3>2 DEF Held
  <2>10. Stored'
    BY <1>1, <1>3, <2>5, <2>6, <2>8, <2>9 DEF Stored
  <2>11. <<Code(m.ip.code), m.acc, [i \in 1..(m.acc + 2) |-> R'[i]]>> = c
    <3>1. c[3] = [i \in 1..(c[2] + 2) |-> c[3][i]]
      BY <2>3 DEF Left
    <3>2. [i \in 1..(c[2] + 2) |-> R'[i]] = c[3]
      BY <2>8, <3>1
    <3> QED BY <2>5, <2>7, <3>2
  <2>12. Resumes(m)
    BY <2>2, <2>11 DEF Resumes
  <2>13. Fits(m)
    BY <1>3, <2>5, <2>7, <2>8 DEF Fits, Works
  <2> QED BY <1>1, <1>3, <2>1, <2>7, <2>10, <2>12, <2>13, Stays
<1>6. CASE t[1] # "thread"
  <2> DEFINE m == [boss EXCEPT !.pc = "apply", !.acc = 1]
  <2>1. R' = [R EXCEPT ![0] = Boss, ![3] = IHalt] /\ Becomes(m) /\ paused' = paused
    BY <1>6 DEF RunNext
  <2>2. Mild(t)
    BY <1>1, <1>4, <1>6 DEF Held, Cut, Thread
  <2>3. Activation(m) /\ m.caller = M.caller /\ m.pc = "apply" /\ m.this = t
    BY <1>3 DEF Activation, Fields
  <2>4. DOMAIN R' = 0..6 /\ R'[0] = Boss /\ R'[3] = IHalt /\ R'[5] = R[5]
    BY <1>3, <2>1 DEF Stored
  <2>5. Stored'
    BY <1>1, <1>3, <1>4, <2>1, <2>4 DEF Stored, Held, Cut, Mild, IHalt
  <2> HIDE DEF m
  <2>6. Fits(m) /\ Resumes(m)
    BY <1>3, <1>6, <2>2, <2>3, <2>4 DEF Fits, Works, Resumes
  <2> QED BY <1>1, <1>3, <2>1, <2>3, <2>5, <2>6, Stays
<1> QED BY <1>5, <1>6

\* The first state.
LEMMA InitKeeps ==
  ASSUME MachineInit
  PROVE  MachineInv
<1> DEFINE a == [pc |-> "apply", this |-> Boss, acc |-> 2, ticker |-> Ticks, bank |-> 0,
                 breaked |-> FALSE, ip |-> [code |-> "mcp", at |-> 0], caller |-> <<>>]
<1>1. run = <<a>> /\ run[1] = a
  BY DEF MachineInit
<1>2. Activation(a) /\ Bossy(a)
  BY DEF Activation, Fields, Bossy
<1>3. Stored /\ R[0] = False /\ Handing
  BY DEF MachineInit, Stored, Handing, Held, Mild, Num, IHalt, False, Clos, Proc
<1> HIDE DEF a
<1> QED BY <1>1, <1>2, <1>3 DEF MachineInv, Alone, Outer

\* Every step.
LEMMA StepKept ==
  ASSUME MachineInv, MaxDepth \in 1..2, MachineNext
  PROVE  Kept
  BY ApplyEmptyKeeps, ApplyHaltKeeps, ApplyReturnKeeps, ApplyFfKeeps, ApplyCodeKeeps,
     ApplyOtherKeeps, GotoKeeps, RetKeeps, SysKeeps, RunNextKeeps, BossEndsKeeps,
     CollectKeeps, CallBackKeeps, ExitKeeps, CrashKeeps DEF MachineNext

\* Every step, or none.
LEMMA StepKeeps ==
  ASSUME MachineInv, MaxDepth \in 1..2, [MachineNext]_machineVars
  PROVE  MachineInv'
<1>1. CASE MachineNext
  BY <1>1, StepKept DEF Kept
<1>2. CASE UNCHANGED machineVars
  BY <1>2 DEF machineVars, MachineInv, Alone, Nested, Stored, Outer, Inner, Handing, Held, Cut
<1> QED BY <1>1, <1>2

\* The invariant says where the mcp is.
LEMMA BossIsKept ==
  ASSUME MachineInv
  PROVE  BossKept
<1>1. CASE run = <<>>
  BY <1>1 DEF BossKept, Depth
<1>2. CASE Alone
  <2>1. Depth = 1 /\ Outer(M)
    BY <1>2 DEF Alone, Depth, M
  <2>2. M.pc \in {"apply", "loop"}
    BY <2>1 DEF Outer, Activation
  <2> QED BY <2>1, <2>2 DEF BossKept, Outer, Bossy, At
<1>3. CASE Nested
  <2>1. Depth = 2 /\ pin[0] = Boss
    BY <1>3 DEF Nested, Depth, Inner
  <2> QED BY <2>1 DEF BossKept
<1> QED BY <1>1, <1>2, <1>3 DEF MachineInv

\* The inductive invariant of the machine (runtime, src/olvm.c) holds always.
THEOREM StateKept ==
  ASSUME MaxDepth \in 1..2
  PROVE  MachineSpec => []MachineInv
<1>1. MachineInit => MachineInv
  BY InitKeeps
<1>2. MachineInv /\ [MachineNext]_machineVars => MachineInv'
  BY StepKeeps
<1> QED BY <1>1, <1>2, PTL DEF MachineSpec

\* The mcp is never lost: it runs, or R0 has its continuation, or a callback has
\* pinned it. (The runtime keeps it in R0 and nowhere else.)
THEOREM BossNeverLost ==
  ASSUME MaxDepth \in 1..2
  PROVE  MachineSpec => []BossKept
<1>1. MachineInv => BossKept
  BY BossIsKept
<1> QED BY <1>1, StateKept, PTL

\* A thread that was cut when its quantum was over goes on in the block, with the
\* arity and the registers it had, whatever ran in between.
THEOREM CutThreadsGoOn ==
  ASSUME MaxDepth \in 1..2
  PROVE  MachineSpec => Resumed
<1>1. MachineInv /\ [MachineNext]_machineVars => [GoesOn]_machineVars
  BY StepKept DEF Kept
<1> QED BY <1>1, StateKept, PTL DEF MachineSpec, Resumed, GoesOn

\* A native function whose callback is done goes on with the continuation and the
\* mcp it was called with.
THEOREM NativeCallsGoOn ==
  ASSUME MaxDepth \in 1..2
  PROVE  MachineSpec => CallbackReturns
<1>1. MachineInv /\ [MachineNext]_machineVars => [GoesBack]_machineVars
  BY StepKept DEF Kept
<1> QED BY <1>1, StateKept, PTL DEF MachineSpec, CallbackReturns, GoesBack

------------------------------------------------------------------------------
(* The size of the heap.                                                   *)

\* A half, a third and a ninth, as integer division gives them.
LEMMA Parts ==
    ASSUME NEW h \in Nat
    PROVE  /\ h \div 2 \in Nat /\ 2 * (h \div 2) <= h /\ h < 2 * (h \div 2) + 2
           /\ h \div 3 \in Nat /\ 3 * (h \div 3) <= h /\ h < 3 * (h \div 3) + 3
           /\ h \div 5 \in Nat /\ 5 * (h \div 5) <= h
           /\ h \div 9 \in Nat /\ 9 * (h \div 9) <= h /\ h < 9 * (h \div 9) + 9
  BY SMT

\* After a full collection the block has room for what is used and what is
\* asked for (gc, src/olvm.c:1356-1383), whatever the size was before.
THEOREM CellsSuffice ==
    ASSUME NEW hsize \in Nat, NEW used \in Nat, NEW query \in Nat
    PROVE  /\ Cells(hsize, used, query) \in Nat
           /\ Cells(hsize, used, query) >= used + query
<1>1. used + query \in Nat
  OBVIOUS
<1>2. CASE used + query > hsize \div 2
  <2> DEFINE grown == IF used + query < hsize THEN hsize ELSE used + query
  <2>1. grown \in Nat /\ grown >= used + query
    OBVIOUS
  <2>2. Cells(hsize, used, query) = grown + grown \div 3
    BY <1>2 DEF Cells
  <2> QED
    BY <2>1, <2>2, Parts
<1>3. CASE ~ (used + query > hsize \div 2)
  <2>1. used + query <= hsize \div 2
    BY <1>1, <1>3, Parts
  <2>2. Cells(hsize, used, query) =
          IF used + query < hsize \div 3 THEN hsize - hsize \div 9 ELSE hsize
    BY <1>3 DEF Cells
  <2> QED
    BY <2>1, <2>2, Parts
<1> QED
  BY <1>2, <1>3

\* A collection of the new generation that is not followed by a full one has
\* freed a fifth of the block more than is asked for (src/olvm.c:1387-1394).
THEOREM YoungSuffices ==
    ASSUME NEW hsize \in Nat, NEW used \in Nat, NEW query \in Nat,
           ~ TooLittle(hsize, used, query)
    PROVE  (hsize - used) - query >= hsize \div 5 /\ hsize - used >= query
  BY Parts DEF TooLittle

\* A block that has just been enlarged is not made smaller by the next full
\* collection, and one that has been made smaller is not enlarged, as long as
\* as much is wanted: the limits at which it grows and shrinks do not make the
\* collector move the heap to and fro.
THEOREM SizeSettles ==
    ASSUME NEW hsize \in Nat, NEW used \in Nat, NEW query \in Nat
    PROVE  LET next == Cells(hsize, used, query) IN
           /\ next > hsize => Cells(next, used, query) >= next
           /\ next < hsize => Cells(next, used, query) <= next
<1> DEFINE wanted == used + query
           next == Cells(hsize, used, query)
<1>1. wanted \in Nat /\ next \in Nat
  BY CellsSuffice
<1>2. ASSUME next > hsize PROVE Cells(next, used, query) >= next
  <2> DEFINE grown == IF wanted < hsize THEN hsize ELSE wanted
  <2>1. wanted > hsize \div 2 /\ next = grown + grown \div 3
    BY <1>1, <1>2, Parts DEF Cells
  <2>2. grown \in Nat /\ (grown = hsize \/ grown = wanted)
    BY <1>1
  <2>3. 3 * next <= 4 * grown
    BY <2>1, <2>2, Parts
  <2>4. 2 * wanted >= hsize
    BY <1>1, <2>1, Parts
  <2>5. ~ (wanted < next \div 3)
    <3>1. 9 * (next \div 3) <= 4 * grown
      BY <1>1, <2>2, <2>3, Parts
    <3>2. grown <= 2 * wanted
      BY <1>1, <2>2, <2>4
    <3> QED
      BY <1>1, <2>2, <3>1, <3>2, Parts
  <2>6. \/ Cells(next, used, query) = next
        \/ \E g \in Nat : g >= next /\ Cells(next, used, query) = g + g \div 3
    <3>1. CASE wanted > next \div 2
      <4> DEFINE g == IF wanted < next THEN next ELSE wanted
      <4>1. g \in Nat /\ g >= next
        BY <1>1
      <4>2. Cells(next, used, query) = g + g \div 3
        BY <3>1 DEF Cells
      <4> QED
        BY <4>1, <4>2
    <3>2. CASE ~ (wanted > next \div 2)
      BY <2>5, <3>2 DEF Cells
    <3> QED
      BY <3>1, <3>2
  <2> QED
    BY <1>1, <2>6, Parts
<1>3. ASSUME next < hsize PROVE Cells(next, used, query) <= next
  <2>1. wanted < hsize \div 3 /\ next = hsize - hsize \div 9 /\ ~ (wanted > hsize \div 2)
    <3>1. CASE wanted > hsize \div 2
      <4> DEFINE grown == IF wanted < hsize THEN hsize ELSE wanted
      <4>1. grown \in Nat /\ grown >= hsize
        BY <1>1
      <4>2. next = grown + grown \div 3
        BY <3>1 DEF Cells
      <4> QED
        BY <1>3, <4>1, <4>2, Parts
    <3>2. CASE ~ (wanted > hsize \div 2)
      BY <1>3, <3>2 DEF Cells
    <3> QED
      BY <3>1, <3>2
  <2>2. ~ (wanted > next \div 2)
    BY <1>1, <2>1, Parts
  <2>3. Cells(next, used, query) =
          IF wanted < next \div 3 THEN next - next \div 9 ELSE next
    BY <2>2 DEF Cells
  <2> QED
    BY <1>1, <2>3, Parts
<1> QED
  BY <1>2, <1>3
============================================================================
