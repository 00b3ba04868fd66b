--------------------------- MODULE TalkbackProofs ---------------------------
(***************************************************************************)
(* For any number of programs: an answer is returned once, and never after *)
(* a later one.  The programs that are still in the pipe were all sent     *)
(* after the one in ok and after the last one whose answer was returned,   *)
(* and while an eval waits, ok is empty or newer than that.                *)
(***************************************************************************)
EXTENDS Talkback, SequenceTheorems, TLAPS

Hosts == {"idle", "sent", "written", "cleared", "checks", "sleeps", "woken", "uses"}

\* The places where eval has cleared ok and not returned yet.
Waits == {"cleared", "checks", "sleeps", "woken"}

TypeOK ==
    /\ pipe \in Seq(Request)
    /\ ok \in Nat /\ error \in BOOLEAN
    /\ olvm \in {"runs", "reports", "stops", "waits"}
    /\ host \in Hosts
    /\ asked \in 0..MaxRequest /\ got \in Nat /\ last \in Nat

\* Programs are read in the order they were sent.
InOrder ==
    /\ \A i, j \in 1..Len(pipe) : i < j => pipe[i].id < pipe[j].id
    /\ \A i \in 1..Len(pipe) : pipe[i].id <= asked

\* Whatever is in the pipe is newer than what has been answered.
Newer ==
    /\ \A i \in 1..Len(pipe) : ok < pipe[i].id /\ last < pipe[i].id
    /\ ok <= asked /\ last <= asked

Cleared == host \in Waits => ok = None \/ ok > last

Inv == TypeOK /\ InOrder /\ Newer /\ Cleared

\* Programs are numbered from 1.
LEMMA PipeIds ==
    ASSUME TypeOK, NEW i \in 1..Len(pipe)
    PROVE  pipe[i] \in Request /\ pipe[i].id \in Nat /\ 0 < pipe[i].id
<1>1. pipe[i] \in Request
  BY DEF TypeOK
<1> QED BY <1>1 DEF Request

LEMMA InitInv == Init => Inv
<1> SUFFICES ASSUME Init PROVE Inv
  OBVIOUS
<1>1. pipe = <<>> /\ Len(pipe) = 0 /\ pipe \in Seq(Request) /\ 1..Len(pipe) = {}
  BY DEF Init
<1>2. TypeOK
  <2>1. ok \in Nat /\ got \in Nat /\ last \in Nat /\ asked \in 0..MaxRequest
    BY TalkbackAssumption DEF Init, None
  <2>2. error \in BOOLEAN /\ olvm = "runs" /\ host = "idle"
    BY DEF Init
  <2> QED BY <1>1, <2>1, <2>2 DEF TypeOK, Hosts
<1>3. InOrder
  BY <1>1 DEF InOrder
<1>4. Newer
  BY <1>1 DEF Init, Newer, None
<1>5. Cleared
  BY DEF Init, Cleared, Waits
<1> QED BY <1>2, <1>3, <1>4, <1>5 DEF Inv

------------------------------------------------------------------------------
\* The pipe when the first n programs have been read.
LEMMA ReadPipe ==
    ASSUME TypeOK, InOrder, NEW n \in 1..Len(pipe)
    PROVE  LET p == SubSeq(pipe, n + 1, Len(pipe))
           IN  /\ p \in Seq(Request)
               /\ Len(p) = Len(pipe) - n
               /\ \A i \in 1..Len(p) : i + n \in 1..Len(pipe) /\ p[i] = pipe[i + n]
  BY DEF TypeOK

LEMMA ProcessInv == Inv /\ Process => Inv'
<1> SUFFICES ASSUME Inv, Process PROVE Inv'
  OBVIOUS
<1> DEFINE r == Head(pipe)
<1>1. /\ pipe # <<>> /\ r = pipe[1] /\ 1 \in 1..Len(pipe)
      /\ r \in Request /\ r.id \in Nat
  <2>1. pipe # <<>> /\ pipe \in Seq(Request)
    BY DEF Inv, TypeOK, Process
  <2>2. r = pipe[1] /\ 1 \in 1..Len(pipe) /\ r \in Request
    BY <2>1
  <2> QED BY <2>1, <2>2 DEF Request
<1>2. PICK n \in 1..Len(pipe) :
          /\ pipe' = SubSeq(pipe, n + 1, Len(pipe))
          /\ ok' = ok \/ ok' = r.id
  <2>1. pipe' = Tail(pipe) => pipe' = SubSeq(pipe, 1 + 1, Len(pipe))
    BY <1>1 DEF Inv, TypeOK
  <2> QED BY <1>1, <2>1 DEF Process
<1>3. /\ pipe' \in Seq(Request) /\ Len(pipe') = Len(pipe) - n
      /\ \A i \in 1..Len(pipe') : i + n \in 1..Len(pipe) /\ pipe'[i] = pipe[i + n]
  BY <1>2, ReadPipe DEF Inv
<1>4. Len(pipe) \in Nat /\ Len(pipe') \in Nat /\ n \in Nat
  BY <1>3 DEF Inv, TypeOK
<1>5. \A i \in 1..Len(pipe) : pipe[i].id \in Nat
  BY PipeIds DEF Inv
<1>6. /\ host' = host /\ asked' = asked /\ got' = got /\ last' = last
      /\ olvm' \in {"runs", "reports", "stops", "waits"} /\ error' \in BOOLEAN
  BY DEF Process, Inv, TypeOK
<1>7. TypeOK'
  BY <1>1, <1>2, <1>3, <1>6 DEF Inv, TypeOK
<1>8. InOrder'
  <2>1. ASSUME NEW i \in 1..Len(pipe'), NEW j \in 1..Len(pipe'), i < j
        PROVE  pipe'[i].id < pipe'[j].id
    <3>1. i + n < j + n /\ i + n \in 1..Len(pipe) /\ j + n \in 1..Len(pipe)
      BY <1>3, <1>4, <2>1
    <3> QED BY <1>3, <3>1 DEF Inv, InOrder
  <2>2. ASSUME NEW i \in 1..Len(pipe') PROVE pipe'[i].id <= asked'
    BY <1>3, <1>6 DEF Inv, InOrder
  <2> QED BY <2>1, <2>2 DEF InOrder
<1>9. Newer'
  <2>1. ASSUME NEW i \in 1..Len(pipe') PROVE ok' < pipe'[i].id /\ last' < pipe'[i].id
    <3>1. 1 < i + n /\ i + n \in 1..Len(pipe) /\ pipe'[i] = pipe[i + n]
      BY <1>3, <1>4
    <3>2. r.id < pipe[i + n].id
      BY <1>1, <3>1 DEF Inv, InOrder
    <3> QED BY <1>2, <1>6, <3>1, <3>2 DEF Inv, Newer
  <2>2. ok' <= asked' /\ last' <= asked'
    BY <1>1, <1>2, <1>6 DEF Inv, Newer, InOrder
  <2> QED BY <2>1, <2>2 DEF Newer
<1>10. Cleared'
  <2>1. r.id > last
    BY <1>1, <1>5 DEF Inv, Newer, TypeOK
  <2> QED BY <1>2, <1>6, <2>1 DEF Inv, Cleared
<1> QED BY <1>7, <1>8, <1>9, <1>10 DEF Inv

\* A program is written behind all the others.
LEMMA WriteInv ==
    ASSUME Inv, NEW eval \in BOOLEAN, NEW fails \in BOOLEAN, NEW next \in Hosts \ Waits,
           Write(eval, fails, next), UNCHANGED <<ok, error, olvm, got, last>>
    PROVE  Inv'
<1> DEFINE r == [id |-> asked + 1, eval |-> eval, fails |-> fails]
<1>1. asked \in Nat /\ asked + 1 \in 1..MaxRequest /\ asked' = asked + 1
  BY TalkbackAssumption DEF Inv, TypeOK, Write
<1>2. r \in Request /\ r.id = asked + 1
  BY <1>1 DEF Request
<1>3. /\ pipe' = Append(pipe, r) /\ pipe \in Seq(Request)
      /\ pipe' \in Seq(Request) /\ Len(pipe') = Len(pipe) + 1 /\ Len(pipe) \in Nat
  BY <1>2 DEF Inv, TypeOK, Write
<1>4. \A i \in 1..Len(pipe') :
          \/ i \in 1..Len(pipe) /\ pipe'[i] = pipe[i]
          \/ i = Len(pipe) + 1 /\ pipe'[i] = r
  BY <1>3
<1>5. \A i \in 1..Len(pipe) : pipe[i].id \in Nat
  BY PipeIds DEF Inv
<1>6. TypeOK'
  BY <1>1, <1>3 DEF Inv, TypeOK, Write
<1>7. InOrder'
  <2> HIDE DEF r
  <2> QED BY <1>1, <1>2, <1>3, <1>4, <1>5 DEF Inv, InOrder
<1>8. Newer'
  <2> HIDE DEF r
  <2> QED BY <1>1, <1>2, <1>3, <1>4, <1>5 DEF Inv, Newer, TypeOK
<1>9. Cleared'
  BY DEF Cleared, Write
<1> QED BY <1>6, <1>7, <1>8, <1>9 DEF Inv

\* What Return does to the answers.
LEMMA ReturnInv ==
    ASSUME Inv, host \in Waits, Return, UNCHANGED <<pipe, ok, error, olvm, asked>>
    PROVE  Inv'
<1>1. host' \in {"idle", "uses"} /\ got' \in Nat /\ last' \in {ok, last}
  BY DEF Return, Inv, TypeOK, None
<1>2. TypeOK' /\ InOrder'
  BY <1>1 DEF Inv, TypeOK, InOrder, Hosts
<1>3. Newer'
  BY <1>1 DEF Inv, Newer
<1>4. Cleared'
  BY <1>1 DEF Cleared, Waits
<1> QED BY <1>2, <1>3, <1>4 DEF Inv

\* A step that leaves the pipe and the answers alone, and enters the places of
\* Waits from within only.
LEMMA QuietInv ==
    ASSUME Inv, UNCHANGED <<pipe, ok, asked, got, last>>,
           error' \in BOOLEAN, olvm' \in {"runs", "reports", "stops", "waits"},
           host' \in Hosts, host' \in Waits => host \in Waits
    PROVE  Inv'
  BY DEF Inv, TypeOK, InOrder, Newer, Cleared

LEMMA NextInv == Inv /\ [Next]_talkbackVars => Inv'
<1> SUFFICES ASSUME Inv, [Next]_talkbackVars PROVE Inv'
  OBVIOUS
<1> USE DEF Hosts, Waits
<1>1. CASE Process
  BY <1>1, ProcessInv
<1>2. CASE WakeHost \/ Stop
  BY <1>2, QuietInv DEF WakeHost, Stop, Inv, TypeOK
<1>3. CASE Send
  <2>1. CASE host = "idle" /\ \E fails \in BOOLEAN :
                /\ Write(FALSE, fails, "sent")
                /\ UNCHANGED <<ok, error, olvm, got, last>>
    BY <2>1, WriteInv
  <2>2. CASE host = "sent" /\ WakeOlvm("idle") /\ UNCHANGED <<pipe, ok, error, asked, got, last>>
    BY <2>2, QuietInv DEF WakeOlvm, Inv, TypeOK
  <2> QED BY <1>3, <2>1, <2>2 DEF Send
<1>4. CASE Eval
  <2>1. PICK fails \in BOOLEAN : /\ Write(TRUE, fails, "written")
                                 /\ UNCHANGED <<ok, error, olvm, got, last>>
    BY <1>4 DEF Eval
  <2> QED BY <2>1, WriteInv
<1>5. CASE Clear
  <2>1. \A i \in 1..Len(pipe) : pipe[i].id \in Nat /\ 0 < pipe[i].id
    BY PipeIds DEF Inv
  <2> QED BY <1>5, <2>1 DEF Clear, None, Inv, TypeOK, InOrder, Newer, Cleared
<1>6. CASE EvalWakes
  BY <1>6, QuietInv DEF EvalWakes, WakeOlvm, Inv, TypeOK
<1>7. CASE Check
  <2>1. CASE Return
    BY <1>7, <2>1, ReturnInv DEF Check
  <2>2. CASE host' = "sleeps" /\ UNCHANGED <<got, last>>
    BY <1>7, <2>2, QuietInv DEF Check, Inv, TypeOK
  <2> QED BY <1>7, <2>1, <2>2 DEF Check
<1>8. CASE Woken
  BY <1>8, ReturnInv DEF Woken
<1>9. CASE Used \/ Reset
  BY <1>9, QuietInv DEF Used, Reset, Inv, TypeOK
<1>10. CASE UNCHANGED talkbackVars
  BY <1>10, QuietInv DEF talkbackVars, Inv, TypeOK
<1> QED BY <1>1, <1>2, <1>3, <1>4, <1>5, <1>6, <1>7, <1>8, <1>9, <1>10
        DEF Next, Olvm, Host

------------------------------------------------------------------------------
\* Only Return makes the host use something, and then ok is newer than what
\* was returned before.
LEMMA NextAdvances ==
    Inv /\ [Next]_talkbackVars
        => (host' = "uses" /\ host # "uses" /\ got' # None => got' > last)
<1> SUFFICES ASSUME Inv, [Next]_talkbackVars,
                    host' = "uses", host # "uses", got' # None
             PROVE  got' > last
  OBVIOUS
<1>1. host \in Waits /\ Return
  BY DEF Next, Olvm, Host, talkbackVars, Process, WakeHost, Stop, Send, Eval, Clear,
         EvalWakes, WakeOlvm, Write, Check, Woken, Used, Reset, Waits
<1>2. got' = ok
  BY <1>1 DEF Return
<1> QED BY <1>1, <1>2 DEF Inv, Cleared

\* OL_tb_eval returns no answer twice, nor one that is older than one it has
\* returned before.
THEOREM AnswersInOrder == Spec => AnswersAdvance
<1>1. Spec => []Inv
  BY InitInv, NextInv, PTL DEF Spec
<1>2. Inv /\ [Next]_talkbackVars
      => [host' = "uses" /\ host # "uses" /\ got' # None => got' > last]_talkbackVars
  BY NextAdvances
<1> QED BY <1>1, <1>2, PTL DEF Spec, AnswersAdvance
==============================================================================
