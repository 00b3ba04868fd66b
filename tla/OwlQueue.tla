------------------------------ MODULE OwlQueue ------------------------------
(***************************************************************************)
(* The queue of libraries/owl/queue.scm, which holds the mailboxes of the  *)
(* threads: a pair (hd . rtl) of a list of values in order and a list of   *)
(* values in reverse order.  An operation that finds the list it needs     *)
(* empty moves half of the other one over (half-rev).                      *)
(***************************************************************************)
EXTENDS Integers, SequencesExt

CONSTANTS Value, Default, QueueError,
          MaxLen,  \* bound: length of the queue
          QueueOps   \* bound: number of operations

ASSUME QueueAssumption == MaxLen \in Nat /\ QueueOps \in Nat

VARIABLES hd,      \* values in order, first one first
          rtl,     \* values in reverse order, last one first
          result,  \* what the last operation returned
          opsDone, \* operations done so far
          work     \* their cost, in list cells visited and calls

queueVars == <<hd, rtl, result, opsDone, work>>

\* queue->list
Contents == hd \o Reverse(rtl)

\* qlen
QLen == Len(hd) + Len(rtl)

\* Mutant: the second half is not reversed back.
HalfRevInOrder(l) ==
    LET k == (Len(l) + 1) \div 2
    IN  <<Reverse(SubSeq(l, k + 1, Len(l))), Reverse(SubSeq(l, 1, k))>>

\* Mutant: the whole list is reversed, as in the textbook queue.
FullRev(l) == <<Reverse(l), <<>>>>

\* half-rev: the far half of l, reversed, and the near half, the longer one of
\* the two, as it was.
HalfRev(l) ==
    LET k == (Len(l) + 1) \div 2
    IN  <<Reverse(SubSeq(l, k + 1, Len(l))), SubSeq(l, 1, k)>>

\* Walking the list once and reversing both halves.
HalfRevCost(l) == 2 * Len(l)

Costs(n) == opsDone' = opsDone + 1 /\ work' = work + 1 + n

------------------------------------------------------------------------------
QCons(a) ==
    /\ QLen < MaxLen
    /\ hd' = Cons(a, hd)
    /\ Costs(0)
    /\ UNCHANGED <<rtl, result>>

QSnoc(a) ==
    /\ QLen < MaxLen
    /\ rtl' = Cons(a, rtl)
    /\ Costs(0)
    /\ UNCHANGED <<hd, result>>

QUncons ==
    \/ /\ hd # <<>>
       /\ result' = Head(hd) /\ hd' = Tail(hd)
       /\ Costs(0)
       /\ UNCHANGED rtl
    \/ /\ hd = <<>> /\ Len(rtl) < 2
       /\ result' = IF rtl = <<>> THEN Default ELSE Head(rtl)
       /\ rtl' = <<>>
       /\ Costs(0)
       /\ UNCHANGED hd
    \/ /\ hd = <<>> /\ Len(rtl) >= 2
       /\ LET h == HalfRev(rtl)
          IN  result' = Head(h[1]) /\ hd' = Tail(h[1]) /\ rtl' = h[2]
       /\ Costs(HalfRevCost(rtl))

QUnsnoc ==
    \/ /\ rtl # <<>>
       /\ result' = Head(rtl) /\ rtl' = Tail(rtl)
       /\ Costs(0)
       /\ UNCHANGED hd
    \/ /\ rtl = <<>> /\ Len(hd) < 2
       /\ result' = IF hd = <<>> THEN Default ELSE Head(hd)
       /\ hd' = <<>>
       /\ Costs(0)
       /\ UNCHANGED rtl
    \/ /\ rtl = <<>> /\ Len(hd) >= 2
       /\ LET h == HalfRev(hd)
          IN  result' = Head(h[1]) /\ rtl' = Tail(h[1]) /\ hd' = h[2]
       /\ Costs(HalfRevCost(hd))

\* An error leaves the queue as it was.  Besides the empty queue it is raised
\* for a single value on the other side: its far half is '(), and (car '()) is
\* an error of the machine.
QCar ==
    \/ /\ hd # <<>>
       /\ result' = Head(hd)
       /\ Costs(0)
       /\ UNCHANGED <<hd, rtl>>
    \/ /\ hd = <<>> /\ Len(rtl) < 2
       /\ result' = QueueError
       /\ Costs(HalfRevCost(rtl))
       /\ UNCHANGED <<hd, rtl>>
    \/ /\ hd = <<>> /\ Len(rtl) >= 2
       /\ LET h == HalfRev(rtl)
          IN  result' = Head(h[1]) /\ hd' = h[1] /\ rtl' = h[2]
       /\ Costs(HalfRevCost(rtl))

QRac ==
    \/ /\ rtl # <<>>
       /\ result' = Head(rtl)
       /\ Costs(0)
       /\ UNCHANGED <<hd, rtl>>
    \/ /\ rtl = <<>> /\ Len(hd) < 2
       /\ result' = QueueError
       /\ Costs(HalfRevCost(hd))
       /\ UNCHANGED <<hd, rtl>>
    \/ /\ rtl = <<>> /\ Len(hd) >= 2
       /\ LET h == HalfRev(hd)
          IN  result' = Head(h[1]) /\ rtl' = h[1] /\ hd' = h[2]
       /\ Costs(HalfRevCost(hd))

------------------------------------------------------------------------------
\* list->queue, for a list that was made with one operation per value.
QueueInit ==
    /\ \E n \in 0..MaxLen : hd \in [1..n -> Value]
    /\ rtl = <<>>
    /\ result = Default
    /\ opsDone = Len(hd) /\ work = 0

QueueNext ==
    /\ opsDone < QueueOps
    /\ \/ \E a \in Value : QCons(a) \/ QSnoc(a)
       \/ QUncons \/ QUnsnoc \/ QCar \/ QRac

QueueSpec == QueueInit /\ [][QueueNext]_queueVars

------------------------------------------------------------------------------
(* Correctness.                                                            *)

\* The type of every variable, and that a queue has a length.
TypeOK ==
    /\ hd \in Seq(Value) /\ rtl \in Seq(Value)
    /\ result \in Value \cup {Default, QueueError}
    /\ opsDone \in Nat /\ work \in Nat

\* Whatever is done at its two ends in whatever order, the pair is one
\* sequence: nothing is lost, doubled or moved when a half changes sides.
\* (libraries/owl/queue.scm:65, "(quncons (qcons a b)) = (values a b)", and
\* line 103, are instances of this.)
Sequence == INSTANCE Deque WITH q <- Contents, Crash <- QueueError
ImplementsDeque == Sequence!Spec

\* The reason for moving half of a list and not all of it (the todo at the top
\* of queue.scm): both ends stay near.  An operation may cost as much as the
\* queue is long, but n operations on a queue cost 5n at most, however they
\* alternate between the ends.
EndsStayNear == work <= 5 * opsDone

\* half-rev as it is written: l walks at half the speed of h, and the values it
\* passes are collected in o.
HalfRevLoop(list) ==
    LET at[i \in 0..Len(list)] ==
            IF i = 0 THEN [l |-> list, o |-> <<>>]
            ELSE IF i % 2 = 0 THEN at[i - 1]
            ELSE [l |-> Tail(at[i - 1].l),
                  o |-> Cons(Head(at[i - 1].l), at[i - 1].o)]
    IN  <<Reverse(at[Len(list)].l), Reverse(at[Len(list)].o)>>

\* The loop splits every list the way HalfRev says, and at least one value is
\* moved whenever there are two (the "todo: check" of queue.scm:46).
LoopHalves ==
    \A l \in {hd, rtl} :
        /\ HalfRevLoop(l) = HalfRev(l)
        /\ Len(l) >= 2 => HalfRevLoop(l)[1] # <<>> /\ HalfRevLoop(l)[2] # <<>>

\* "Q -> a Q' -- return first and Q' with O(1) qcar" and "return last"
\* (queue.scm:21-22): looking at an end of a queue that has values succeeds.
PeekSucceeds ==
    [][(QCar \/ QRac) /\ Contents # <<>> => result' # QueueError]_queueVars
==============================================================================
