-------------------------------- MODULE Deque --------------------------------
(***************************************************************************)
(* What a double-ended queue promises its users: values are added and      *)
(* removed at either end of one sequence.                                  *)
(***************************************************************************)
EXTENDS Integers, Sequences

CONSTANTS Value,    \* what queues are made of
          Default,  \* what an empty queue gives (the argument d)
          Crash     \* the operation raised an error

VARIABLES q,      \* the values, first one first
          result  \* what the last operation returned

dequeVars == <<q, result>>

LastOf(s) == s[Len(s)]
ButLast(s) == SubSeq(s, 1, Len(s) - 1)

Init == q \in Seq(Value) /\ result = Default

PutFirst(a) == q' = <<a>> \o q /\ UNCHANGED result
PutLast(a) == q' = Append(q, a) /\ UNCHANGED result

TakeFirst ==
    \/ q = <<>> /\ result' = Default /\ UNCHANGED q
    \/ q # <<>> /\ result' = Head(q) /\ q' = Tail(q)

TakeLast ==
    \/ q = <<>> /\ result' = Default /\ UNCHANGED q
    \/ q # <<>> /\ result' = LastOf(q) /\ q' = ButLast(q)

\* Looking at an end has no default: it may fail, but not when there are two
\* values or more.
Peek ==
    /\ UNCHANGED q
    /\ \/ Len(q) < 2 /\ result' = Crash
       \/ q # <<>> /\ result' \in {Head(q), LastOf(q)}

Next ==
    \/ \E a \in Value : PutFirst(a) \/ PutLast(a)
    \/ TakeFirst \/ TakeLast \/ Peek

Spec == Init /\ [][Next]_dequeVars
==============================================================================
