--------------------------- MODULE OwlQueueProofs ---------------------------
(***************************************************************************)
(* Theorems about the queue, for queues of any values and any length: it   *)
(* implements a sequence, its operations have constant amortized cost, and *)
(* the loop that moves half of a list does what the model says it does.    *)
(***************************************************************************)
EXTENDS OwlQueue, SequenceTheorems, WellFoundedInduction, TLAPS

------------------------------------------------------------------------------
(* Lists and their reverses.                                               *)

LEMMA ReverseProperties ==
    ASSUME NEW S, NEW s \in Seq(S)
    PROVE  /\ Reverse(s) \in Seq(S)
           /\ Len(Reverse(s)) = Len(s)
           /\ \A i \in 1..Len(s) : Reverse(s)[i] = s[Len(s) - i + 1]
<1>1. /\ Len(s) \in Nat
      /\ \A i \in 1..Len(s) : Len(s) - i + 1 \in 1..Len(s) /\ s[Len(s) - i + 1] \in S
  OBVIOUS
<1>2. Reverse(s) = [i \in 1..Len(s) |-> s[Len(s) - i + 1]]
  BY <1>1 DEF Reverse
<1>3. Reverse(s) \in [1..Len(s) -> S]
  BY <1>1, <1>2
<1> QED BY <1>1, <1>2, <1>3, IsASeq

LEMMA ReverseTwice ==
    ASSUME NEW S, NEW s \in Seq(S)
    PROVE  Reverse(Reverse(s)) = s
<1> DEFINE r == Reverse(s)
<1>1. /\ r \in Seq(S) /\ Len(r) = Len(s)
      /\ \A i \in 1..Len(s) : r[i] = s[Len(s) - i + 1]
  BY ReverseProperties
<1>2. /\ Reverse(r) \in Seq(S) /\ Len(Reverse(r)) = Len(s)
      /\ \A i \in 1..Len(s) : Reverse(r)[i] = r[Len(s) - i + 1]
  <2> HIDE DEF r
  <2> QED BY <1>1, ReverseProperties
<1>3. ASSUME NEW i \in 1..Len(s) PROVE Reverse(r)[i] = s[i]
  <2>1. Len(s) - i + 1 \in 1..Len(s) /\ Len(s) - (Len(s) - i + 1) + 1 = i
    OBVIOUS
  <2> QED BY <2>1, <1>1, <1>2
<1> QED BY <1>2, <1>3, SeqEqual

\* Splitting a list and reversing the pieces.
LEMMA ReverseConcat ==
    ASSUME NEW S, NEW s \in Seq(S), NEW t \in Seq(S)
    PROVE  Reverse(s \o t) = Reverse(t) \o Reverse(s)
<1> DEFINE u == s \o t
           v == Reverse(t) \o Reverse(s)
<1>1. /\ u \in Seq(S) /\ Len(u) = Len(s) + Len(t)
      /\ \A i \in 1..Len(u) : u[i] = IF i <= Len(s) THEN s[i] ELSE t[i - Len(s)]
  BY ConcatProperties
<1>2. /\ Reverse(s) \in Seq(S) /\ Len(Reverse(s)) = Len(s)
      /\ \A i \in 1..Len(s) : Reverse(s)[i] = s[Len(s) - i + 1]
  BY ReverseProperties
<1>3. /\ Reverse(t) \in Seq(S) /\ Len(Reverse(t)) = Len(t)
      /\ \A i \in 1..Len(t) : Reverse(t)[i] = t[Len(t) - i + 1]
  BY ReverseProperties
<1>4. /\ v \in Seq(S) /\ Len(v) = Len(u)
      /\ \A i \in 1..Len(u) : v[i] = IF i <= Len(t) THEN Reverse(t)[i]
                                                    ELSE Reverse(s)[i - Len(t)]
  <2> DEFINE rs == Reverse(s)
             rt == Reverse(t)
  <2>1. rs \in Seq(S) /\ rt \in Seq(S) /\ Len(rs) = Len(s) /\ Len(rt) = Len(t)
    BY <1>2, <1>3
  <2> HIDE DEF rs, rt
  <2>2. /\ rt \o rs \in Seq(S) /\ Len(rt \o rs) = Len(rt) + Len(rs)
        /\ \A i \in 1..Len(rt) + Len(rs) :
              (rt \o rs)[i] = IF i <= Len(rt) THEN rt[i] ELSE rs[i - Len(rt)]
    BY <2>1, ConcatProperties
  <2>3. Len(u) = Len(rt) + Len(rs)
    BY <1>1, <2>1
  <2> QED BY <2>1, <2>2, <2>3 DEF rs, rt
<1>5. /\ Reverse(u) \in Seq(S) /\ Len(Reverse(u)) = Len(u)
      /\ \A i \in 1..Len(u) : Reverse(u)[i] = u[Len(u) - i + 1]
  <2> HIDE DEF u
  <2> QED BY <1>1, ReverseProperties
<1>6. ASSUME NEW i \in 1..Len(u) PROVE Reverse(u)[i] = v[i]
  <2> HIDE DEF u, v
  <2> DEFINE j == Len(u) - i + 1
  <2>1. j \in 1..Len(u) /\ Reverse(u)[i] = u[j]
    BY <1>1, <1>5
  <2>2. CASE i <= Len(t)
    <3>1. i \in 1..Len(t) /\ ~(j <= Len(s)) /\ j - Len(s) = Len(t) - i + 1
      BY <1>1, <2>2
    <3>2. u[j] = t[Len(t) - i + 1]
      BY <2>1, <3>1, <1>1
    <3>3. v[i] = t[Len(t) - i + 1]
      BY <2>2, <3>1, <1>3, <1>4
    <3> QED BY <2>1, <3>2, <3>3
  <2>3. CASE ~(i <= Len(t))
    <3>1. i - Len(t) \in 1..Len(s) /\ j <= Len(s) /\ j = Len(s) - (i - Len(t)) + 1
      BY <1>1, <2>3
    <3>2. u[j] = s[j]
      BY <2>1, <3>1, <1>1
    <3>3. v[i] = s[j]
      BY <2>3, <3>1, <1>2, <1>4
    <3> QED BY <2>1, <3>2, <3>3
  <2> QED BY <2>2, <2>3
<1> QED BY <1>4, <1>5, <1>6, SeqEqual

LEMMA ReverseSmall ==
    ASSUME NEW S, NEW a \in S
    PROVE  Reverse(<<a>>) = <<a>> /\ Reverse(<<>>) = <<>>
<1>1. /\ <<a>> \in Seq(S) /\ Len(<<a>>) = 1 /\ <<a>>[1] = a
      /\ <<>> \in Seq(S) /\ Len(<<>>) = 0
  OBVIOUS
<1>2. Reverse(<<a>>) = <<a>>
  <2>1. /\ Reverse(<<a>>) \in Seq(S) /\ Len(Reverse(<<a>>)) = 1
        /\ Reverse(<<a>>)[1] = <<a>>[1]
    BY <1>1, ReverseProperties
  <2> QED BY <1>1, <2>1, SeqEqual
<1>3. Reverse(<<>>) = <<>>
  <2>1. Reverse(<<>>) \in Seq(S) /\ Len(Reverse(<<>>)) = 0
    BY <1>1, ReverseProperties
  <2> QED BY <2>1, EmptySeq
<1> QED BY <1>2, <1>3

\* The first value of a sequence kept as a list and a reversed list.
LEMMA FirstOfLists ==
    ASSUME NEW S, NEW s \in Seq(S), NEW t \in Seq(S), s # <<>>
    PROVE  /\ s \o t # <<>>
           /\ Head(s \o t) = Head(s)
           /\ Tail(s \o t) = Tail(s) \o t
<1>1. /\ s \o t \in Seq(S) /\ Len(s \o t) = Len(s) + Len(t)
      /\ \A i \in 1..Len(s) + Len(t) :
            (s \o t)[i] = IF i <= Len(s) THEN s[i] ELSE t[i - Len(s)]
  BY ConcatProperties
<1>2. /\ Tail(s) \in Seq(S) /\ Len(Tail(s)) = Len(s) - 1 /\ Len(s) >= 1
      /\ \A i \in 1..Len(s) - 1 : Tail(s)[i] = s[i + 1]
  OBVIOUS
<1>3. s \o t # <<>>
  BY <1>1, <1>2
<1>4. Head(s \o t) = Head(s)
  BY <1>1, <1>2
<1>5. /\ Tail(s \o t) \in Seq(S) /\ Len(Tail(s \o t)) = Len(s) + Len(t) - 1
      /\ \A i \in 1..Len(s) + Len(t) - 1 : Tail(s \o t)[i] = (s \o t)[i + 1]
  BY <1>1, <1>3
<1>6. /\ Tail(s) \o t \in Seq(S) /\ Len(Tail(s) \o t) = Len(s) + Len(t) - 1
      /\ \A i \in 1..Len(s) + Len(t) - 1 :
            (Tail(s) \o t)[i] = IF i <= Len(s) - 1 THEN Tail(s)[i] ELSE t[i - (Len(s) - 1)]
  BY <1>2, ConcatProperties
<1>7. ASSUME NEW i \in 1..Len(s) + Len(t) - 1
      PROVE  Tail(s \o t)[i] = (Tail(s) \o t)[i]
  <2>1. i + 1 \in 1..Len(s) + Len(t) /\ (i + 1) - Len(s) = i - (Len(s) - 1)
    BY <1>2
  <2>2. CASE i <= Len(s) - 1
    BY <2>1, <2>2, <1>1, <1>2, <1>5, <1>6
  <2>3. CASE ~(i <= Len(s) - 1)
    <3>1. ~(i + 1 <= Len(s))
      BY <2>3, <1>2
    <3> QED BY <2>1, <2>3, <3>1, <1>1, <1>5, <1>6
  <2> QED BY <2>2, <2>3
<1>8. Tail(s \o t) = Tail(s) \o t
  BY <1>5, <1>6, <1>7, SeqEqual
<1> QED BY <1>3, <1>4, <1>8

\* The last one.
LEMMA LastOfLists ==
    ASSUME NEW S, NEW s \in Seq(S), NEW t \in Seq(S), t # <<>>
    PROVE  LET c == s \o Reverse(t)
           IN  /\ c \in Seq(S) /\ c # <<>>
               /\ c[Len(c)] = Head(t)
               /\ SubSeq(c, 1, Len(c) - 1) = s \o Reverse(Tail(t))
<1> DEFINE h == Head(t)
           r == Reverse(Tail(t))
           e == s \o r
<1>1. h \in S /\ Tail(t) \in Seq(S) /\ t = <<h>> \o Tail(t) /\ <<h>> \in Seq(S)
  OBVIOUS
<1>2. Reverse(t) = r \o <<h>> /\ r \in Seq(S)
  <2>1. Reverse(<<h>> \o Tail(t)) = Reverse(Tail(t)) \o Reverse(<<h>>)
    <3> HIDE DEF h
    <3> QED BY <1>1, ReverseConcat
  <2>2. Reverse(<<h>>) = <<h>>
    <3> HIDE DEF h
    <3> QED BY <1>1, ReverseSmall
  <2>3. r \in Seq(S)
    BY <1>1, ReverseProperties
  <2> QED BY <2>1, <2>2, <2>3, <1>1
<1> HIDE DEF h, r
<1>3. s \o (r \o <<h>>) = e \o <<h>>
  BY <1>1, <1>2, ConcatAssociative
<1>4. e \in Seq(S)
  BY <1>2, ConcatProperties
<1> HIDE DEF e
<1>5. LET c == e \o <<h>>
      IN  c \in Seq(S) /\ c # <<>> /\ c[Len(c)] = h /\ SubSeq(c, 1, Len(c) - 1) = e
  <2> DEFINE c == e \o <<h>>
  <2>1. /\ c \in Seq(S) /\ Len(c) = Len(e) + 1 /\ c[Len(e) + 1] = h
        /\ \A i \in 1..Len(e) : c[i] = e[i]
    BY <1>1, <1>4
  <2> HIDE DEF c
  <2>2. c # <<>> /\ c[Len(c)] = h
    BY <2>1, <1>4
  <2>3. SubSeq(c, 1, Len(c) - 1) = e
    <3>1. Len(e) \in Nat /\ Len(c) - 1 = Len(e)
      BY <1>4, <2>1
    <3>2. SubSeq(c, 1, Len(e)) \in Seq(S) /\ Len(SubSeq(c, 1, Len(e))) = Len(e)
          /\ \A i \in 1..Len(e) : SubSeq(c, 1, Len(e))[i] = c[i]
      BY <2>1, <3>1
    <3> QED BY <3>1, <3>2, <2>1, <1>4, SeqEqual
  <2> QED BY <2>1, <2>2, <2>3 DEF c
<1> QED BY <1>2, <1>3, <1>5 DEF h, r, e

------------------------------------------------------------------------------
(* half-rev.                                                               *)

LEMMA HalfLengths ==
    ASSUME NEW n \in Nat
    PROVE  LET k == (n + 1) \div 2
           IN  /\ k \in Nat /\ k <= n /\ n - k \in Nat /\ k + (n - k) = n /\ (n - k) + k = n
               /\ k = n - k \/ k = (n - k) + 1
OBVIOUS

\* The two halves, seen from either end: hd and rtl of a queue whose values
\* were in l, when l was its rtl, or its hd.
LEMMA HalfRevProperties ==
    ASSUME NEW S, NEW l \in Seq(S)
    PROVE  LET h == HalfRev(l)
           IN  /\ h[1] \in Seq(S) /\ h[2] \in Seq(S)
               /\ Len(h[1]) \in Nat /\ Len(h[2]) \in Nat
               /\ Len(h[1]) + Len(h[2]) = Len(l)
               /\ Len(h[2]) = Len(h[1]) \/ Len(h[2]) = Len(h[1]) + 1
               /\ h[1] \o Reverse(h[2]) = Reverse(l)
               /\ h[2] \o Reverse(h[1]) = l
<1> DEFINE k == (Len(l) + 1) \div 2
           near == SubSeq(l, 1, k)
           far == SubSeq(l, k + 1, Len(l))
<1>1. Len(l) \in Nat
  OBVIOUS
<1>a. /\ k \in Nat /\ k <= Len(l) /\ Len(l) - k \in Nat /\ k + (Len(l) - k) = Len(l)
      /\ (Len(l) - k) + k = Len(l)
      /\ k = Len(l) - k \/ k = (Len(l) - k) + 1
  BY <1>1, HalfLengths
<1> HIDE DEF k
<1>2. /\ Len(l) \in Nat /\ k \in Nat /\ k <= Len(l)
      /\ l = [i \in 1..Len(l) |-> l[i]] /\ \A i \in 1..Len(l) : l[i] \in S
  <2>1. l = [i \in 1..Len(l) |-> l[i]] /\ \A i \in 1..Len(l) : l[i] \in S
    OBVIOUS
  <2> QED BY <2>1, <1>1, <1>a
<1>3. near \in Seq(S) /\ Len(near) = k
  BY <1>2, SubSeqProperties
<1>4. far \in Seq(S) /\ Len(far) = Len(l) - k
  BY <1>2, SubSeqProperties
<1>5. near \o far = l
  <2>1. \A i \in 1..k : near[i] = l[i]
    BY <1>2
  <2>2. \A i \in 1..Len(l) - k : far[i] = l[i + k]
    BY <1>2
  <2> HIDE DEF near, far
  <2>3. /\ near \o far \in Seq(S) /\ Len(near \o far) = Len(l)
        /\ \A i \in 1..Len(l) :
              (near \o far)[i] = IF i <= k THEN near[i] ELSE far[i - k]
    <3>1. /\ near \o far \in Seq(S) /\ Len(near \o far) = Len(near) + Len(far)
          /\ \A i \in 1..Len(near) + Len(far) :
                (near \o far)[i] = IF i <= Len(near) THEN near[i]
                                                    ELSE far[i - Len(near)]
      BY <1>3, <1>4, ConcatProperties
    <3>2. Len(near) = k /\ Len(near) + Len(far) = Len(l)
      <4>1. k + (Len(l) - k) = Len(l)
        BY <1>a
      <4> QED BY <4>1, <1>3, <1>4, Zenon
    <3> QED BY <3>1, <3>2
  <2>4. ASSUME NEW i \in 1..Len(l) PROVE (near \o far)[i] = l[i]
    <3>1. CASE i <= k
      BY <3>1, <2>1, <2>3
    <3>2. CASE ~(i <= k)
      <4>1. i - k \in 1..Len(l) - k /\ (i - k) + k = i
        BY <3>2, <1>2
      <4> QED BY <3>2, <4>1, <2>2, <2>3
    <3> QED BY <3>1, <3>2
  <2> QED BY <2>3, <2>4, SeqEqual
<1>6. HalfRev(l)[1] = Reverse(far) /\ HalfRev(l)[2] = near
  BY DEF HalfRev, k
<1> HIDE DEF near, far
<1>7. /\ Reverse(far) \in Seq(S) /\ Len(Reverse(far)) = Len(l) - k
      /\ Reverse(Reverse(far)) = far
  BY <1>4, ReverseProperties, ReverseTwice
<1>8. Reverse(near \o far) = Reverse(far) \o Reverse(near)
  BY <1>3, <1>4, ReverseConcat
<1> HIDE DEF HalfRev
<1>9. /\ HalfRev(l)[1] \o Reverse(HalfRev(l)[2]) = Reverse(l)
      /\ HalfRev(l)[2] \o Reverse(HalfRev(l)[1]) = l
  BY <1>5, <1>6, <1>7, <1>8
<1>10. /\ Len(HalfRev(l)[2]) = k /\ Len(HalfRev(l)[1]) = Len(l) - k
  BY <1>3, <1>6, <1>7
<1> DEFINE h == HalfRev(l)
<1>11. h[1] \in Seq(S) /\ h[2] \in Seq(S)
  BY <1>3, <1>6, <1>7
<1>12. /\ Len(h[1]) \in Nat /\ Len(h[2]) \in Nat
       /\ Len(h[1]) + Len(h[2]) = Len(l)
       /\ Len(h[2]) = Len(h[1]) \/ Len(h[2]) = Len(h[1]) + 1
  BY <1>a, <1>10, Zenon
<1> QED BY <1>9, <1>11, <1>12, Zenon

------------------------------------------------------------------------------
(* Types and cost.                                                         *)

\* Two halves of a list of two values or more.
LEMMA HalfNumbers ==
    ASSUME NEW n \in Nat, n >= 2, NEW x \in Nat, NEW y \in Nat,
           x + y = n, y = x \/ y = x + 1
    PROVE  x >= 1
OBVIOUS

\* What an operation saves and what it spends.
LEMMA Budget ==
    ASSUME NEW w \in Nat, NEW o \in Nat, NEW u \in Nat, NEW v \in Nat, NEW n \in Nat,
           w + 2 * u <= 5 * o, n + 2 * v <= 2 * u + 4
    PROVE  (w + 1 + n) + 2 * v <= 5 * (o + 1)
OBVIOUS

\* The strengthening of EndsStayNear: the operations have saved what the next
\* half-rev may cost, which is twice the difference between the lists.
Unequal == IF Len(hd) > Len(rtl) THEN Len(hd) - Len(rtl) ELSE Len(rtl) - Len(hd)
Saved == work + 2 * Unequal <= 5 * opsDone
Inv == TypeOK /\ Saved

LEMMA InitInv == QueueInit => Inv
<1> SUFFICES ASSUME QueueInit PROVE Inv
  OBVIOUS
<1>1. PICK n \in 0..MaxLen : hd \in [1..n -> Value]
  BY DEF QueueInit
<1>2. hd \in Seq(Value) /\ Len(hd) \in Nat
  BY <1>1, QueueAssumption
<1>3. rtl = <<>> /\ result = Default /\ opsDone = Len(hd) /\ work = 0 /\ Len(rtl) = 0
  BY DEF QueueInit
<1>4. TypeOK
  BY <1>2, <1>3 DEF TypeOK
<1>5. Saved
  BY <1>2, <1>3 DEF Saved, Unequal
<1> QED BY <1>4, <1>5 DEF Inv

\* One operation costs 1 and what half-rev costs, and saves at most 4.
LEMMA CostStep ==
    ASSUME TypeOK, Saved, TypeOK',
           NEW n \in Nat, Costs(n),
           n + 2 * Unequal' <= 2 * Unequal + 4
    PROVE  Saved'
<1>1. Unequal \in Nat /\ Unequal' \in Nat
  BY DEF Unequal, TypeOK
<1>2. opsDone \in Nat /\ work \in Nat /\ opsDone' = opsDone + 1 /\ work' = work + 1 + n
  BY DEF TypeOK, Costs
<1>3. work + 2 * Unequal <= 5 * opsDone
  BY DEF Saved
<1> DEFINE u == Unequal
           v == Unequal'
<1>4. u \in Nat /\ v \in Nat /\ work + 2 * u <= 5 * opsDone /\ n + 2 * v <= 2 * u + 4
  BY <1>1, <1>3
<1> HIDE DEF u, v
<1>5. (work + 1 + n) + 2 * v <= 5 * (opsDone + 1)
  BY <1>2, <1>4, Budget
<1>6. work' + 2 * v <= 5 * opsDone'
  BY <1>2, <1>5, Zenon
<1> QED BY <1>6 DEF Saved, v

LEMMA NextInv == Inv /\ [QueueNext]_queueVars => Inv'
<1> SUFFICES ASSUME Inv, [QueueNext]_queueVars PROVE Inv'
  OBVIOUS
<1> USE DEF Inv
<1>1. CASE UNCHANGED queueVars
  BY <1>1 DEF queueVars, TypeOK, Saved, Unequal
<1>2. ASSUME NEW a \in Value, QCons(a) PROVE Inv'
  <2>1. hd' \in Seq(Value) /\ Len(hd') = Len(hd) + 1 /\ rtl' = rtl
    BY <1>2 DEF QCons, Cons, TypeOK
  <2>2. TypeOK'
    BY <1>2, <2>1 DEF QCons, Costs, TypeOK
  <2>3. Costs(0) /\ 0 + 2 * Unequal' <= 2 * Unequal + 4
    BY <1>2, <2>1 DEF QCons, Unequal, TypeOK
  <2> QED BY <2>2, <2>3, CostStep
<1>3. ASSUME NEW a \in Value, QSnoc(a) PROVE Inv'
  <2>1. rtl' \in Seq(Value) /\ Len(rtl') = Len(rtl) + 1 /\ hd' = hd
    BY <1>3 DEF QSnoc, Cons, TypeOK
  <2>2. TypeOK'
    BY <1>3, <2>1 DEF QSnoc, Costs, TypeOK
  <2>3. Costs(0) /\ 0 + 2 * Unequal' <= 2 * Unequal + 4
    BY <1>3, <2>1 DEF QSnoc, Unequal, TypeOK
  <2> QED BY <2>2, <2>3, CostStep
<1>4. ASSUME QUncons PROVE Inv'
  <2>1. CASE hd # <<>>
    <3>1. /\ Head(hd) \in Value /\ Tail(hd) \in Seq(Value)
          /\ Len(Tail(hd)) = Len(hd) - 1 /\ Len(hd) \in Nat /\ Len(rtl) \in Nat
      BY <2>1 DEF TypeOK
    <3>2. hd' = Tail(hd) /\ rtl' = rtl /\ Costs(0) /\ result' = Head(hd)
      BY <1>4, <2>1 DEF QUncons
    <3>3. TypeOK'
      BY <3>1, <3>2 DEF Costs, TypeOK
    <3>4. 0 + 2 * Unequal' <= 2 * Unequal + 4
      BY <3>1, <3>2 DEF Unequal
    <3> QED BY <3>2, <3>3, <3>4, CostStep
  <2>2. CASE hd = <<>> /\ Len(rtl) < 2
    <3>1. /\ Len(rtl) \in Nat /\ Len(hd) = 0
          /\ rtl # <<>> => Head(rtl) \in Value
      BY <2>2 DEF TypeOK
    <3>2. hd' = <<>> /\ rtl' = <<>> /\ Costs(0)
      BY <1>4, <2>2 DEF QUncons
    <3>3. result' \in Value \cup {Default, QueueError}
      BY <1>4, <2>2, <3>1 DEF QUncons
    <3>4. TypeOK'
      BY <3>2, <3>3 DEF Costs, TypeOK
    <3>5. 0 + 2 * Unequal' <= 2 * Unequal + 4
      BY <2>2, <3>1, <3>2 DEF Unequal
    <3> QED BY <3>2, <3>4, <3>5, CostStep
  <2>3. CASE hd = <<>> /\ Len(rtl) >= 2
    <3> DEFINE h == HalfRev(rtl)
    <3>1. rtl \in Seq(Value) /\ Len(rtl) \in Nat /\ Len(hd) = 0
      BY <2>3 DEF TypeOK
    <3>2. /\ hd' = Tail(h[1]) /\ rtl' = h[2] /\ result' = Head(h[1])
          /\ Costs(2 * Len(rtl))
      BY <1>4, <2>3 DEF QUncons, HalfRevCost
    <3>3. /\ h[1] \in Seq(Value) /\ h[2] \in Seq(Value)
          /\ Len(h[1]) \in Nat /\ Len(h[2]) \in Nat
          /\ Len(h[1]) + Len(h[2]) = Len(rtl)
          /\ Len(h[2]) = Len(h[1]) \/ Len(h[2]) = Len(h[1]) + 1
      BY <3>1, HalfRevProperties
    <3> HIDE DEF h
    <3>4. /\ Len(h[1]) >= 1 /\ Head(h[1]) \in Value
          /\ Tail(h[1]) \in Seq(Value) /\ Len(Tail(h[1])) = Len(h[1]) - 1
      <4>1. Len(h[1]) >= 1
        BY <2>3, <3>1, <3>3, HalfNumbers
      <4>2. h[1] # <<>>
        BY <4>1, <3>3
      <4> QED BY <4>1, <4>2, <3>3
    <3>5. TypeOK'
      BY <3>1, <3>2, <3>3, <3>4 DEF Costs, TypeOK
    <3>6. 2 * Len(rtl) \in Nat /\ 2 * Len(rtl) + 2 * Unequal' <= 2 * Unequal + 4
      <4>1. Unequal = Len(rtl)
        BY <2>3, <3>1 DEF Unequal
      <4>2. Unequal' \in 0..2
        BY <3>2, <3>3, <3>4 DEF Unequal
      <4> QED BY <3>1, <4>1, <4>2
    <3> QED BY <3>2, <3>5, <3>6, CostStep
  <2> QED BY <2>1, <2>2, <2>3, <1>4 DEF QUncons
<1>5. ASSUME QUnsnoc PROVE Inv'
  <2>1. CASE rtl # <<>>
    <3>1. /\ Head(rtl) \in Value /\ Tail(rtl) \in Seq(Value)
          /\ Len(Tail(rtl)) = Len(rtl) - 1 /\ Len(rtl) \in Nat /\ Len(hd) \in Nat
      BY <2>1 DEF TypeOK
    <3>2. rtl' = Tail(rtl) /\ hd' = hd /\ Costs(0) /\ result' = Head(rtl)
      BY <1>5, <2>1 DEF QUnsnoc
    <3>3. TypeOK'
      BY <3>1, <3>2 DEF Costs, TypeOK
    <3>4. 0 + 2 * Unequal' <= 2 * Unequal + 4
      BY <3>1, <3>2 DEF Unequal
    <3> QED BY <3>2, <3>3, <3>4, CostStep
  <2>2. CASE rtl = <<>> /\ Len(hd) < 2
    <3>1. /\ Len(hd) \in Nat /\ Len(rtl) = 0
          /\ hd # <<>> => Head(hd) \in Value
      BY <2>2 DEF TypeOK
    <3>2. rtl' = <<>> /\ hd' = <<>> /\ Costs(0)
      BY <1>5, <2>2 DEF QUnsnoc
    <3>3. result' \in Value \cup {Default, QueueError}
      BY <1>5, <2>2, <3>1 DEF QUnsnoc
    <3>4. TypeOK'
      BY <3>2, <3>3 DEF Costs, TypeOK
    <3>5. 0 + 2 * Unequal' <= 2 * Unequal + 4
      BY <2>2, <3>1, <3>2 DEF Unequal
    <3> QED BY <3>2, <3>4, <3>5, CostStep
  <2>3. CASE rtl = <<>> /\ Len(hd) >= 2
    <3> DEFINE h == HalfRev(hd)
    <3>1. hd \in Seq(Value) /\ Len(hd) \in Nat /\ Len(rtl) = 0
      BY <2>3 DEF TypeOK
    <3>2. /\ rtl' = Tail(h[1]) /\ hd' = h[2] /\ result' = Head(h[1])
          /\ Costs(2 * Len(hd))
      BY <1>5, <2>3 DEF QUnsnoc, HalfRevCost
    <3>3. /\ h[1] \in Seq(Value) /\ h[2] \in Seq(Value)
          /\ Len(h[1]) \in Nat /\ Len(h[2]) \in Nat
          /\ Len(h[1]) + Len(h[2]) = Len(hd)
          /\ Len(h[2]) = Len(h[1]) \/ Len(h[2]) = Len(h[1]) + 1
      BY <3>1, HalfRevProperties
    <3> HIDE DEF h
    <3>4. /\ Len(h[1]) >= 1 /\ Head(h[1]) \in Value
          /\ Tail(h[1]) \in Seq(Value) /\ Len(Tail(h[1])) = Len(h[1]) - 1
      <4>1. Len(h[1]) >= 1
        BY <2>3, <3>1, <3>3, HalfNumbers
      <4>2. h[1] # <<>>
        BY <4>1, <3>3
      <4> QED BY <4>1, <4>2, <3>3
    <3>5. TypeOK'
      BY <3>1, <3>2, <3>3, <3>4 DEF Costs, TypeOK
    <3>6. 2 * Len(hd) \in Nat /\ 2 * Len(hd) + 2 * Unequal' <= 2 * Unequal + 4
      <4>1. Unequal = Len(hd)
        BY <2>3, <3>1 DEF Unequal
      <4>2. Unequal' \in 0..2
        BY <3>2, <3>3, <3>4 DEF Unequal
      <4> QED BY <3>1, <4>1, <4>2
    <3> QED BY <3>2, <3>5, <3>6, CostStep
  <2> QED BY <2>1, <2>2, <2>3, <1>5 DEF QUnsnoc
<1>6. ASSUME QCar PROVE Inv'
  <2>1. CASE hd # <<>>
    <3>1. /\ Head(hd) \in Value /\ Tail(hd) \in Seq(Value)
          /\ Len(Tail(hd)) = Len(hd) - 1 /\ Len(hd) \in Nat /\ Len(rtl) \in Nat
      BY <2>1 DEF TypeOK
    <3>2. hd' = hd /\ rtl' = rtl /\ Costs(0) /\ result' = Head(hd)
      BY <1>6, <2>1 DEF QCar
    <3>3. TypeOK'
      BY <3>1, <3>2 DEF Costs, TypeOK
    <3>4. 0 + 2 * Unequal' <= 2 * Unequal + 4
      BY <3>1, <3>2 DEF Unequal
    <3> QED BY <3>2, <3>3, <3>4, CostStep
  <2>2. CASE hd = <<>> /\ Len(rtl) < 2
    <3>1. Len(rtl) \in 0..1 /\ Len(hd) = 0
      <4>1. Len(rtl) \in Nat
        BY DEF TypeOK
      <4>2. Len(rtl) \in 0..1
        <5> DEFINE n == Len(rtl)
        <5>1. n \in Nat /\ n < 2
          BY <2>2, <4>1
        <5> HIDE DEF n
        <5>2. n \in 0..1
          BY <5>1
        <5> QED BY <5>2 DEF n
      <4>3. Len(hd) = 0
        BY <2>2
      <4> QED BY <4>2, <4>3
    <3>2. UNCHANGED <<hd, rtl>> /\ result' = QueueError /\ Costs(2 * Len(rtl))
      BY <1>6, <2>2 DEF QCar, HalfRevCost
    <3>3. TypeOK'
      BY <3>1, <3>2 DEF Costs, TypeOK
    <3>4. 2 * Len(rtl) \in Nat /\ 2 * Len(rtl) + 2 * Unequal' <= 2 * Unequal + 4
      <4> DEFINE u == Unequal
                 n == Len(rtl)
      <4>1. Unequal' = u /\ u \in Nat /\ n \in 0..1
        BY <3>1, <3>2 DEF Unequal, TypeOK
      <4> HIDE DEF u, n
      <4>2. 2 * n \in Nat /\ 2 * n + 2 * u <= 2 * u + 4
        BY <4>1
      <4> QED BY <4>1, <4>2 DEF u, n
    <3> QED BY <3>2, <3>3, <3>4, CostStep
  <2>3. CASE hd = <<>> /\ Len(rtl) >= 2
    <3> DEFINE h == HalfRev(rtl)
    <3>1. rtl \in Seq(Value) /\ Len(rtl) \in Nat /\ Len(hd) = 0
      BY <2>3 DEF TypeOK
    <3>2. /\ hd' = h[1] /\ rtl' = h[2] /\ result' = Head(h[1])
          /\ Costs(2 * Len(rtl))
      BY <1>6, <2>3 DEF QCar, HalfRevCost
    <3>3. /\ h[1] \in Seq(Value) /\ h[2] \in Seq(Value)
          /\ Len(h[1]) \in Nat /\ Len(h[2]) \in Nat
          /\ Len(h[1]) + Len(h[2]) = Len(rtl)
          /\ Len(h[2]) = Len(h[1]) \/ Len(h[2]) = Len(h[1]) + 1
      BY <3>1, HalfRevProperties
    <3> HIDE DEF h
    <3>4. /\ Len(h[1]) >= 1 /\ Head(h[1]) \in Value
          /\ Tail(h[1]) \in Seq(Value) /\ Len(Tail(h[1])) = Len(h[1]) - 1
      <4>1. Len(h[1]) >= 1
        BY <2>3, <3>1, <3>3, HalfNumbers
      <4>2. h[1] # <<>>
        BY <4>1, <3>3
      <4> QED BY <4>1, <4>2, <3>3
    <3>5. TypeOK'
      BY <3>1, <3>2, <3>3, <3>4 DEF Costs, TypeOK
    <3>6. 2 * Len(rtl) \in Nat /\ 2 * Len(rtl) + 2 * Unequal' <= 2 * Unequal + 4
      <4>1. Unequal = Len(rtl)
        BY <2>3, <3>1 DEF Unequal
      <4>2. Unequal' \in 0..2
        BY <3>2, <3>3, <3>4 DEF Unequal
      <4> QED BY <3>1, <4>1, <4>2
    <3> QED BY <3>2, <3>5, <3>6, CostStep
  <2> QED BY <2>1, <2>2, <2>3, <1>6 DEF QCar
<1>7. ASSUME QRac PROVE Inv'
  <2>1. CASE rtl # <<>>
    <3>1. /\ Head(rtl) \in Value /\ Tail(rtl) \in Seq(Value)
          /\ Len(Tail(rtl)) = Len(rtl) - 1 /\ Len(rtl) \in Nat /\ Len(hd) \in Nat
      BY <2>1 DEF TypeOK
    <3>2. rtl' = rtl /\ hd' = hd /\ Costs(0) /\ result' = Head(rtl)
      BY <1>7, <2>1 DEF QRac
    <3>3. TypeOK'
      BY <3>1, <3>2 DEF Costs, TypeOK
    <3>4. 0 + 2 * Unequal' <= 2 * Unequal + 4
      BY <3>1, <3>2 DEF Unequal
    <3> QED BY <3>2, <3>3, <3>4, CostStep
  <2>2. CASE rtl = <<>> /\ Len(hd) < 2
    <3>1. Len(hd) \in 0..1 /\ Len(rtl) = 0
      <4>1. Len(hd) \in Nat
        BY DEF TypeOK
      <4>2. Len(hd) \in 0..1
        <5> DEFINE n == Len(hd)
        <5>1. n \in Nat /\ n < 2
          BY <2>2, <4>1
        <5> HIDE DEF n
        <5>2. n \in 0..1
          BY <5>1
        <5> QED BY <5>2 DEF n
      <4>3. Len(rtl) = 0
        BY <2>2
      <4> QED BY <4>2, <4>3
    <3>2. UNCHANGED <<hd, rtl>> /\ result' = QueueError /\ Costs(2 * Len(hd))
      BY <1>7, <2>2 DEF QRac, HalfRevCost
    <3>3. TypeOK'
      BY <3>1, <3>2 DEF Costs, TypeOK
    <3>4. 2 * Len(hd) \in Nat /\ 2 * Len(hd) + 2 * Unequal' <= 2 * Unequal + 4
      <4> DEFINE u == Unequal
                 n == Len(hd)
      <4>1. Unequal' = u /\ u \in Nat /\ n \in 0..1
        BY <3>1, <3>2 DEF Unequal, TypeOK
      <4> HIDE DEF u, n
      <4>2. 2 * n \in Nat /\ 2 * n + 2 * u <= 2 * u + 4
        BY <4>1
      <4> QED BY <4>1, <4>2 DEF u, n
    <3> QED BY <3>2, <3>3, <3>4, CostStep
  <2>3. CASE rtl = <<>> /\ Len(hd) >= 2
    <3> DEFINE h == HalfRev(hd)
    <3>1. hd \in Seq(Value) /\ Len(hd) \in Nat /\ Len(rtl) = 0
      BY <2>3 DEF TypeOK
    <3>2. /\ rtl' = h[1] /\ hd' = h[2] /\ result' = Head(h[1])
          /\ Costs(2 * Len(hd))
      BY <1>7, <2>3 DEF QRac, HalfRevCost
    <3>3. /\ h[1] \in Seq(Value) /\ h[2] \in Seq(Value)
          /\ Len(h[1]) \in Nat /\ Len(h[2]) \in Nat
          /\ Len(h[1]) + Len(h[2]) = Len(hd)
          /\ Len(h[2]) = Len(h[1]) \/ Len(h[2]) = Len(h[1]) + 1
      BY <3>1, HalfRevProperties
    <3> HIDE DEF h
    <3>4. /\ Len(h[1]) >= 1 /\ Head(h[1]) \in Value
          /\ Tail(h[1]) \in Seq(Value) /\ Len(Tail(h[1])) = Len(h[1]) - 1
      <4>1. Len(h[1]) >= 1
        BY <2>3, <3>1, <3>3, HalfNumbers
      <4>2. h[1] # <<>>
        BY <4>1, <3>3
      <4> QED BY <4>1, <4>2, <3>3
    <3>5. TypeOK'
      BY <3>1, <3>2, <3>3, <3>4 DEF Costs, TypeOK
    <3>6. 2 * Len(hd) \in Nat /\ 2 * Len(hd) + 2 * Unequal' <= 2 * Unequal + 4
      <4>1. Unequal = Len(hd)
        BY <2>3, <3>1 DEF Unequal
      <4>2. Unequal' \in 0..2
        BY <3>2, <3>3, <3>4 DEF Unequal
      <4> QED BY <3>1, <4>1, <4>2
    <3> QED BY <3>2, <3>5, <3>6, CostStep
  <2> QED BY <2>1, <2>2, <2>3, <1>7 DEF QRac
<1> QED BY <1>1, <1>2, <1>3, <1>4, <1>5, <1>6, <1>7 DEF QueueNext

\* Every variable keeps its type.
\* Every variable keeps its type.
THEOREM TypeCorrect == QueueSpec => []TypeOK
<1>1. Inv => TypeOK
  BY DEF Inv
<1> QED BY <1>1, InitInv, NextInv, PTL DEF QueueSpec

\* Operations on a queue cost five steps each on the average, however long
\* the queue is: half-rev of libraries/owl/queue.scm keeps both ends near.
THEOREM AmortizedConstant == QueueSpec => []EndsStayNear
<1>1. Inv => EndsStayNear
  <2> SUFFICES ASSUME Inv PROVE EndsStayNear
    OBVIOUS
  <2> DEFINE u == Unequal
  <2>1. u \in Nat /\ work \in Nat /\ opsDone \in Nat /\ work + 2 * u <= 5 * opsDone
    BY DEF Inv, TypeOK, Saved, Unequal
  <2> HIDE DEF u
  <2> QED BY <2>1 DEF EndsStayNear
<1> QED BY <1>1, InitInv, NextInv, PTL DEF QueueSpec

------------------------------------------------------------------------------
(* The queue implements a sequence.                                        *)

LEMMA ReverseEmpty == Reverse(<<>>) = <<>>
<1>1. Reverse(<<>>) \in Seq({}) /\ Len(Reverse(<<>>)) = 0
  <2>1. <<>> \in Seq({}) /\ Len(<<>>) = 0
    OBVIOUS
  <2> QED BY <2>1, ReverseProperties
<1> QED BY <1>1, EmptySeq

LEMMA ContentsType == TypeOK => Contents \in Seq(Value)
<1> SUFFICES ASSUME TypeOK PROVE Contents \in Seq(Value)
  OBVIOUS
<1>1. hd \in Seq(Value) /\ rtl \in Seq(Value)
  BY DEF TypeOK
<1>2. Reverse(rtl) \in Seq(Value)
  BY <1>1, ReverseProperties
<1> QED BY <1>1, <1>2, ConcatProperties DEF Contents

\* The contents are shorter than two values when one list is empty and the
\* other one is.
LEMMA ContentsLen ==
    ASSUME TypeOK
    PROVE  Len(Contents) = Len(hd) + Len(rtl)
<1>1. hd \in Seq(Value) /\ rtl \in Seq(Value)
  BY DEF TypeOK
<1> DEFINE r == Reverse(rtl)
<1>2. r \in Seq(Value) /\ Len(r) = Len(rtl)
  BY <1>1, ReverseProperties
<1> HIDE DEF r
<1>3. Len(hd \o r) = Len(hd) + Len(r)
  BY <1>1, <1>2, ConcatProperties
<1> QED BY <1>2, <1>3 DEF Contents, r

\* Seen from the front, when the first list is not empty.
LEMMA FrontView ==
    ASSUME TypeOK, hd # <<>>
    PROVE  /\ Contents # <<>> /\ Head(Contents) = Head(hd)
           /\ Tail(Contents) = Tail(hd) \o Reverse(rtl)
<1>1. hd \in Seq(Value) /\ rtl \in Seq(Value)
  BY DEF TypeOK
<1>2. Reverse(rtl) \in Seq(Value)
  BY <1>1, ReverseProperties
<1> QED BY <1>1, <1>2, FirstOfLists DEF Contents

\* Seen from the back, when the second list is not empty.
LEMMA BackView ==
    ASSUME TypeOK, rtl # <<>>
    PROVE  /\ Contents # <<>> /\ Contents[Len(Contents)] = Head(rtl)
           /\ SubSeq(Contents, 1, Len(Contents) - 1) = hd \o Reverse(Tail(rtl))
BY LastOfLists DEF Contents, TypeOK

\* After half-rev the same values are seen from both ends.
LEMMA HalvedFront ==
    ASSUME TypeOK, hd = <<>>, Len(rtl) >= 2
    PROVE  LET h == HalfRev(rtl)
           IN  /\ Contents = h[1] \o Reverse(h[2])
               /\ Contents # <<>> /\ Head(Contents) = Head(h[1])
               /\ Tail(Contents) = Tail(h[1]) \o Reverse(h[2])
<1> DEFINE h == HalfRev(rtl)
<1>1. rtl \in Seq(Value) /\ Len(rtl) \in Nat
  BY DEF TypeOK
<1>2. /\ h[1] \in Seq(Value) /\ h[2] \in Seq(Value)
      /\ Len(h[1]) \in Nat /\ Len(h[2]) \in Nat
      /\ Len(h[1]) + Len(h[2]) = Len(rtl)
      /\ Len(h[2]) = Len(h[1]) \/ Len(h[2]) = Len(h[1]) + 1
      /\ h[1] \o Reverse(h[2]) = Reverse(rtl)
  BY <1>1, HalfRevProperties
<1> HIDE DEF h
<1>3. Contents = Reverse(rtl)
  <2>1. Reverse(rtl) \in Seq(Value)
    BY <1>1, ReverseProperties
  <2> QED BY <2>1, ConcatEmptySeq DEF Contents
<1>4. Len(h[1]) >= 1
  BY <1>1, <1>2, HalfNumbers
<1>5. h[1] # <<>>
  BY <1>2, <1>4
<1>6. Reverse(h[2]) \in Seq(Value)
  BY <1>2, ReverseProperties
<1>7. /\ h[1] \o Reverse(h[2]) # <<>>
      /\ Head(h[1] \o Reverse(h[2])) = Head(h[1])
      /\ Tail(h[1] \o Reverse(h[2])) = Tail(h[1]) \o Reverse(h[2])
  BY <1>2, <1>5, <1>6, FirstOfLists
<1>8. Contents = h[1] \o Reverse(h[2])
  BY <1>2, <1>3
<1> QED BY <1>7, <1>8 DEF h

LEMMA HalvedBack ==
    ASSUME TypeOK, rtl = <<>>, Len(hd) >= 2
    PROVE  LET h == HalfRev(hd)
           IN  /\ Contents = h[2] \o Reverse(h[1])
               /\ Contents # <<>> /\ Contents[Len(Contents)] = Head(h[1])
               /\ SubSeq(Contents, 1, Len(Contents) - 1) = h[2] \o Reverse(Tail(h[1]))
<1> DEFINE h == HalfRev(hd)
<1>1. hd \in Seq(Value) /\ Len(hd) \in Nat
  BY DEF TypeOK
<1>2. /\ h[1] \in Seq(Value) /\ h[2] \in Seq(Value)
      /\ Len(h[1]) \in Nat /\ Len(h[2]) \in Nat
      /\ Len(h[1]) + Len(h[2]) = Len(hd)
      /\ Len(h[2]) = Len(h[1]) \/ Len(h[2]) = Len(h[1]) + 1
      /\ h[2] \o Reverse(h[1]) = hd
  BY <1>1, HalfRevProperties
<1> HIDE DEF h
<1>3. Contents = hd
  BY <1>1, ReverseEmpty, ConcatEmptySeq DEF Contents
<1>4. Len(h[1]) >= 1
  BY <1>1, <1>2, HalfNumbers
<1>5. h[1] # <<>>
  BY <1>2, <1>4
<1>6. LET c == h[2] \o Reverse(h[1])
      IN  /\ c # <<>> /\ c[Len(c)] = Head(h[1])
          /\ SubSeq(c, 1, Len(c) - 1) = h[2] \o Reverse(Tail(h[1]))
  <2> DEFINE s == h[2]
             t == h[1]
  <2>1. s \in Seq(Value) /\ t \in Seq(Value) /\ t # <<>>
    BY <1>2, <1>5
  <2> HIDE DEF s, t
  <2>2. LET c == s \o Reverse(t)
        IN  /\ c # <<>> /\ c[Len(c)] = Head(t)
            /\ SubSeq(c, 1, Len(c) - 1) = s \o Reverse(Tail(t))
    BY <2>1, LastOfLists
  <2> QED BY <2>2 DEF s, t
<1>7. Contents = h[2] \o Reverse(h[1])
  BY <1>2, <1>3
<1> QED BY <1>6, <1>7 DEF h

LEMMA Singleton ==
    ASSUME NEW s \in Seq(Value), s # <<>>, Len(s) < 2
    PROVE  \E a \in Value : s = <<a>>
<1>1. Len(s) \in Nat /\ Len(s) # 0
  BY EmptySeq
<1>2. Len(s) = 1
  <2> DEFINE n == Len(s)
  <2>1. n \in Nat /\ n # 0 /\ n < 2
    BY <1>1
  <2> HIDE DEF n
  <2>2. n = 1
    BY <2>1
  <2> QED BY <2>2 DEF n
<1>3. s[1] \in Value
  BY <1>2
<1>4. <<s[1]>> \in Seq(Value) /\ Len(<<s[1]>>) = 1 /\ <<s[1]>>[1] = s[1]
  BY <1>3
<1>5. s = <<s[1]>>
  BY <1>2, <1>4, SeqEqual
<1> QED BY <1>3, <1>5

LEMMA RefInit == QueueInit => Sequence!Init
<1> SUFFICES ASSUME QueueInit PROVE Sequence!Init
  OBVIOUS
<1>1. Contents \in Seq(Value)
  BY InitInv, ContentsType DEF Inv
<1> QED BY <1>1 DEF QueueInit, Sequence!Init

LEMMA RefQCons ==
    ASSUME TypeOK, NEW a \in Value, QCons(a)
    PROVE  Sequence!PutFirst(a)
<1>1. hd \in Seq(Value) /\ rtl \in Seq(Value) /\ <<a>> \in Seq(Value)
  BY DEF TypeOK
<1>2. Reverse(rtl) \in Seq(Value)
  BY <1>1, ReverseProperties
<1>3. (<<a>> \o hd) \o Reverse(rtl) = <<a>> \o (hd \o Reverse(rtl))
  BY <1>1, <1>2, ConcatAssociative
<1>4. hd' = <<a>> \o hd /\ rtl' = rtl /\ result' = result
  BY DEF QCons, Cons
<1> QED BY <1>3, <1>4 DEF Contents, Sequence!PutFirst

LEMMA RefQSnoc ==
    ASSUME TypeOK, NEW a \in Value, QSnoc(a)
    PROVE  Sequence!PutLast(a)
<1>1. hd \in Seq(Value) /\ rtl \in Seq(Value) /\ <<a>> \in Seq(Value)
  BY DEF TypeOK
<1>2. Reverse(rtl) \in Seq(Value)
  BY <1>1, ReverseProperties
<1>3. Reverse(<<a>> \o rtl) = Reverse(rtl) \o <<a>>
  <2>1. Reverse(<<a>>) = <<a>>
    BY ReverseSmall
  <2>2. Reverse(<<a>> \o rtl) = Reverse(rtl) \o Reverse(<<a>>)
    BY <1>1, ReverseConcat
  <2> QED BY <2>1, <2>2
<1>4. hd \o (Reverse(rtl) \o <<a>>) = Contents \o <<a>>
  BY <1>1, <1>2, ConcatAssociative DEF Contents
<1>5. Contents \o <<a>> = Append(Contents, a)
  BY ContentsType, AppendIsConcat
<1>6. hd' = hd /\ rtl' = <<a>> \o rtl /\ result' = result
  BY DEF QSnoc, Cons
<1>7. Contents' = hd \o Reverse(<<a>> \o rtl)
  BY <1>6 DEF Contents
<1> QED BY <1>3, <1>4, <1>5, <1>6, <1>7 DEF Sequence!PutLast

LEMMA RefQUncons ==
    ASSUME TypeOK, QUncons
    PROVE  Sequence!TakeFirst
<1> USE DEF Sequence!TakeFirst
<1>1. CASE hd # <<>>
  <2>1. hd' = Tail(hd) /\ rtl' = rtl /\ result' = Head(hd)
    BY <1>1 DEF QUncons
  <2>2. Contents' = Tail(hd) \o Reverse(rtl)
    BY <2>1 DEF Contents
  <2> QED BY <1>1, <2>1, <2>2, FrontView
<1>2. CASE hd = <<>> /\ rtl = <<>>
  <2>1. hd' = <<>> /\ rtl' = <<>> /\ result' = Default
    BY <1>2 DEF QUncons
  <2>2. Contents = <<>> /\ Contents' = Contents
    BY <1>2, <2>1, ReverseEmpty DEF Contents
  <2> QED BY <2>1, <2>2
<1>3. CASE hd = <<>> /\ rtl # <<>> /\ Len(rtl) < 2
  <2>1. hd' = <<>> /\ rtl' = <<>> /\ result' = Head(rtl)
    BY <1>3 DEF QUncons
  <2>2. PICK a \in Value : rtl = <<a>>
    BY <1>3 DEF TypeOK
  <2>3. Contents = <<a>> /\ Contents' = <<>>
    BY <1>3, <2>1, <2>2, ReverseSmall, ReverseEmpty DEF Contents
  <2> QED BY <2>1, <2>2, <2>3
<1>4. CASE hd = <<>> /\ Len(rtl) >= 2
  <2> DEFINE h == HalfRev(rtl)
  <2>1. hd' = Tail(h[1]) /\ rtl' = h[2] /\ result' = Head(h[1])
    BY <1>4 DEF QUncons, TypeOK
  <2>2. Contents' = Tail(h[1]) \o Reverse(h[2])
    BY <2>1 DEF Contents
  <2> HIDE DEF h
  <2>3. /\ Contents # <<>> /\ Head(Contents) = Head(h[1])
        /\ Tail(Contents) = Tail(h[1]) \o Reverse(h[2])
    BY <1>4, HalvedFront DEF h
  <2> QED BY <2>1, <2>2, <2>3
<1> QED BY <1>1, <1>2, <1>3, <1>4 DEF QUncons

LEMMA RefQUnsnoc ==
    ASSUME TypeOK, QUnsnoc
    PROVE  Sequence!TakeLast
<1> USE DEF Sequence!TakeLast, Sequence!LastOf, Sequence!ButLast
<1>1. CASE rtl # <<>>
  <2>1. rtl' = Tail(rtl) /\ hd' = hd /\ result' = Head(rtl)
    BY <1>1 DEF QUnsnoc
  <2>2. Contents' = hd \o Reverse(Tail(rtl))
    BY <2>1 DEF Contents
  <2> QED BY <1>1, <2>1, <2>2, BackView
<1>2. CASE rtl = <<>> /\ hd = <<>>
  <2>1. hd' = <<>> /\ rtl' = <<>> /\ result' = Default
    BY <1>2 DEF QUnsnoc
  <2>2. Contents = <<>> /\ Contents' = Contents
    BY <1>2, <2>1, ReverseEmpty DEF Contents
  <2> QED BY <2>1, <2>2
<1>3. CASE rtl = <<>> /\ hd # <<>> /\ Len(hd) < 2
  <2>1. hd' = <<>> /\ rtl' = <<>> /\ result' = Head(hd)
    BY <1>3 DEF QUnsnoc
  <2>2. PICK a \in Value : hd = <<a>>
    BY <1>3, Singleton DEF TypeOK
  <2>3. hd \o <<>> = hd /\ <<>> \o <<>> = <<>>
    BY ConcatEmptySeq DEF TypeOK
  <2>4. Contents = <<a>> /\ Contents' = <<>>
    BY <1>3, <2>1, <2>2, <2>3, ReverseEmpty DEF Contents
  <2>5. /\ SubSeq(<<a>>, 1, 0) = <<>> /\ Len(<<a>>) = 1 /\ <<a>>[1] = a
        /\ Head(<<a>>) = a /\ <<a>> # <<>>
    OBVIOUS
  <2> QED BY <2>1, <2>2, <2>4, <2>5
<1>4. CASE rtl = <<>> /\ Len(hd) >= 2
  <2> DEFINE h == HalfRev(hd)
  <2>1. rtl' = Tail(h[1]) /\ hd' = h[2] /\ result' = Head(h[1])
    BY <1>4 DEF QUnsnoc, TypeOK
  <2>2. Contents' = h[2] \o Reverse(Tail(h[1]))
    BY <2>1 DEF Contents
  <2> HIDE DEF h
  <2>3. /\ Contents # <<>> /\ Contents[Len(Contents)] = Head(h[1])
        /\ SubSeq(Contents, 1, Len(Contents) - 1) = h[2] \o Reverse(Tail(h[1]))
    BY <1>4, HalvedBack DEF h
  <2> QED BY <2>1, <2>2, <2>3
<1> QED BY <1>1, <1>2, <1>3, <1>4 DEF QUnsnoc

LEMMA RefQCar ==
    ASSUME TypeOK, QCar
    PROVE  Sequence!Peek
<1> USE DEF Sequence!Peek
<1>1. CASE hd # <<>>
  <2>1. UNCHANGED <<hd, rtl>> /\ result' = Head(hd)
    BY <1>1 DEF QCar
  <2> QED BY <1>1, <2>1, FrontView DEF Contents
<1>2. CASE hd = <<>> /\ Len(rtl) < 2
  <2>1. UNCHANGED <<hd, rtl>> /\ result' = QueueError
    BY <1>2 DEF QCar
  <2>2. Len(Contents) < 2
    <3>1. Len(Contents) = 0 + Len(rtl)
      BY <1>2, ContentsLen
    <3>2. Len(rtl) \in Nat
      BY DEF TypeOK
    <3> QED BY <1>2, <3>1, <3>2
  <2> QED BY <2>1, <2>2 DEF Contents
<1>3. CASE hd = <<>> /\ Len(rtl) >= 2
  <2> DEFINE h == HalfRev(rtl)
  <2>1. hd' = h[1] /\ rtl' = h[2] /\ result' = Head(h[1])
    BY <1>3 DEF QCar, TypeOK
  <2>2. Contents' = h[1] \o Reverse(h[2])
    BY <2>1 DEF Contents
  <2> HIDE DEF h
  <2>3. /\ Contents = h[1] \o Reverse(h[2])
        /\ Contents # <<>> /\ Head(Contents) = Head(h[1])
    BY <1>3, HalvedFront DEF h
  <2> QED BY <2>1, <2>2, <2>3
<1> QED BY <1>1, <1>2, <1>3 DEF QCar

LEMMA RefQRac ==
    ASSUME TypeOK, QRac
    PROVE  Sequence!Peek
<1> USE DEF Sequence!Peek, Sequence!LastOf
<1>1. CASE rtl # <<>>
  <2>1. UNCHANGED <<hd, rtl>> /\ result' = Head(rtl)
    BY <1>1 DEF QRac
  <2> QED BY <1>1, <2>1, BackView DEF Contents
<1>2. CASE rtl = <<>> /\ Len(hd) < 2
  <2>1. UNCHANGED <<hd, rtl>> /\ result' = QueueError
    BY <1>2 DEF QRac
  <2>2. Len(Contents) < 2
    <3>1. Len(Contents) = Len(hd) + 0
      BY <1>2, ContentsLen
    <3>2. Len(hd) \in Nat
      BY DEF TypeOK
    <3> QED BY <1>2, <3>1, <3>2
  <2> QED BY <2>1, <2>2 DEF Contents
<1>3. CASE rtl = <<>> /\ Len(hd) >= 2
  <2> DEFINE h == HalfRev(hd)
  <2>1. rtl' = h[1] /\ hd' = h[2] /\ result' = Head(h[1])
    BY <1>3 DEF QRac, TypeOK
  <2>2. Contents' = h[2] \o Reverse(h[1])
    BY <2>1 DEF Contents
  <2> HIDE DEF h
  <2>3. /\ Contents = h[2] \o Reverse(h[1])
        /\ Contents # <<>> /\ Contents[Len(Contents)] = Head(h[1])
    BY <1>3, HalvedBack DEF h
  <2> QED BY <2>1, <2>2, <2>3
<1> QED BY <1>1, <1>2, <1>3 DEF QRac

LEMMA RefNext ==
    TypeOK /\ [QueueNext]_queueVars => [Sequence!Next]_(Sequence!dequeVars)
<1> SUFFICES ASSUME TypeOK, [QueueNext]_queueVars
             PROVE  [Sequence!Next]_(Sequence!dequeVars)
  OBVIOUS
<1>1. CASE UNCHANGED queueVars
  BY <1>1 DEF queueVars, Sequence!dequeVars, Contents
<1>2. CASE QueueNext
  <2>1. ASSUME NEW a \in Value, QCons(a) PROVE Sequence!Next
    BY <2>1, RefQCons DEF Sequence!Next
  <2>2. ASSUME NEW a \in Value, QSnoc(a) PROVE Sequence!Next
    BY <2>2, RefQSnoc DEF Sequence!Next
  <2>3. CASE QUncons
    BY <2>3, RefQUncons DEF Sequence!Next
  <2>4. CASE QUnsnoc
    BY <2>4, RefQUnsnoc DEF Sequence!Next
  <2>5. CASE QCar
    BY <2>5, RefQCar DEF Sequence!Next
  <2>6. CASE QRac
    BY <2>6, RefQRac DEF Sequence!Next
  <2> QED BY <1>2, <2>1, <2>2, <2>3, <2>4, <2>5, <2>6 DEF QueueNext
<1> QED BY <1>1, <1>2

\* Queues of any length, used in any way, are sequences with two ends.
THEOREM QueueIsASequence == QueueSpec => ImplementsDeque
<1>1. QueueInit /\ [][QueueNext]_queueVars /\ []TypeOK => Sequence!Init /\ [][Sequence!Next]_(Sequence!dequeVars)
  BY RefInit, RefNext, PTL
<1> QED BY <1>1, TypeCorrect, PTL DEF QueueSpec, ImplementsDeque, Sequence!Spec

------------------------------------------------------------------------------
(* The loop of half-rev.                                                   *)

\* A set of numbers has a least one.
LEMMA LeastNumber ==
  ASSUME NEW T, T \subseteq Nat, T # {}
  PROVE \E x \in T : \A y \in T : x <= y
<1> DEFINE R == OpToRel(<, Nat)
<1>1. IsWellFoundedOn(R, Nat)
  BY NatLessThanWellFounded
<1>2. \A x, y \in Nat : <<x, y>> \in R <=> x < y
  BY DEF OpToRel
<1> HIDE DEF R
<1>3. PICK x \in T : \A y \in T : ~ (<<y, x>> \in R)
  BY <1>1, WFMin
<1>4. ASSUME NEW y \in T PROVE x <= y
  <2>1. x \in Nat /\ y \in Nat
    BY <1>3
  <2>2. ~ (x > y) => x <= y
    BY <2>1
  <2>3. ~ (y < x)
    BY <1>2, <1>3, <2>1
  <2> QED BY <2>1, <2>3
<1> QED BY <1>4

\* SetInduction, with the set of the numbers for which something is shown.
LEMMA SetInduction ==
  ASSUME NEW S, 0 \in S, \A n \in Nat : n \in S => n + 1 \in S
  PROVE Nat \subseteq S
<1> SUFFICES ASSUME Nat \ S # {} PROVE FALSE
  OBVIOUS
<1>1. PICK x \in Nat \ S : \A y \in Nat \ S : x <= y
  BY LeastNumber
<1>2. x # 0 /\ x - 1 \in Nat /\ x - 1 \notin Nat \ S
  BY <1>1
<1> QED BY <1>1, <1>2

\* What a turn of the loop makes of the two lists.
Walk(at, list, i) ==
    IF i = 0 THEN [l |-> list, o |-> <<>>]
    ELSE IF i % 2 = 0 THEN at[i - 1]
    ELSE [l |-> Tail(at[i - 1].l), o |-> Cons(Head(at[i - 1].l), at[i - 1].o)]

\* What is left of the list after i turns, and what was passed.
Passed(list, i) ==
    LET k == (i + 1) \div 2
    IN  [l |-> SubSeq(list, k + 1, Len(list)), o |-> Reverse(SubSeq(list, 1, k))]

\* A value moved from what is left of the list to what was passed.
LEMMA OneMore ==
  ASSUME NEW S, NEW s \in Seq(S), NEW k \in 0..(Len(s) - 1)
  PROVE  LET front == SubSeq(s, 1, k)
             back  == SubSeq(s, k + 1, Len(s))
         IN  /\ Tail(back) = SubSeq(s, k + 2, Len(s))
             /\ Cons(Head(back), Reverse(front)) = Reverse(SubSeq(s, 1, k + 1))
<1> DEFINE n == Len(s)
           front == SubSeq(s, 1, k)
           back  == SubSeq(s, k + 1, Len(s))
           more  == SubSeq(s, 1, k + 1)
<1>1. n \in Nat /\ k \in Nat /\ k + 1 \in 1..n
  OBVIOUS
<1>2. /\ back \in Seq(S) /\ Len(back) = n - k /\ \A i \in 1..(n - k) : back[i] = s[i + k]
      /\ front \in Seq(S) /\ Len(front) = k /\ \A i \in 1..k : front[i] = s[i]
      /\ more \in Seq(S) /\ Len(more) = k + 1 /\ \A i \in 1..(k + 1) : more[i] = s[i]
  BY <1>1
<1> DEFINE b2 == SubSeq(s, k + 2, n)
<1>3. b2 \in Seq(S) /\ Len(b2) = n - k - 1 /\ \A i \in 1..(n - k - 1) : b2[i] = s[i + k + 1]
  BY <1>1
<1> HIDE DEF back, front, more, b2
<1>4. Tail(back) = b2
  <2>1. Tail(back) \in Seq(S) /\ Len(Tail(back)) = n - k - 1
        /\ \A i \in 1..(n - k - 1) : Tail(back)[i] = back[i + 1]
    BY <1>1, <1>2
  <2>2. ASSUME NEW i \in 1..(n - k - 1) PROVE Tail(back)[i] = b2[i]
    BY <1>1, <1>2, <1>3, <2>1
  <2> DEFINE t == Tail(back)
  <2>3. t \in Seq(S) /\ Len(t) = Len(b2) /\ \A i \in 1..Len(t) : t[i] = b2[i]
    BY <1>3, <2>1, <2>2
  <2> HIDE DEF t
  <2>4. t = b2
    BY <1>3, <2>3
  <2> QED BY <2>4 DEF t
<1>5. Head(back) = s[k + 1] /\ s[k + 1] \in S
  BY <1>1, <1>2
<1>6. more = front \o <<s[k + 1]>>
  <2> DEFINE u == front \o <<s[k + 1]>>
  <2>1. <<s[k + 1]>> \in Seq(S) /\ Len(<<s[k + 1]>>) = 1 /\ <<s[k + 1]>>[1] = s[k + 1]
    BY <1>5
  <2>2. u \in Seq(S) /\ Len(u) = k + 1
        /\ \A i \in 1..(k + 1) : u[i] = IF i <= k THEN front[i] ELSE s[k + 1]
    BY <1>1, <1>2, <2>1
  <2> HIDE DEF u
  <2>3. \A i \in 1..(k + 1) : u[i] = more[i]
    BY <1>1, <1>2, <2>2
  <2>4. u = more
    BY <1>2, <2>2, <2>3
  <2> QED BY <2>4 DEF u
<1>7. Reverse(more) = <<s[k + 1]>> \o Reverse(front)
  <2>1. <<s[k + 1]>> \in Seq(S)
    BY <1>5
  <2>2. Reverse(more) = Reverse(<<s[k + 1]>>) \o Reverse(front)
    BY <1>2, <1>6, <2>1, ReverseConcat
  <2> QED BY <1>5, <2>2, ReverseSmall
<1> QED BY <1>4, <1>5, <1>7 DEF back, front, more, b2, Cons

\* A value is passed in every other turn.
LEMMA EveryOtherTurn ==
  ASSUME NEW i \in Nat \ {0}
  PROVE  /\ i % 2 = 0 => (i + 1) \div 2 = (i - 1 + 1) \div 2
         /\ i % 2 # 0 => (i + 1) \div 2 = (i - 1 + 1) \div 2 + 1
         /\ (i + 1) \div 2 \in Nat /\ (i + 1) \div 2 <= i
  OBVIOUS

\* A turn of the loop does to what was passed in the turns before what Passed
\* says.
LEMMA PassedStep ==
  ASSUME NEW S, NEW list \in Seq(S), NEW i \in 0..Len(list), NEW at,
         i # 0 => at[i - 1] = Passed(list, i - 1)
  PROVE  Walk(at, list, i) = Passed(list, i)
<1> DEFINE n == Len(list)
           k == (i + 1) \div 2
<1>1. CASE i = 0
  <2>1. (0 + 1) \div 2 = 0
    OBVIOUS
  <2>2. SubSeq(list, 1, n) = list /\ SubSeq(list, 1, 0) = <<>>
    OBVIOUS
  <2> DEFINE z == (0 + 1) \div 2
  <2>3. Passed(list, 0) = [l |-> SubSeq(list, z + 1, n), o |-> Reverse(SubSeq(list, 1, z))]
    BY DEF Passed
  <2> HIDE DEF z
  <2>4. SubSeq(list, z + 1, n) = list /\ Reverse(SubSeq(list, 1, z)) = <<>>
    <3>1. z = 0 /\ z + 1 = 1
      BY <2>1 DEF z
    <3> QED BY <2>2, <3>1, ReverseEmpty
  <2>5. Passed(list, 0) = [l |-> list, o |-> <<>>]
    BY <2>3, <2>4
  <2> QED BY <1>1, <2>5 DEF Walk
<1>2. CASE i # 0
  <2> DEFINE j == (i - 1 + 1) \div 2
  <2>1. at[i - 1] = [l |-> SubSeq(list, j + 1, n), o |-> Reverse(SubSeq(list, 1, j))]
    BY <1>2 DEF Passed
  <2>2. Passed(list, i) = [l |-> SubSeq(list, k + 1, n), o |-> Reverse(SubSeq(list, 1, k))]
    BY DEF Passed
  <2>3. i \in Nat \ {0} /\ i <= n /\ n \in Nat
    BY <1>2
  <2>4. CASE i % 2 = 0
    <3>1. k = j
      BY <2>3, <2>4, EveryOtherTurn
    <3>2. Walk(at, list, i) = at[i - 1]
      BY <1>2, <2>4 DEF Walk
    <3> HIDE DEF j, k
    <3> QED BY <2>1, <2>2, <3>1, <3>2
  <2>5. CASE i % 2 # 0
    <3>1. k = j + 1 /\ k \in Nat /\ k <= i
      BY <2>3, <2>5, EveryOtherTurn
    <3>2. Walk(at, list, i) = [l |-> Tail(at[i - 1].l),
                               o |-> Cons(Head(at[i - 1].l), at[i - 1].o)]
      BY <1>2, <2>5 DEF Walk
    <3>3. j \in 0..(n - 1) /\ k + 1 = j + 2
      <4>1. j \in Nat
        BY <2>3
      <4> HIDE DEF j, k
      <4> QED BY <2>3, <3>1, <4>1
    <3> HIDE DEF j, k
    <3>4. Tail(SubSeq(list, j + 1, n)) = SubSeq(list, j + 2, n)
          /\ Cons(Head(SubSeq(list, j + 1, n)), Reverse(SubSeq(list, 1, j)))
               = Reverse(SubSeq(list, 1, j + 1))
      BY <3>3, OneMore
    <3>5. Passed(list, i) = [l |-> SubSeq(list, j + 2, n),
                             o |-> Reverse(SubSeq(list, 1, j + 1))]
      BY <2>2, <3>1, <3>3
    <3>6. at[i - 1].l = SubSeq(list, j + 1, n) /\ at[i - 1].o = Reverse(SubSeq(list, 1, j))
      <4> DEFINE b == at[i - 1]
                 u == SubSeq(list, j + 1, n)
                 v == Reverse(SubSeq(list, 1, j))
      <4>1. b = [l |-> u, o |-> v]
        BY <2>1
      <4> HIDE DEF b, u, v
      <4>2. b.l = u /\ b.o = v
        BY <4>1
      <4> QED BY <4>2 DEF b, u, v
    <3> QED BY <3>2, <3>4, <3>5, <3>6
  <2> QED BY <2>4, <2>5
<1> QED BY <1>1, <1>2

\* The function that the loop recurs through is the one whose i-th value is
\* Passed(list, i): there is one such function, and, by induction, no other.
LEMMA LoopResult ==
  ASSUME NEW S, NEW list \in Seq(S)
  PROVE  HalfRevLoop(list) = HalfRev(list)
<1> DEFINE n == Len(list)
           Turns(f) == f = [i \in 0..n |-> Walk(f, list, i)]
           at == CHOOSE f : Turns(f)
           p == [i \in 0..n |-> Passed(list, i)]
<1>1. HalfRevLoop(list) = <<Reverse(at[n].l), Reverse(at[n].o)>>
  BY DEF HalfRevLoop, Walk
<1>2. n \in Nat
  OBVIOUS
<1>3. Turns(p)
  <2>1. ASSUME NEW i \in 0..n PROVE Walk(p, list, i) = Passed(list, i)
    <3>1. i # 0 => i - 1 \in 0..n
      BY <1>2
    <3>2. i # 0 => p[i - 1] = Passed(list, i - 1)
      BY <3>1
    <3> HIDE DEF p
    <3> QED BY <3>2, PassedStep
  <2> HIDE DEF n
  <2> QED BY <2>1
<1>4. Turns(at)
  BY <1>3
<1> HIDE DEF at
<1>5. at[n] = Passed(list, n)
  <2> DEFINE T == {i \in Nat : i \in 0..n => at[i] = Passed(list, i)}
  <2>1. \A i \in 0..n : at[i] = Walk(at, list, i)
    BY <1>4
  <2>2. 0 \in T
    <3>1. 0 \in 0..n
      BY <1>2
    <3>2. Walk(at, list, 0) = Passed(list, 0)
      BY <3>1, PassedStep
    <3> QED BY <2>1, <3>1, <3>2
  <2>3. ASSUME NEW i \in Nat, i \in T PROVE i + 1 \in T
    <3> SUFFICES ASSUME i + 1 \in 0..n PROVE at[i + 1] = Passed(list, i + 1)
      OBVIOUS
    <3>1. i \in 0..n /\ i + 1 - 1 = i
      BY <1>2
    <3>2. at[i + 1 - 1] = Passed(list, i + 1 - 1)
      BY <2>3, <3>1
    <3>3. Walk(at, list, i + 1) = Passed(list, i + 1)
      BY <3>2, PassedStep
    <3> QED BY <2>1, <3>3
  <2> HIDE DEF T
  <2>4. Nat \subseteq T
    BY <2>2, <2>3, SetInduction
  <2>5. n \in T
    BY <1>2, <2>4
  <2> QED BY <1>2, <2>5 DEF T
<1>6. SubSeq(list, 1, (n + 1) \div 2) \in Seq(S)
  <2>1. (n + 1) \div 2 \in Nat /\ (n + 1) \div 2 <= n
    BY <1>2, HalfLengths
  <2> QED BY <2>1
<1>7. Reverse(Reverse(SubSeq(list, 1, (n + 1) \div 2))) = SubSeq(list, 1, (n + 1) \div 2)
  BY <1>6, ReverseTwice
<1>8. /\ at[n].l = SubSeq(list, (n + 1) \div 2 + 1, n)
      /\ at[n].o = Reverse(SubSeq(list, 1, (n + 1) \div 2))
  BY <1>5 DEF Passed
<1> QED BY <1>1, <1>7, <1>8 DEF HalfRev

\* Two values or more are not all on one side.
LEMMA LoopNonEmpty ==
  ASSUME NEW S, NEW l \in Seq(S), Len(l) >= 2
  PROVE  HalfRev(l)[1] # <<>> /\ HalfRev(l)[2] # <<>>
<1> DEFINE h == HalfRev(l)
<1>1. /\ h[1] \in Seq(S) /\ h[2] \in Seq(S)
      /\ Len(h[1]) \in Nat /\ Len(h[2]) \in Nat
      /\ Len(h[1]) + Len(h[2]) = Len(l)
      /\ Len(h[2]) = Len(h[1]) \/ Len(h[2]) = Len(h[1]) + 1
  BY HalfRevProperties
<1> HIDE DEF h
<1>2. \A x, y \in Nat : x + y >= 2 /\ (y = x \/ y = x + 1) => x # 0 /\ y # 0
  OBVIOUS
<1>2a. Len(h[1]) # 0 /\ Len(h[2]) # 0
  BY <1>1, <1>2
<1>3. Len(<<>>) = 0
  OBVIOUS
<1>4. h[1] # <<>> /\ h[2] # <<>>
  BY <1>2a, <1>3
<1> QED BY <1>4 DEF h

\* The loop of half-rev (libraries/owl/queue.scm), which walks one list at half the
\* speed of the other, halves every list as HalfRev says, and moves a value whenever
\* there are two.
THEOREM LoopIsHalfRev == QueueSpec => []LoopHalves
<1>1. TypeOK => LoopHalves
  <2> SUFFICES ASSUME TypeOK, NEW l \in {hd, rtl}
               PROVE  /\ HalfRevLoop(l) = HalfRev(l)
                      /\ Len(l) >= 2 => HalfRevLoop(l)[1] # <<>> /\ HalfRevLoop(l)[2] # <<>>
    BY DEF LoopHalves
  <2>1. l \in Seq(Value)
    BY DEF TypeOK
  <2>2. HalfRevLoop(l) = HalfRev(l)
    BY <2>1, LoopResult
  <2>3. Len(l) >= 2 => HalfRev(l)[1] # <<>> /\ HalfRev(l)[2] # <<>>
    BY <2>1, LoopNonEmpty
  <2> QED BY <2>2, <2>3
<1> QED BY <1>1, TypeCorrect, PTL
==============================================================================
