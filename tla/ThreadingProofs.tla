--------------------------- MODULE ThreadingProofs ---------------------------
(***************************************************************************)
(* Theorems about the thread controller, for any set of thread names and   *)
(* any bounds.                                                             *)
(***************************************************************************)
EXTENDS Threading, SequenceTheorems, TLAPS

------------------------------------------------------------------------------
(* The run lists.                                                          *)

\* A thread put in front of a run list.
LEMMA ConsIds ==
    ASSUME NEW e \in Entry, NEW s \in Seq(Entry)
    PROVE  /\ <<e>> \o s \in Seq(Entry)
           /\ Ids(<<e>> \o s) = {e.id} \cup Ids(s)
           /\ Distinct(s) /\ e.id \notin Ids(s) => Distinct(<<e>> \o s)
<1> DEFINE r == <<e>> \o s
<1>1. /\ r \in Seq(Entry) /\ Len(r) = Len(s) + 1
      /\ r[1] = e
      /\ \A i \in 1..Len(s) : r[i + 1] = s[i]
  OBVIOUS
<1>2. \A i \in 1..Len(r) : i = 1 \/ (i - 1 \in 1..Len(s) /\ r[i] = s[i - 1])
  BY <1>1
<1>3. Ids(r) = {e.id} \cup Ids(s)
  <2>1. Ids(r) \subseteq {e.id} \cup Ids(s)
    BY <1>1, <1>2 DEF Ids
  <2>2. {e.id} \cup Ids(s) \subseteq Ids(r)
    <3>1. e.id \in Ids(r)
      BY <1>1 DEF Ids
    <3>2. ASSUME NEW i \in 1..Len(s) PROVE s[i].id \in Ids(r)
      BY <1>1, i + 1 \in 1..Len(r) DEF Ids
    <3> QED BY <3>1, <3>2 DEF Ids
  <2> QED BY <2>1, <2>2
<1>4. Distinct(s) /\ e.id \notin Ids(s) => Distinct(r)
  BY <1>1, <1>2 DEF Distinct, Ids
<1> QED BY <1>1, <1>3, <1>4

\* A run list without its head.
LEMMA TailIds ==
    ASSUME NEW s \in Seq(Entry), s # <<>>
    PROVE  /\ Head(s) \in Entry /\ Tail(s) \in Seq(Entry)
           /\ Ids(s) = {Head(s).id} \cup Ids(Tail(s))
           /\ Distinct(s) => Distinct(Tail(s)) /\ Head(s).id \notin Ids(Tail(s))
<1> DEFINE r == Tail(s)
<1>1. /\ Head(s) \in Entry /\ r \in Seq(Entry)
      /\ Len(s) = Len(r) + 1
      /\ s[1] = Head(s)
      /\ \A i \in 1..Len(r) : r[i] = s[i + 1]
  OBVIOUS
<1>2. s = <<Head(s)>> \o r
  OBVIOUS
<1>3. Ids(s) = {Head(s).id} \cup Ids(r)
  BY <1>1, <1>2, ConsIds
<1>4. Distinct(s) => Distinct(r) /\ Head(s).id \notin Ids(r)
  BY <1>1 DEF Distinct, Ids
<1> QED BY <1>1, <1>3, <1>4

\* drop-from-list takes the entry of that thread out of the list.
LEMMA DropShape ==
    ASSUME NEW s \in Seq(Entry), NEW t \in Thread, Distinct(s),
           NEW k \in 1..Len(s), s[k].id = t
    PROVE  LET r == DropFromList(s, t)
           IN  /\ r \in Seq(Entry) /\ Len(r) = Len(s) - 1
               /\ \A i \in 1..Len(r) : r[i] = IF i < k THEN s[i] ELSE s[i + 1]
<1> DEFINE I == {i \in 1..Len(s) : s[i].id = t}
<1>1. I = {k}
  BY DEF Distinct
<1>2. SelectInSeq(s, LAMBDA e : e.id = t) = k
  BY <1>1 DEF SelectInSeq, Min
<1> DEFINE a == SubSeq(s, 1, k - 1)
           b == SubSeq(s, k + 1, Len(s))
           r == a \o b
<1>3. DropFromList(s, t) = r
  BY <1>2 DEF DropFromList, RemoveFirstMatch, RemoveAt
<1>4. /\ r \in Seq(Entry) /\ Len(r) = Len(s) - 1
      /\ \A i \in 1..Len(r) : r[i] = IF i < k THEN s[i] ELSE s[i + 1]
  <2>1. /\ a \in Seq(Entry) /\ Len(a) = k - 1
        /\ \A i \in 1..(k - 1) : a[i] = s[i]
    OBVIOUS
  <2>2. /\ b \in Seq(Entry) /\ Len(b) = Len(s) - k
        /\ \A i \in 1..(Len(s) - k) : b[i] = s[k + i]
    <3>1. \A i \in (k + 1)..Len(s) : s[i] \in Entry
      OBVIOUS
    <3> HIDE DEF r
    <3>2. /\ b \in Seq(Entry) /\ Len(b) = IF k + 1 <= Len(s) THEN Len(s) - (k + 1) + 1 ELSE 0
          /\ \A i \in 1..(Len(s) - (k + 1) + 1) : b[i] = s[(k + 1) + i - 1]
      BY <3>1, SubSeqProperties, k + 1 \in Int, Len(s) \in Int
    <3> QED BY <3>2
  <2> HIDE DEF a, b
  <2>3. /\ r \in Seq(Entry) /\ Len(r) = Len(a) + Len(b)
        /\ \A i \in 1..(Len(a) + Len(b)) :
              r[i] = IF i <= Len(a) THEN a[i] ELSE b[i - Len(a)]
    BY <2>1, <2>2, ConcatProperties
  <2> HIDE DEF r
  <2>4. ASSUME NEW i \in 1..Len(r) PROVE r[i] = IF i < k THEN s[i] ELSE s[i + 1]
    <3>1. CASE i < k
      BY <3>1, <2>1, <2>3
    <3>2. CASE ~(i < k)
      <4>1. i - Len(a) \in 1..(Len(s) - k) /\ k + (i - Len(a)) = i + 1
        BY <3>2, <2>1, <2>2, <2>3
      <4>2. r[i] = b[i - Len(a)]
        BY <3>2, <2>1, <2>3
      <4> QED BY <3>2, <4>1, <4>2, <2>2
    <3> QED BY <3>1, <3>2
  <2> QED BY <2>1, <2>2, <2>3, <2>4
<1> HIDE DEF r, a, b
<1> QED BY <1>3, <1>4

\* drop-from-list removes a thread and nothing else.
LEMMA DropIds ==
    ASSUME NEW s \in Seq(Entry), NEW t \in Thread, Distinct(s)
    PROVE  /\ DropFromList(s, t) \in Seq(Entry)
           /\ Ids(DropFromList(s, t)) = Ids(s) \ {t}
           /\ Distinct(DropFromList(s, t))
<1> DEFINE I == {i \in 1..Len(s) : s[i].id = t}
           r == DropFromList(s, t)
<1>1. CASE I = {}
  <2>1. DropFromList(s, t) = s
    BY <1>1 DEF DropFromList, RemoveFirstMatch
  <2> QED BY <1>1, <2>1 DEF Ids
<1>2. CASE I # {}
  <2>1. PICK k \in 1..Len(s) : s[k].id = t
    BY <1>2
  <2>2. /\ r \in Seq(Entry) /\ Len(r) = Len(s) - 1
        /\ \A i \in 1..Len(r) : r[i] = IF i < k THEN s[i] ELSE s[i + 1]
    BY <2>1, DropShape
  <2> HIDE DEF r
  <2>3. Ids(r) = Ids(s) \ {t}
    <3>1. ASSUME NEW i \in 1..Len(r) PROVE r[i].id \in Ids(s) \ {t}
      <4>1. CASE i < k
        <5>1. r[i] = s[i] /\ i \in 1..Len(s) /\ i # k
          BY <4>1, <2>2
        <5> QED BY <5>1, <2>1 DEF Ids, Distinct
      <4>2. CASE ~(i < k)
        <5>1. r[i] = s[i + 1] /\ i + 1 \in 1..Len(s) /\ i + 1 # k
          BY <4>2, <2>2
        <5> QED BY <5>1, <2>1 DEF Ids, Distinct
      <4> QED BY <4>1, <4>2
    <3>2. ASSUME NEW i \in 1..Len(s), s[i].id # t PROVE s[i].id \in Ids(r)
      <4>1. CASE i < k
        <5>1. r[i] = s[i] /\ i \in 1..Len(r)
          BY <4>1, <2>2
        <5> QED BY <5>1 DEF Ids
      <4>2. CASE ~(i < k)
        <5>1. i # k
          BY <3>2, <2>1
        <5>2. r[i - 1] = s[i] /\ i - 1 \in 1..Len(r)
          BY <4>2, <5>1, <2>2
        <5> QED BY <5>2 DEF Ids
      <4> QED BY <4>1, <4>2
    <3>3. Ids(r) \subseteq Ids(s) \ {t}
      BY <3>1 DEF Ids
    <3>4. Ids(s) \ {t} \subseteq Ids(r)
      BY <3>2 DEF Ids
    <3> QED BY <3>3, <3>4
  <2>4. Distinct(r)
    BY <2>2 DEF Distinct
  <2> QED BY <2>2, <2>3, <2>4 DEF r
<1> QED BY <1>1, <1>2

------------------------------------------------------------------------------
(* The inductive invariant is the conjunction of the three invariants that *)
(* the runs check: none of the last two is inductive alone, because waking *)
(* a thread is safe only as its continuation is nowhere else, and leaving  *)
(* a continuation behind is safe only as its thread runs once.             *)
Inv == TypeOK /\ RunsOnce /\ NothingOutlives

\* The running thread is put back in front of the others.
LEMMA ResumeIds ==
    ASSUME Inv, todo # <<>>, NEW answer \in Given
    PROVE  /\ Cur \in Thread /\ Cur \in Runnable
           /\ Rest \in Seq(Entry) /\ Ids(Rest) = Ids(todo) \ {Cur} /\ Distinct(Rest)
           /\ Resume(answer) \o Rest \in Seq(Entry)
           /\ Ids(Resume(answer) \o Rest) = Ids(todo)
           /\ Distinct(Resume(answer) \o Rest)
<1> DEFINE e == [id |-> Cur, given |-> answer]
<1>1. todo \in Seq(Entry) /\ Distinct(todo)
  BY DEF Inv, TypeOK, RunsOnce
<1>2. /\ Head(todo) \in Entry /\ Rest \in Seq(Entry)
      /\ Ids(todo) = {Cur} \cup Ids(Rest)
      /\ Distinct(Rest) /\ Cur \notin Ids(Rest)
  BY <1>1, TailIds DEF Cur, Rest
<1>3. Cur \in Thread
  BY <1>2 DEF Entry, Cur
<1>4. e \in Entry /\ e.id = Cur
  BY <1>3 DEF Entry
<1>5. /\ <<e>> \o Rest \in Seq(Entry)
      /\ Ids(<<e>> \o Rest) = {Cur} \cup Ids(Rest)
      /\ Distinct(<<e>> \o Rest)
  BY <1>2, <1>4, ConsIds
<1> QED BY <1>2, <1>3, <1>5 DEF Resume, Runnable

\* An envelope delivered to a thread wakes it, joins its inbox or is dropped.
LEMMA DeliverTypes ==
    ASSUME NEW sl \in [Thread -> {"none", "inbox", "cont"}],
           NEW ib \in [Thread -> Seq(Envelope)],
           NEW to \in Thread, NEW env \in Envelope
    PROVE  /\ SlotAfter(sl, to) \in [Thread -> {"none", "inbox", "cont"}]
           /\ InboxAfter(sl, ib, to, env) \in [Thread -> Seq(Envelope)]
           /\ \A t \in Thread \ {to} :
                 /\ SlotAfter(sl, to)[t] = sl[t]
                 /\ InboxAfter(sl, ib, to, env)[t] = ib[t]
           /\ SlotAfter(sl, to)[to] = IF sl[to] = "cont" THEN "inbox" ELSE sl[to]
           /\ sl[to] # "inbox" => InboxAfter(sl, ib, to, env)[to] = ib[to]
           /\ sl[to] = "cont" => Waked(sl, to, env) = <<[id |-> to, given |-> <<env>>]>>
           /\ sl[to] # "cont" => Waked(sl, to, env) = <<>>
           /\ [id |-> to, given |-> <<env>>] \in Entry
<1>1. ib[to] \in Seq(Envelope) => Append(ib[to], env) \in Seq(Envelope)
  OBVIOUS
<1> QED BY <1>1 DEF SlotAfter, InboxAfter, Waked, Entry, Given

\* The end of a thread: it is gone from wherever it was, and the thread it was
\* linked to, if that one waits, is in the run list instead of waiting.
LEMMA DropInv ==
    ASSUME Inv, NEW t \in Thread,
           NEW td \in Seq(Entry), NEW dn \in Seq(Entry),
           Distinct(td), Distinct(dn), Ids(td) \cap Ids(dn) = {},
           Ids(td) \cup Ids(dn) = Runnable \ {t},
           DropDelivering(td, dn, t)
    PROVE  /\ todo' \in Seq(Entry) /\ done' \in Seq(Entry)
           /\ slot' \in [Thread -> {"none", "inbox", "cont"}]
           /\ inbox' \in [Thread -> Seq(Envelope)]
           /\ links' \in [Thread -> Thread \cup {NoThread}]
           /\ RunsOnce' /\ NothingOutlives'
<1> USE DEF Inv
<1> DEFINE who == links[t]
           sl == [slot EXCEPT ![t] = "none"]
           ib == [inbox EXCEPT ![t] = <<>>]
<1>1. /\ sl \in [Thread -> {"none", "inbox", "cont"}]
      /\ ib \in [Thread -> Seq(Envelope)]
      /\ who \in Thread \cup {NoThread}
      /\ links' = [links EXCEPT ![t] = NoThread]
      /\ links' \in [Thread -> Thread \cup {NoThread}]
      /\ done' = dn
  BY DEF TypeOK, DropDelivering
<1>2. CASE who = NoThread
  <2>1. todo' = td /\ slot' = sl /\ inbox' = ib
    BY <1>2 DEF DropDelivering
  <2>2. Runnable' = Runnable \ {t} /\ Waiting' = Waiting \ {t}
    <3>1. Runnable' = Runnable \ {t}
      BY <1>1, <2>1 DEF Runnable
    <3>2. Waiting' = Waiting \ {t}
      BY <2>1 DEF Waiting, TypeOK
    <3> QED BY <3>1, <3>2
  <2>3. RunsOnce'
    BY <1>1, <2>1, <2>2 DEF RunsOnce
  <2>4. NothingOutlives'
    BY <1>1, <2>1, <2>2 DEF NothingOutlives, Live, TypeOK
  <2> QED BY <1>1, <2>1, <2>3, <2>4
<1>3. CASE who # NoThread
  <2> DEFINE env == Obituary(t)
             e == [id |-> who, given |-> <<env>>]
  <2>1. who \in Thread /\ env \in Envelope
    BY <1>1, <1>3, ThreadAssumption DEF Obituary, Envelope
  <2>2. /\ todo' = Waked(sl, who, env) \o td
        /\ slot' = SlotAfter(sl, who)
        /\ inbox' = InboxAfter(sl, ib, who, env)
    BY <1>3 DEF DropDelivering
  <2> HIDE DEF who, sl, ib, env
  <2>3. /\ slot' \in [Thread -> {"none", "inbox", "cont"}]
        /\ inbox' \in [Thread -> Seq(Envelope)]
        /\ \A u \in Thread \ {who} : slot'[u] = sl[u] /\ inbox'[u] = ib[u]
        /\ slot'[who] = IF sl[who] = "cont" THEN "inbox" ELSE sl[who]
        /\ sl[who] # "inbox" => inbox'[who] = ib[who]
        /\ sl[who] = "cont" => Waked(sl, who, env) = <<e>>
        /\ sl[who] # "cont" => Waked(sl, who, env) = <<>>
        /\ e \in Entry
    <3> DEFINE ns == SlotAfter(sl, who)
               ni == InboxAfter(sl, ib, who, env)
               w == Waked(sl, who, env)
    <3>1. /\ ns \in [Thread -> {"none", "inbox", "cont"}]
          /\ ni \in [Thread -> Seq(Envelope)]
          /\ \A u \in Thread \ {who} : ns[u] = sl[u] /\ ni[u] = ib[u]
          /\ ns[who] = IF sl[who] = "cont" THEN "inbox" ELSE sl[who]
          /\ sl[who] # "inbox" => ni[who] = ib[who]
          /\ sl[who] = "cont" => w = <<e>>
          /\ sl[who] # "cont" => w = <<>>
          /\ e \in Entry
      BY <1>1, <2>1, DeliverTypes
    <3> HIDE DEF ns, ni, w
    <3>2. slot' = ns /\ inbox' = ni
      BY <2>2 DEF ns, ni
    <3> QED BY <3>1, <3>2 DEF w
  <2>4. CASE sl[who] = "cont"
    <3>1. who # t /\ slot[who] = "cont" /\ inbox[who] = <<>> /\ who \notin Runnable
      BY <2>1, <2>4 DEF sl, TypeOK, RunsOnce, NothingOutlives, Waiting
    <3>2. e.id = who /\ who \notin Ids(td) /\ who \notin Ids(dn)
      BY <3>1
    <3>3. /\ todo' \in Seq(Entry) /\ Ids(todo') = {who} \cup Ids(td) /\ Distinct(todo')
      BY <2>2, <2>3, <2>4, <3>2, ConsIds
    <3>4. Runnable' = (Runnable \ {t}) \cup {who}
      BY <1>1, <3>3 DEF Runnable
    <3>5. Waiting' = Waiting \ {t, who}
      BY <2>1, <2>3, <2>4 DEF Waiting, sl, TypeOK
    <3>6. RunsOnce'
      BY <1>1, <3>2, <3>3, <3>4, <3>5 DEF RunsOnce
    <3>7. NothingOutlives'
      BY <1>1, <2>1, <2>3, <2>4, <3>1, <3>4, <3>5
         DEF NothingOutlives, Live, TypeOK, sl, ib
    <3> QED BY <1>1, <2>3, <3>3, <3>6, <3>7
  <2>5. CASE sl[who] # "cont"
    <3>1. todo' = td
      BY <2>2, <2>3, <2>5
    <3>2. slot' = sl
      BY <1>1, <2>2, <2>5 DEF SlotAfter
    <3>3. Runnable' = Runnable \ {t} /\ Waiting' = Waiting \ {t}
      <4>1. Runnable' = Runnable \ {t}
        BY <1>1, <3>1 DEF Runnable
      <4>2. Waiting' = Waiting \ {t}
        BY <3>2 DEF Waiting, TypeOK, sl
      <4> QED BY <4>1, <4>2
    <3>4. RunsOnce'
      BY <1>1, <3>1, <3>3 DEF RunsOnce
    <3>5. NothingOutlives'
      <4>1. \A u \in Thread : slot'[u] = "inbox" => u \in Runnable'
        BY <1>1, <2>1, <3>2, <3>3 DEF NothingOutlives, TypeOK, sl
      <4>2. \A u \in Thread : links'[u] # NoThread => u \in Live'
        BY <1>1, <2>1, <3>3 DEF NothingOutlives, Live, TypeOK
      <4>3. \A u \in Thread : slot'[u] # "inbox" => inbox'[u] = <<>>
        BY <1>1, <2>1, <2>3, <2>5, <3>2 DEF NothingOutlives, TypeOK, sl, ib
      <4> QED BY <4>1, <4>2, <4>3 DEF NothingOutlives
    <3> QED BY <1>1, <2>3, <3>1, <3>4, <3>5
  <2> QED BY <2>4, <2>5
<1> QED BY <1>2, <1>3

------------------------------------------------------------------------------
\* The controller starts with one thread and nothing else.
LEMMA InitInv == Init => Inv
<1> SUFFICES ASSUME Init PROVE Inv
  OBVIOUS
<1> DEFINE e == [id |-> Main, given |-> <<>>]
<1>1. e \in Entry /\ <<e>> \in Seq(Entry)
  BY ThreadAssumption DEF Entry, Given
<1>2. TypeOK
  <2>1. /\ inbox \in [Thread -> Seq(Envelope)]
        /\ held \in [Thread -> Seq(Envelope)]
    BY DEF Init
  <2>2. /\ slot \in [Thread -> {"none", "inbox", "cont"}]
        /\ links \in [Thread -> Thread \cup {NoThread}]
    BY DEF Init
  <2>3. forks \in 0..MaxFork /\ sent \in 0..MaxMail /\ retval \in Nat
    BY ThreadAssumption DEF Init
  <2>4. todo \in Seq(Entry) /\ done \in Seq(Entry)
    BY <1>1 DEF Init
  <2> QED BY <2>1, <2>2, <2>3, <2>4 DEF Init, TypeOK
<1>3. Ids(todo) = {Main} /\ Ids(done) = {} /\ Distinct(todo) /\ Distinct(done)
  BY <1>1 DEF Init, Ids, Distinct
<1>4. Waiting = {}
  BY DEF Init, Waiting
<1>5. RunsOnce
  BY <1>3, <1>4 DEF RunsOnce
<1>6. NothingOutlives
  BY DEF Init, NothingOutlives
<1> QED BY <1>2, <1>5, <1>6 DEF Inv

\* End of a round, end of a quantum, and the end of everything.
LEMMA ScheduleInv == Inv /\ DoSchedule => Inv'
<1> SUFFICES ASSUME Inv, DoSchedule PROVE Inv'
  OBVIOUS
<1> USE DEF Inv
<1>1. CASE NewRound
  <2>1. /\ todo' = done /\ done' = <<>>
        /\ UNCHANGED <<slot, inbox, links, retval, halted, held, forks, sent>>
    BY <1>1 DEF DoSchedule, NewRound
  <2>2. Ids(<<>>) = {} /\ Distinct(<<>>) /\ <<>> \in Seq(Entry)
    BY DEF Ids, Distinct
  <2>3. Runnable' = Runnable /\ Waiting' = Waiting
    BY <1>1, <2>1, <2>2 DEF Runnable, Waiting, NewRound
  <2>4. TypeOK'
    BY <2>1, <2>2 DEF TypeOK
  <2>5. RunsOnce'
    BY <2>1, <2>2, <2>3 DEF RunsOnce
  <2>6. NothingOutlives'
    BY <2>1, <2>3 DEF NothingOutlives, Live
  <2> QED BY <2>4, <2>5, <2>6
<1>2. CASE HaltThreadController
  <2>1. /\ halted' = TRUE
        /\ UNCHANGED <<todo, done, slot, inbox, links, retval, held, forks, sent>>
    BY <1>2 DEF DoSchedule, HaltThreadController
  <2>2. Runnable' = Runnable /\ Waiting' = Waiting
    BY <2>1 DEF Runnable, Waiting
  <2>3. TypeOK'
    BY <2>1 DEF TypeOK
  <2>4. RunsOnce'
    BY <2>1, <2>2 DEF RunsOnce
  <2>5. NothingOutlives'
    BY <2>1, <2>2 DEF NothingOutlives, Live
  <2> QED BY <2>3, <2>4, <2>5
<1>3. CASE TimeSlice
  <2> DEFINE e == Head(todo)
  <2>1. /\ todo # <<>> /\ done' = <<e>> \o done /\ todo' = Rest
        /\ UNCHANGED <<slot, inbox, links, retval, halted, held, forks, sent>>
    BY <1>3 DEF DoSchedule, TimeSlice
  <2>2. /\ e \in Entry /\ Rest \in Seq(Entry) /\ Distinct(Rest)
        /\ Ids(todo) = {e.id} \cup Ids(Rest) /\ e.id \notin Ids(Rest)
    BY <2>1, TailIds DEF TypeOK, RunsOnce, Rest
  <2>3. e.id \notin Ids(done)
    BY <2>2 DEF RunsOnce
  <2>4. /\ done' \in Seq(Entry) /\ Distinct(done')
        /\ Ids(done') = {e.id} \cup Ids(done)
    BY <2>1, <2>2, <2>3, ConsIds DEF TypeOK, RunsOnce
  <2>5. Runnable' = Runnable /\ Waiting' = Waiting
    BY <2>1, <2>2, <2>4 DEF Runnable, Waiting
  <2>6. TypeOK'
    BY <2>1, <2>2, <2>4 DEF TypeOK
  <2>7. RunsOnce'
    BY <2>1, <2>2, <2>3, <2>4, <2>5 DEF RunsOnce
  <2>8. NothingOutlives'
    BY <2>1, <2>5 DEF NothingOutlives, Live
  <2> QED BY <2>6, <2>7, <2>8
<1> QED BY <1>1, <1>2, <1>3 DEF DoSchedule

\* The thread at the head of todo ends.
LEMMA EndInv == Inv /\ DoEnd => Inv'
<1> SUFFICES ASSUME Inv, DoEnd PROVE Inv'
  OBVIOUS
<1> USE DEF Inv
<1>1. /\ todo # <<>> /\ DropDelivering(Rest, done, Cur)
      /\ retval' \in {retval, 127} /\ halted' = halted
      /\ held' = [held EXCEPT ![Cur] = <<>>] /\ UNCHANGED <<forks, sent>>
  BY DEF DoEnd, Exit, Crash, Ready, Forget
<1>2. <<>> \in Given
  BY DEF Given
<1>3. /\ Cur \in Thread /\ Rest \in Seq(Entry) /\ Distinct(Rest)
      /\ Ids(Rest) = Ids(todo) \ {Cur} /\ Cur \in Ids(todo)
  <2>1. Cur \in Ids(todo)
    BY <1>1, TailIds DEF TypeOK, Cur
  <2> QED BY <1>1, <1>2, <2>1, ResumeIds
<1>4. Ids(Rest) \cap Ids(done) = {} /\ Ids(Rest) \cup Ids(done) = Runnable \ {Cur}
  BY <1>3 DEF RunsOnce, Runnable
<1>5. /\ todo' \in Seq(Entry) /\ done' \in Seq(Entry)
      /\ slot' \in [Thread -> {"none", "inbox", "cont"}]
      /\ inbox' \in [Thread -> Seq(Envelope)]
      /\ links' \in [Thread -> Thread \cup {NoThread}]
      /\ RunsOnce' /\ NothingOutlives'
  BY <1>1, <1>3, <1>4, DropInv DEF TypeOK, RunsOnce
<1>6. TypeOK'
  <2>1. held' \in [Thread -> Seq(Envelope)]
    <3>1. held \in [Thread -> Seq(Envelope)] /\ <<>> \in Seq(Envelope)
      BY DEF TypeOK
    <3>2. held' = [held EXCEPT ![Cur] = <<>>]
      BY <1>1
    <3> QED BY <3>1, <3>2
  <2>2. retval' \in Nat
    BY <1>1 DEF TypeOK
  <2>3. halted' \in BOOLEAN /\ forks' \in 0..MaxFork /\ sent' \in 0..MaxMail
    BY <1>1 DEF TypeOK
  <2> QED BY <1>5, <2>1, <2>2, <2>3 DEF TypeOK
<1> QED BY <1>5, <1>6

\* kill: the target may be the caller, run, have run, wait, or be no thread.
LEMMA KillInv == ASSUME Inv, NEW t \in Thread, DoKill(t) PROVE Inv'
<1> USE DEF Inv
<1> DEFINE all == Resume(<<>>) \o Rest
           td == DropFromList(all, t)
           dn == DropFromList(done, t)
<1>1. /\ todo # <<>> /\ DropDelivering(td, dn, t)
      /\ UNCHANGED <<retval, halted, forks, sent>>
      /\ held' = [held EXCEPT ![t] = <<>>]
  BY DEF DoKill, Kill, Ready, Forget
<1>2. all \in Seq(Entry) /\ Ids(all) = Ids(todo) /\ Distinct(all)
  BY <1>1, ResumeIds DEF Given
<1>3. done \in Seq(Entry) /\ Distinct(done) /\ Ids(all) \cap Ids(done) = {}
  BY <1>2 DEF TypeOK, RunsOnce
<1> HIDE DEF all
<1>4. td \in Seq(Entry) /\ Ids(td) = Ids(all) \ {t} /\ Distinct(td)
  BY <1>2, DropIds
<1>5. dn \in Seq(Entry) /\ Ids(dn) = Ids(done) \ {t} /\ Distinct(dn)
  BY <1>3, DropIds
<1> HIDE DEF td, dn
<1>6. Ids(td) \cap Ids(dn) = {} /\ Ids(td) \cup Ids(dn) = Runnable \ {t}
  BY <1>2, <1>3, <1>4, <1>5 DEF Runnable
<1>7. /\ todo' \in Seq(Entry) /\ done' \in Seq(Entry)
      /\ slot' \in [Thread -> {"none", "inbox", "cont"}]
      /\ inbox' \in [Thread -> Seq(Envelope)]
      /\ links' \in [Thread -> Thread \cup {NoThread}]
      /\ RunsOnce' /\ NothingOutlives'
  BY <1>1, <1>4, <1>5, <1>6, DropInv
<1>8. TypeOK'
  <2>1. held' \in [Thread -> Seq(Envelope)]
    BY <1>1 DEF TypeOK
  <2> QED BY <1>1, <1>7, <2>1 DEF TypeOK
<1> QED BY <1>7, <1>8

\* fork: the new name is in front of its parent.
LEMMA ForkInv ==
    ASSUME Inv, NEW t \in Thread, NEW link \in BOOLEAN, NEW mailbox \in BOOLEAN,
           DoFork(t, link, mailbox)
    PROVE  Inv'
<1> USE DEF Inv
<1> DEFINE e == [id |-> t, given |-> <<>>]
           all == Resume(<<>>) \o Rest
<1>1. /\ todo # <<>> /\ t \notin Live /\ forks < MaxFork /\ forks' = forks + 1
      /\ todo' = <<e>> \o all
      /\ links' = IF link THEN [links EXCEPT ![t] = Cur] ELSE links
      /\ slot' = IF mailbox THEN [slot EXCEPT ![t] = "inbox"] ELSE slot
      /\ inbox' = IF mailbox THEN [inbox EXCEPT ![t] = <<>>] ELSE inbox
      /\ UNCHANGED <<done, retval, halted, held, sent>>
  BY DEF DoFork, Fork, Ready
<1>2. /\ Cur \in Thread /\ all \in Seq(Entry) /\ Ids(all) = Ids(todo) /\ Distinct(all)
  BY <1>1, ResumeIds DEF Given
<1> HIDE DEF all
<1>3. e \in Entry /\ e.id = t /\ t \notin Ids(all) /\ t \notin Ids(done)
      /\ t \notin Waiting
  BY <1>1, <1>2 DEF Entry, Given, Live, Runnable
<1>4. todo' \in Seq(Entry) /\ Ids(todo') = {t} \cup Ids(todo) /\ Distinct(todo')
  BY <1>1, <1>2, <1>3, ConsIds
<1>5. Runnable' = Runnable \cup {t}
  BY <1>1, <1>4 DEF Runnable
<1>6. Waiting' = Waiting
  BY <1>1, <1>3 DEF Waiting, TypeOK
<1>7. TypeOK'
  BY <1>1, <1>2, <1>4, ThreadAssumption DEF TypeOK
<1>8. RunsOnce'
  BY <1>1, <1>2, <1>3, <1>4, <1>5, <1>6 DEF RunsOnce
<1>9. NothingOutlives'
  BY <1>1, <1>3, <1>5, <1>6 DEF NothingOutlives, Live, TypeOK
<1> QED BY <1>7, <1>8, <1>9

\* A turn that only answers the running thread and may touch its mailbox.
LEMMA AnswerInv ==
    ASSUME Inv, todo # <<>>, NEW answer \in Given,
           todo' = Resume(answer) \o Rest, done' = done, links' = links,
           slot' \in [Thread -> {"none", "inbox", "cont"}],
           inbox' \in [Thread -> Seq(Envelope)],
           \A t \in Thread \ {Cur} : slot'[t] = slot[t] /\ inbox'[t] = inbox[t],
           slot'[Cur] # "cont", slot'[Cur] # "inbox" => inbox'[Cur] = <<>>
    PROVE  /\ todo' \in Seq(Entry) /\ done' \in Seq(Entry)
           /\ RunsOnce' /\ NothingOutlives'
<1> USE DEF Inv
<1>1. /\ Cur \in Thread /\ Cur \in Runnable
      /\ todo' \in Seq(Entry) /\ Ids(todo') = Ids(todo) /\ Distinct(todo')
  BY ResumeIds
<1>2. Runnable' = Runnable
  BY <1>1 DEF Runnable
<1>3. Waiting' = Waiting
  <2>1. Cur \notin Waiting
    BY <1>1 DEF RunsOnce
  <2>2. \A t \in Thread : slot'[t] = "cont" <=> slot[t] = "cont"
    BY <1>1, <2>1 DEF Waiting
  <2> QED BY <2>2 DEF Waiting
<1>4. RunsOnce'
  BY <1>1, <1>2, <1>3 DEF RunsOnce
<1>5. NothingOutlives'
  BY <1>1, <1>2, <1>3 DEF NothingOutlives, Live
<1> QED BY <1>1, <1>4, <1>5 DEF TypeOK

\* return-mails.
LEMMA ReturnMailsInv == Inv /\ DoReturnMails => Inv'
<1> SUFFICES ASSUME Inv, DoReturnMails PROVE Inv'
  OBVIOUS
<1> USE DEF Inv
<1> DEFINE back == Reverse(held[Cur])
<1>1. /\ todo # <<>> /\ todo' = Resume(<<>>) \o Rest
      /\ slot' = [slot EXCEPT ![Cur] = "inbox"]
      /\ inbox' = [inbox EXCEPT ![Cur] = @ \o back]
      /\ held' = [held EXCEPT ![Cur] = <<>>]
      /\ UNCHANGED <<done, links, retval, halted, forks, sent>>
  BY DEF DoReturnMails, ReturnMails, Ready, Forget
<1>2. <<>> \in Given
  BY DEF Given
<1>3. Cur \in Thread
  BY <1>1, <1>2, ResumeIds
<1>4. back \in Seq(Envelope)
  BY <1>3 DEF TypeOK, Reverse
<1>5. inbox[Cur] \o back \in Seq(Envelope)
  BY <1>3, <1>4 DEF TypeOK
<1> HIDE DEF back
<1>6. /\ slot' \in [Thread -> {"none", "inbox", "cont"}]
      /\ inbox' \in [Thread -> Seq(Envelope)]
      /\ \A t \in Thread \ {Cur} : slot'[t] = slot[t] /\ inbox'[t] = inbox[t]
      /\ slot'[Cur] = "inbox"
  BY <1>1, <1>3, <1>5 DEF TypeOK
<1>7. /\ todo' \in Seq(Entry) /\ done' \in Seq(Entry)
      /\ RunsOnce' /\ NothingOutlives'
  BY <1>1, <1>2, <1>6, AnswerInv
<1>8. TypeOK'
  BY <1>1, <1>6, <1>7 DEF TypeOK
<1> QED BY <1>7, <1>8

\* What the programs of the threads remember keeps its types.
Remember ==
    /\ held' \in [Thread -> Seq(Envelope)]
    /\ forks' = forks
    /\ sent' \in 0..MaxMail

\* mail.  A thread that waits is put between the sender and the others.
LEMMA MailTurn ==
    ASSUME Inv, NEW to \in Thread, NEW msg \in 0..MaxMail, Mail(to, msg), Remember
    PROVE  Inv'
<1> USE DEF Inv
<1> DEFINE env == [from |-> Cur, msg |-> msg]
           me == [id |-> Cur, given |-> <<>>]
           e == [id |-> to, given |-> <<env>>]
           w == Waked(slot, to, env)
           ns == SlotAfter(slot, to)
           ni == InboxAfter(slot, inbox, to, env)
<1>1. /\ todo # <<>>
      /\ todo' = <<me>> \o (w \o Rest)
      /\ slot' = ns /\ inbox' = ni
      /\ UNCHANGED <<done, links, retval, halted>>
  BY DEF Mail, Ready, Resume
<1>2. /\ Cur \in Thread /\ Cur \in Runnable
      /\ Rest \in Seq(Entry) /\ Distinct(Rest) /\ Ids(Rest) = Ids(todo) \ {Cur}
      /\ Resume(<<>>) \o Rest \in Seq(Entry)
      /\ Ids(Resume(<<>>) \o Rest) = Ids(todo)
      /\ Distinct(Resume(<<>>) \o Rest)
  BY <1>1, ResumeIds DEF Given
<1>3. env \in Envelope /\ me \in Entry /\ me.id = Cur
  BY <1>2 DEF Envelope, Entry, Given
<1> HIDE DEF env
<1>4. /\ ns \in [Thread -> {"none", "inbox", "cont"}]
      /\ ni \in [Thread -> Seq(Envelope)]
      /\ \A t \in Thread \ {to} : ns[t] = slot[t] /\ ni[t] = inbox[t]
      /\ ns[to] = IF slot[to] = "cont" THEN "inbox" ELSE slot[to]
      /\ slot[to] # "inbox" => ni[to] = inbox[to]
      /\ slot[to] = "cont" => w = <<e>>
      /\ slot[to] # "cont" => w = <<>>
      /\ e \in Entry
  <2>1. /\ slot \in [Thread -> {"none", "inbox", "cont"}]
        /\ inbox \in [Thread -> Seq(Envelope)]
    BY DEF TypeOK
  <2> QED BY <1>3, <2>1, DeliverTypes
<1> HIDE DEF ns, ni, w
<1>5. TypeOK' <=> todo' \in Seq(Entry)
  BY <1>1, <1>4 DEF TypeOK, Remember
<1>6. CASE slot[to] = "cont"
  <2>1. to \notin Runnable /\ to # Cur /\ e.id = to /\ inbox[to] = <<>>
    BY <1>2, <1>6 DEF RunsOnce, NothingOutlives, Waiting
  <2>2. /\ <<e>> \o Rest \in Seq(Entry)
        /\ Ids(<<e>> \o Rest) = {to} \cup Ids(Rest)
        /\ Distinct(<<e>> \o Rest)
    BY <1>2, <1>4, <2>1, ConsIds DEF Runnable
  <2>3. w \o Rest = <<e>> \o Rest
    BY <1>4, <1>6
  <2>4. Cur \notin Ids(<<e>> \o Rest)
    BY <1>2, <2>1, <2>2
  <2>5. /\ todo' \in Seq(Entry) /\ Distinct(todo')
        /\ Ids(todo') = {Cur, to} \cup Ids(Rest)
    <3> DEFINE r == <<e>> \o Rest
    <3>1. r \in Seq(Entry) /\ Distinct(r) /\ Cur \notin Ids(r)
          /\ Ids(r) = {to} \cup Ids(Rest) /\ todo' = <<me>> \o r
      BY <1>1, <2>2, <2>3, <2>4
    <3> HIDE DEF r, me
    <3> QED BY <1>3, <3>1, ConsIds
  <2>6. Cur \in Ids(todo)
    BY <1>1, TailIds DEF TypeOK, Cur
  <2>7. Ids(todo') = Ids(todo) \cup {to}
    BY <1>2, <2>5, <2>6
  <2>8. Runnable' = Runnable \cup {to}
    BY <1>1, <2>7 DEF Runnable
  <2>9. Waiting' = Waiting \ {to}
    BY <1>1, <1>4, <1>6 DEF Waiting
  <2>10. RunsOnce'
    BY <1>1, <2>1, <2>5, <2>7, <2>8, <2>9 DEF RunsOnce, Runnable
  <2>11. NothingOutlives'
    BY <1>1, <1>4, <1>6, <2>8, <2>9 DEF NothingOutlives, Live
  <2> QED BY <1>5, <2>5, <2>10, <2>11
<1>7. CASE slot[to] # "cont"
  <2>1. w \o Rest = Rest
    BY <1>2, <1>4, <1>7
  <2>2. todo' = Resume(<<>>) \o Rest
    BY <1>1, <2>1 DEF Resume
  <2>3. slot' = slot
    BY <1>1, <1>7 DEF ns, SlotAfter
  <2>4. /\ todo' \in Seq(Entry) /\ Ids(todo') = Ids(todo) /\ Distinct(todo')
    BY <1>2, <2>2
  <2>5. Runnable' = Runnable /\ Waiting' = Waiting
    BY <1>1, <2>3, <2>4 DEF Runnable, Waiting
  <2>6. RunsOnce'
    BY <1>1, <2>4, <2>5 DEF RunsOnce
  <2>7. NothingOutlives'
    BY <1>1, <1>4, <1>7, <2>3, <2>5 DEF NothingOutlives, Live
  <2> QED BY <1>5, <2>4, <2>6, <2>7
<1> QED BY <1>6, <1>7

LEMMA MailInv == ASSUME Inv, NEW to \in Thread, DoMail(to) PROVE Inv'
<1>1. sent \in Nat /\ sent < MaxMail /\ held \in [Thread -> Seq(Envelope)]
  BY ThreadAssumption DEF DoMail, Inv, TypeOK
<1>2. sent + 1 \in 0..MaxMail
  BY <1>1, ThreadAssumption
<1>3. /\ Mail(to, sent + 1) /\ sent' = sent + 1 /\ held' = held /\ forks' = forks
  BY DEF DoMail
<1> QED BY <1>1, <1>2, <1>3, MailTurn DEF Remember

\* The three answers to a look at the own inbox.
LEMMA LookInv == Inv /\ DoLook => Inv'
<1> SUFFICES ASSUME Inv, DoLook PROVE Inv'
  OBVIOUS
<1> USE DEF Inv
<1>1. todo # <<>> /\ <<>> \in Given /\ UNCHANGED <<held, forks, sent>>
  BY DEF DoLook, TakeMail, NoMail, WaitMail, Ready, Given
<1>2. /\ Cur \in Thread /\ Cur \in Runnable /\ Rest \in Seq(Entry)
      /\ Ids(Rest) = Ids(todo) \ {Cur} /\ Distinct(Rest)
  BY <1>1, ResumeIds
<1>3. Cur \notin Waiting /\ slot[Cur] # "cont"
  BY <1>2 DEF RunsOnce, Waiting
<1>4. CASE TakeMail
  <2> DEFINE q == inbox[Cur]
             answer == <<Head(q)>>
  <2>1. /\ q # <<>> /\ todo' = Resume(answer) \o Rest
        /\ inbox' = [inbox EXCEPT ![Cur] = Tail(q)]
        /\ UNCHANGED <<done, slot, links, retval, halted>>
    BY <1>4 DEF TakeMail
  <2>2. q \in Seq(Envelope)
    BY <1>2 DEF TypeOK
  <2>3. Head(q) \in Envelope /\ Tail(q) \in Seq(Envelope)
    BY <2>1, <2>2
  <2>4. answer \in Given
    BY <2>3 DEF Given
  <2>5. slot[Cur] = "inbox"
    BY <1>2, <2>1 DEF NothingOutlives
  <2> HIDE DEF answer, q
  <2>6. /\ slot' \in [Thread -> {"none", "inbox", "cont"}]
        /\ inbox' \in [Thread -> Seq(Envelope)]
        /\ \A t \in Thread \ {Cur} : slot'[t] = slot[t] /\ inbox'[t] = inbox[t]
        /\ slot'[Cur] = "inbox"
    BY <1>2, <2>1, <2>3, <2>5 DEF TypeOK
  <2>7. /\ todo' \in Seq(Entry) /\ done' \in Seq(Entry)
        /\ RunsOnce' /\ NothingOutlives'
    BY <1>1, <2>1, <2>4, <2>6, AnswerInv
  <2>8. TypeOK'
    BY <1>1, <2>1, <2>6, <2>7 DEF TypeOK
  <2> QED BY <2>7, <2>8
<1>5. CASE NoMail
  <2>1. /\ todo' = Resume(<<>>) \o Rest
        /\ UNCHANGED <<done, slot, inbox, links, retval, halted>>
    BY <1>5 DEF NoMail
  <2>2. slot'[Cur] # "cont" /\ (slot'[Cur] # "inbox" => inbox'[Cur] = <<>>)
    BY <1>2, <1>3, <2>1 DEF NothingOutlives
  <2>3. /\ todo' \in Seq(Entry) /\ done' \in Seq(Entry)
        /\ RunsOnce' /\ NothingOutlives'
    BY <1>1, <2>1, <2>2, AnswerInv DEF TypeOK
  <2>4. TypeOK'
    BY <1>1, <2>1, <2>3 DEF TypeOK
  <2> QED BY <2>3, <2>4
<1>6. CASE WaitMail
  <2>1. /\ inbox[Cur] = <<>> /\ todo' = Rest
        /\ slot' = [slot EXCEPT ![Cur] = "cont"]
        /\ UNCHANGED <<done, inbox, links, retval, halted>>
    BY <1>6 DEF WaitMail
  <2>2. Cur \in Ids(todo)
    BY <1>1, TailIds DEF TypeOK, Cur
  <2>3. Cur \notin Ids(done)
    BY <2>2 DEF RunsOnce
  <2>4. Runnable' = Runnable \ {Cur}
    BY <1>2, <2>1, <2>3 DEF Runnable
  <2>5. Waiting' = Waiting \cup {Cur}
    BY <1>2, <2>1 DEF Waiting, TypeOK
  <2>6. RunsOnce'
    BY <1>2, <2>1, <2>4, <2>5 DEF RunsOnce
  <2>7. NothingOutlives'
    BY <1>2, <2>1, <2>4, <2>5 DEF NothingOutlives, Live, TypeOK
  <2>8. TypeOK'
    BY <1>1, <1>2, <2>1 DEF TypeOK
  <2> QED BY <2>6, <2>7, <2>8
<1> QED BY <1>4, <1>5, <1>6 DEF DoLook

\* The proposed exit value is the only thing that changes.
LEMMA ProposeInv == ASSUME Inv, NEW v \in ExitValue, DoPropose(v) PROVE Inv'
<1> USE DEF Inv
<1>1. /\ todo # <<>> /\ <<>> \in Given
      /\ todo' = Resume(<<>>) \o Rest /\ retval' = v
      /\ UNCHANGED <<done, slot, inbox, links, halted, held, forks, sent>>
  BY DEF DoPropose, ProposeReturnValue, Ready, Given
<1>2. Cur \in Thread /\ Cur \in Runnable
  BY <1>1, ResumeIds
<1>3. slot[Cur] # "cont"
  BY <1>2 DEF RunsOnce, Waiting
<1>4. slot'[Cur] # "cont" /\ (slot'[Cur] # "inbox" => inbox'[Cur] = <<>>)
  BY <1>1, <1>2, <1>3 DEF NothingOutlives
<1>5. /\ todo' \in Seq(Entry) /\ done' \in Seq(Entry)
      /\ RunsOnce' /\ NothingOutlives'
  BY <1>1, <1>4, AnswerInv DEF TypeOK
<1>6. TypeOK'
  BY <1>1, <1>5, ThreadAssumption DEF TypeOK
<1> QED BY <1>5, <1>6

\* A thread uses the envelope it was woken with.
LEMMA ConsumeInv == ASSUME Inv, NEW keep \in BOOLEAN, DoConsume(keep) PROVE Inv'
<1> USE DEF Inv
<1> DEFINE g == Head(todo).given
<1>1. /\ todo # <<>> /\ <<>> \in Given
      /\ todo' = Resume(<<>>) \o Rest
      /\ held' = IF keep THEN [held EXCEPT ![Cur] = g \o @] ELSE held
      /\ UNCHANGED <<done, slot, inbox, links, retval, halted, forks, sent>>
  BY DEF DoConsume, Consume, Given
<1>2. Cur \in Thread /\ Cur \in Runnable
  BY <1>1, ResumeIds
<1>3. slot[Cur] # "cont"
  BY <1>2 DEF RunsOnce, Waiting
<1>4. slot'[Cur] # "cont" /\ (slot'[Cur] # "inbox" => inbox'[Cur] = <<>>)
  BY <1>1, <1>2, <1>3 DEF NothingOutlives
<1>5. /\ todo' \in Seq(Entry) /\ done' \in Seq(Entry)
      /\ RunsOnce' /\ NothingOutlives'
  BY <1>1, <1>4, AnswerInv DEF TypeOK
<1>6. held' \in [Thread -> Seq(Envelope)]
  <2>1. Head(todo) \in Entry
    BY <1>1, TailIds DEF TypeOK
  <2>2. g \in Seq(Envelope)
    <3>1. g \in Given
      BY <2>1 DEF Entry
    <3> HIDE DEF g
    <3>2. ASSUME NEW x \in Given PROVE x \in Seq(Envelope)
      <4>1. CASE x = <<>>
        BY <4>1
      <4>2. ASSUME NEW y \in Envelope, x = <<y>> PROVE x \in Seq(Envelope)
        BY <4>2
      <4> QED BY <4>1, <4>2 DEF Given
    <3> QED BY <3>1, <3>2
  <2> HIDE DEF g
  <2>3. held \in [Thread -> Seq(Envelope)] /\ g \o held[Cur] \in Seq(Envelope)
    BY <1>2, <2>2 DEF TypeOK
  <2> QED BY <1>1, <2>3
<1>7. TypeOK'
  BY <1>1, <1>5, <1>6 DEF TypeOK
<1> QED BY <1>5, <1>7

------------------------------------------------------------------------------
\* Every turn of the controller keeps the invariant.
LEMMA NextInv == Inv /\ [Next]_vars => Inv'
<1> SUFFICES ASSUME Inv, [Next]_vars PROVE Inv'
  OBVIOUS
<1>1. CASE DoSchedule
  BY <1>1, ScheduleInv
<1>2. CASE DoEnd
  BY <1>2, EndInv
<1>3. ASSUME NEW t \in Thread, NEW link \in BOOLEAN, NEW mailbox \in BOOLEAN,
             DoFork(t, link, mailbox)
      PROVE  Inv'
  BY <1>3, ForkInv
<1>4. CASE DoReturnMails
  BY <1>4, ReturnMailsInv
<1>5. ASSUME NEW to \in Thread, DoMail(to) PROVE Inv'
  BY <1>5, MailInv
<1>6. CASE DoLook
  BY <1>6, LookInv
<1>7. ASSUME NEW t \in Thread, DoKill(t) PROVE Inv'
  BY <1>7, KillInv
<1>8. ASSUME NEW v \in ExitValue, DoPropose(v) PROVE Inv'
  BY <1>8, ProposeInv
<1>9. ASSUME NEW keep \in BOOLEAN, DoConsume(keep) PROVE Inv'
  BY <1>9, ConsumeInv
<1>10. CASE UNCHANGED vars
  <2>1. UNCHANGED <<todo, done, slot, inbox, links, retval, halted, held, forks, sent>>
    BY <1>10 DEF vars
  <2>2. Runnable' = Runnable /\ Waiting' = Waiting
    BY <2>1 DEF Runnable, Waiting
  <2>3. TypeOK'
    <3>1. TypeOK
      BY DEF Inv
    <3>2. halted' \in BOOLEAN
      BY <2>1, <3>1 DEF TypeOK
    <3> QED BY <2>1, <3>1, <3>2 DEF TypeOK
  <2>4. RunsOnce'
    BY <2>1, <2>2 DEF Inv, RunsOnce
  <2>5. NothingOutlives'
    BY <2>1, <2>2 DEF Inv, NothingOutlives, Live
  <2> QED BY <2>3, <2>4, <2>5 DEF Inv
<1> QED
  BY <1>1, <1>2, <1>3, <1>4, <1>5, <1>6, <1>7, <1>8, <1>9, <1>10 DEF Next

\* The invariant holds in every state of the controller.
THEOREM Invariance == Spec => []Inv
<1>1. Init => Inv
  BY InitInv
<1>2. Inv /\ [Next]_vars => Inv'
  BY NextInv
<1> QED BY <1>1, <1>2, PTL DEF Spec

\* The state of the controller is well formed, in every turn.
THEOREM TypeCorrect == Spec => []TypeOK
<1>1. Inv => TypeOK
  BY DEF Inv
<1> QED BY <1>1, Invariance, PTL

\* No interleaving of forks, mails, wakings, kills, crashes and time slices
\* leaves two copies of a thread, or one that runs and waits.
THEOREM EachRunsOnce == Spec => []RunsOnce
<1>1. Inv => RunsOnce
  BY DEF Inv
<1> QED BY <1>1, Invariance, PTL

\* A thread that ends takes its mailbox, its mail and its link with it, even
\* when it is killed by another one or when its name is used again.
THEOREM NothingOutlivesItsThread == Spec => []NothingOutlives
<1>1. Inv => NothingOutlives
  BY DEF Inv
<1> QED BY <1>1, Invariance, PTL
==============================================================================
