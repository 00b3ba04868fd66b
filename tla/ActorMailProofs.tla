--------------------------- MODULE ActorMailProofs ---------------------------
(***************************************************************************)
(* The thread controller does what ActorMail.tla promises, for any set of  *)
(* thread names and any bounds: every turn is, through the refinement      *)
(* mapping of Threading.tla, a step of ActorMail.tla or no step; and a     *)
(* message is in one place.                                                *)
(*                                                                         *)
(* A box of ActorMail.tla is what the entry of a thread in the run lists   *)
(* was given, followed by its inbox.  The proofs look at the run lists as  *)
(* sets of entries, one for each thread that runs: what moves an entry     *)
(* about, in and between the lists, is then no step.                       *)
(***************************************************************************)
EXTENDS ThreadingProofs, FiniteSetTheorems

------------------------------------------------------------------------------
(* The run lists as sets of entries.                                       *)

\* A thread put in front of a run list.
LEMMA ConsSet ==
    ASSUME NEW e \in Entry, NEW s \in Seq(Entry)
    PROVE  ToSet(<<e>> \o s) = {e} \cup ToSet(s)
<1> DEFINE r == <<e>> \o s
<1>1. /\ DOMAIN r = 1..Len(r) /\ DOMAIN s = 1..Len(s) /\ Len(r) = Len(s) + 1
      /\ r[1] = e
      /\ \A i \in 1..Len(s) : r[i + 1] = s[i]
  OBVIOUS
<1>2. \A i \in 1..Len(r) : i = 1 \/ (i - 1 \in 1..Len(s) /\ r[i] = s[i - 1])
  BY <1>1
<1> HIDE DEF r
<1>3. ToSet(r) \subseteq {e} \cup ToSet(s)
  <2>1. ASSUME NEW i \in 1..Len(r) PROVE r[i] \in {e} \cup ToSet(s)
    BY <1>1, <1>2 DEF ToSet
  <2> QED BY <1>1, <2>1 DEF ToSet
<1>4. {e} \cup ToSet(s) \subseteq ToSet(r)
  <2>1. e \in ToSet(r)
    BY <1>1 DEF ToSet
  <2>2. ASSUME NEW i \in 1..Len(s) PROVE s[i] \in ToSet(r)
    BY <1>1, i + 1 \in 1..Len(r) DEF ToSet
  <2> QED BY <1>1, <2>1, <2>2 DEF ToSet
<1> QED BY <1>3, <1>4 DEF r

\* A run list without its head.
LEMMA TailSet ==
    ASSUME NEW s \in Seq(Entry), s # <<>>
    PROVE  ToSet(s) = {Head(s)} \cup ToSet(Tail(s))
<1>1. Head(s) \in Entry /\ Tail(s) \in Seq(Entry) /\ s = <<Head(s)>> \o Tail(s)
  OBVIOUS
<1>2. ToSet(<<Head(s)>> \o Tail(s)) = {Head(s)} \cup ToSet(Tail(s))
  BY <1>1, ConsSet
<1> QED BY <1>1, <1>2

\* The names in a run list are those of its entries.
LEMMA IdsOfSet ==
    ASSUME NEW s \in Seq(Entry)
    PROVE  /\ Ids(s) = {e.id : e \in ToSet(s)}
           /\ ToSet(s) \subseteq Entry
  BY DEF Ids, ToSet

\* In a run list a name stands for one entry.
LEMMA OneEntry ==
    ASSUME NEW s \in Seq(Entry), Distinct(s), NEW e \in ToSet(s), NEW f \in ToSet(s),
           e.id = f.id
    PROVE  e = f
  BY DEF Distinct, ToSet

\* drop-from-list takes the entry of that thread out of the set.
LEMMA DropSet ==
    ASSUME NEW s \in Seq(Entry), NEW t \in Thread, Distinct(s)
    PROVE  ToSet(DropFromList(s, t)) = {e \in ToSet(s) : e.id # t}
<1> DEFINE I == {i \in 1..Len(s) : s[i].id = t}
<1>1. CASE I = {}
  <2>1. DropFromList(s, t) = s
    BY <1>1 DEF DropFromList, RemoveFirstMatch
  <2> QED BY <1>1, <2>1 DEF ToSet
<1>2. CASE I # {}
  <2>1. PICK k \in 1..Len(s) : s[k].id = t
    BY <1>2
  <2> DEFINE r == DropFromList(s, t)
  <2>2. /\ r \in Seq(Entry) /\ Len(r) = Len(s) - 1
        /\ \A i \in 1..Len(r) : r[i] = IF i < k THEN s[i] ELSE s[i + 1]
    BY <2>1, DropShape
  <2> HIDE DEF r
  <2>3. \A e \in ToSet(r) : e \in ToSet(s) /\ e.id # t
    <3>1. ASSUME NEW i \in 1..Len(r) PROVE r[i] \in ToSet(s) /\ r[i].id # t
      <4> DEFINE j == IF i < k THEN i ELSE i + 1
      <4>1. j \in 1..Len(s) /\ j # k /\ r[i] = s[j]
        BY <2>2
      <4> QED BY <2>1, <4>1 DEF ToSet, Distinct
    <3> QED BY <2>2, <3>1 DEF ToSet
  <2>4. \A e \in ToSet(s) : e.id # t => e \in ToSet(r)
    <3>1. ASSUME NEW i \in 1..Len(s), s[i].id # t PROVE s[i] \in ToSet(r)
      <4> DEFINE j == IF i < k THEN i ELSE i - 1
      <4>1. j \in 1..Len(r) /\ r[j] = s[i]
        BY <2>1, <2>2, <3>1
      <4> QED BY <2>2, <4>1 DEF ToSet
    <3> QED BY <3>1 DEF ToSet
  <2> QED BY <2>3, <2>4 DEF r
<1> QED BY <1>1, <1>2

------------------------------------------------------------------------------
\* What thread t was given, when the run lists are td and dn.
Both(td, dn) == ToSet(td) \cup ToSet(dn)
GivenOf(td, dn, t) ==
    IF t \in Ids(td) \cup Ids(dn) THEN (CHOOSE e \in Both(td, dn) : e.id = t).given ELSE <<>>

Proper(td, dn) ==
    /\ td \in Seq(Entry) /\ dn \in Seq(Entry)
    /\ Distinct(td) /\ Distinct(dn) /\ Ids(td) \cap Ids(dn) = {}

\* A box, in this state and in the next one.
LEMMA BoxIs ==
    ASSUME NEW t \in Thread
    PROVE  /\ Box(t) = GivenOf(todo, done, t) \o inbox[t]
           /\ Box(t)' = GivenOf(todo', done', t) \o inbox'[t]
  BY DEF Box, GivenOf, EntryOf, Runnable, Both

\* What a thread was given is what its entry says.
LEMMA GivenIs ==
    ASSUME NEW td, NEW dn, Proper(td, dn), NEW e \in Both(td, dn)
    PROVE  GivenOf(td, dn, e.id) = e.given /\ e \in Entry /\ e.id \in Ids(td) \cup Ids(dn)
<1>1. /\ Ids(td) = {x.id : x \in ToSet(td)} /\ ToSet(td) \subseteq Entry
      /\ Ids(dn) = {x.id : x \in ToSet(dn)} /\ ToSet(dn) \subseteq Entry
  BY IdsOfSet DEF Proper
<1>2. ASSUME NEW f \in Both(td, dn), f.id = e.id PROVE f = e
  <2>1. CASE e \in ToSet(td) /\ f \in ToSet(td)
    BY <1>2, <2>1, OneEntry DEF Proper
  <2>2. CASE e \in ToSet(dn) /\ f \in ToSet(dn)
    BY <1>2, <2>2, OneEntry DEF Proper
  <2>3. ~ (e \in ToSet(td) /\ f \in ToSet(dn)) /\ ~ (f \in ToSet(td) /\ e \in ToSet(dn))
    BY <1>1, <1>2 DEF Proper
  <2> QED BY <2>1, <2>2, <2>3 DEF Both
<1>3. (CHOOSE x \in Both(td, dn) : x.id = e.id) = e
  BY <1>2
<1>4. e.id \in Ids(td) \cup Ids(dn)
  BY <1>1 DEF Both
<1> QED BY <1>1, <1>3, <1>4 DEF GivenOf, Both

\* A thread of the run lists has an entry.
LEMMA GivenEntry ==
    ASSUME NEW td, NEW dn, Proper(td, dn), NEW t \in Ids(td) \cup Ids(dn)
    PROVE  \E e \in Both(td, dn) : e.id = t
  BY IdsOfSet DEF Proper, Both

\* A thread whose entry is in the same two lists, or not in them, was given the same.
LEMMA GivenSame ==
    ASSUME NEW td, NEW dn, Proper(td, dn), NEW td2, NEW dn2, Proper(td2, dn2), NEW t,
           \A e : e.id = t => (e \in Both(td, dn) <=> e \in Both(td2, dn2))
    PROVE  GivenOf(td, dn, t) = GivenOf(td2, dn2, t)
<1>1. CASE t \in Ids(td) \cup Ids(dn)
  <2>1. PICK e \in Both(td, dn) : e.id = t
    BY <1>1, GivenEntry
  <2>2. e \in Both(td2, dn2)
    BY <2>1
  <2> QED BY <2>1, <2>2, GivenIs
<1>2. CASE t \in Ids(td2) \cup Ids(dn2)
  <2>1. PICK e \in Both(td2, dn2) : e.id = t
    BY <1>2, GivenEntry
  <2>2. e \in Both(td, dn)
    BY <2>1
  <2> QED BY <2>1, <2>2, GivenIs
<1> QED BY <1>1, <1>2 DEF GivenOf

------------------------------------------------------------------------------
\* The refinement mapping, and what else it needs: who is gone keeps no mail.
Open  == {t \in Thread : slot[t] # "none"}
Boxes == [t \in Thread |-> Box(t)]
Kept  == [t \in Thread |-> Reverse(held[t])]

KeptLive == \A t \in Thread : t \notin Live => Kept[t] = <<>>

\* The run lists are proper, in this state and in the next one.
LEMMA InvProper == Inv => Proper(todo, done)
  BY DEF Inv, TypeOK, RunsOnce, Proper

LEMMA InvProperNext == Inv' => Proper(todo', done')
  BY DEF Inv, TypeOK, RunsOnce, Proper

\* The lists after an answer to the running thread.
LEMMA AnswerGiven ==
    ASSUME Inv, Inv', todo # <<>>, NEW answer \in Given,
           todo' = Resume(answer) \o Rest, done' = done
    PROVE  /\ Cur \in Thread /\ Cur \in Runnable /\ Runnable' = Runnable
           /\ GivenOf(todo, done, Cur) = Head(todo).given
           /\ GivenOf(todo', done', Cur) = answer
           /\ \A t \in Thread \ {Cur} : GivenOf(todo', done', t) = GivenOf(todo, done, t)
<1> DEFINE e == [id |-> Cur, given |-> answer]
<1>1. /\ Cur \in Thread /\ Cur \in Runnable
      /\ Rest \in Seq(Entry)
      /\ Ids(todo') = Ids(todo)
  BY ResumeIds
<1>2. Proper(todo, done) /\ Proper(todo', done')
  BY InvProper, InvProperNext
<1>3. e \in Entry
  BY <1>1 DEF Entry
<1>4. ToSet(todo') = {e} \cup ToSet(Rest)
  BY <1>1, <1>3, ConsSet DEF Resume
<1>5. ToSet(todo) = {Head(todo)} \cup ToSet(Rest)
  BY <1>2, TailSet DEF Proper, Rest
<1>6. GivenOf(todo, done, Cur) = Head(todo).given
  BY <1>2, <1>5, GivenIs DEF Both, Cur
<1>7. GivenOf(todo', done', Cur) = answer
  <2>1. e.id = Cur /\ e.given = answer /\ e \in Both(todo', done')
    BY <1>4 DEF Both
  <2> HIDE DEF e
  <2> QED BY <1>2, <2>1, GivenIs
<1>8. ASSUME NEW t \in Thread \ {Cur}
      PROVE  GivenOf(todo', done', t) = GivenOf(todo, done, t)
  <2>1. \A x : x.id = t => (x \in Both(todo', done') <=> x \in Both(todo, done))
    BY <1>4, <1>5 DEF Both, Cur
  <2> QED BY <1>2, <2>1, GivenSame
<1> QED BY <1>1, <1>6, <1>7, <1>8 DEF Runnable

\* Sequences of envelopes.
LEMMA SeqFacts ==
    ASSUME NEW a \in Seq(Envelope), NEW b \in Seq(Envelope), NEW c \in Seq(Envelope),
           NEW e \in Envelope
    PROVE  /\ <<>> \o a = a /\ a \o <<>> = a
           /\ a \o Append(b, e) = Append(a \o b, e)
           /\ (a \o b) \o c = a \o (b \o c)
           /\ a \o b \in Seq(Envelope) /\ Append(a, e) \in Seq(Envelope)
           /\ <<e>> \in Seq(Envelope)
           /\ <<e>> \o a # <<>> /\ Head(<<e>> \o a) = e /\ Tail(<<e>> \o a) = a
           /\ Append(<<>>, e) = <<e>>
           /\ Append(a, e) = a \o <<e>>
<1>1. (a \o b) \o c = a \o (b \o c)
  BY ConcatAssociative
<1>2. Append(a, e) = a \o <<e>>
  BY AppendIsConcat
<1>3. a \o Append(b, e) = Append(a \o b, e)
  <2>1. <<e>> \in Seq(Envelope) /\ a \o b \in Seq(Envelope)
    OBVIOUS
  <2>2. (a \o b) \o <<e>> = a \o (b \o <<e>>)
    BY <2>1, ConcatAssociative
  <2> QED BY <2>1, <2>2, AppendIsConcat
<1> QED BY <1>1, <1>2, <1>3

\* Reversed lists of envelopes.
LEMMA ReverseIs ==
    ASSUME NEW s \in Seq(Envelope)
    PROVE  /\ Reverse(s) \in Seq(Envelope)
           /\ Len(Reverse(s)) = Len(s)
           /\ \A i \in 1..Len(s) : Reverse(s)[i] = s[Len(s) - i + 1]
<1>1. /\ Len(s) \in Nat
      /\ \A i \in 1..Len(s) : Len(s) - i + 1 \in 1..Len(s) /\ s[Len(s) - i + 1] \in Envelope
  OBVIOUS
<1>2. Reverse(s) = [i \in 1..Len(s) |-> s[Len(s) - i + 1]]
  BY <1>1 DEF Reverse
<1>3. Reverse(s) \in [1..Len(s) -> Envelope]
  BY <1>1, <1>2
<1> QED BY <1>1, <1>2, <1>3, IsASeq

LEMMA ReverseNone == Reverse(<<>>) = <<>>
<1>1. <<>> \in Seq(Envelope) /\ Len(<<>>) = 0
  OBVIOUS
<1>2. Reverse(<<>>) \in Seq(Envelope) /\ Len(Reverse(<<>>)) = 0
  BY <1>1, ReverseIs
<1> QED BY <1>2, EmptySeq

\* A thread is given nothing or one envelope.
LEMMA GivenType ==
    /\ Given \subseteq Seq(Envelope) /\ <<>> \in Given
    /\ \A g \in Given : g # <<>> => \E e \in Envelope : g = <<e>>
<1>1. ASSUME NEW g \in Given PROVE g \in Seq(Envelope) /\ (g # <<>> => \E e \in Envelope : g = <<e>>)
  <2>1. CASE g = <<>>
    BY <2>1
  <2>2. CASE \E e \in Envelope : g = <<e>>
    BY <2>2
  <2> QED BY <2>1, <2>2 DEF Given
<1> QED BY <1>1 DEF Given

LEMMA GivenOfType ==
    ASSUME NEW td, NEW dn, Proper(td, dn), NEW t
    PROVE  GivenOf(td, dn, t) \in Given
<1>1. CASE t \in Ids(td) \cup Ids(dn)
  <2>1. PICK e \in Both(td, dn) : e.id = t
    BY <1>1, GivenEntry
  <2> QED BY <2>1, GivenIs DEF Entry
<1>2. CASE t \notin Ids(td) \cup Ids(dn)
  BY <1>2, GivenType DEF GivenOf
<1> QED BY <1>1, <1>2

LEMMA BoxesAre ==
    /\ Boxes = [t \in Thread |-> GivenOf(todo, done, t) \o inbox[t]]
    /\ Boxes' = [t \in Thread |-> GivenOf(todo', done', t) \o inbox'[t]]
  BY BoxIs DEF Boxes

\* Only a thread that is there, and does not wait, has mail.
LEMMA BoxType ==
    ASSUME Inv
    PROVE  /\ Boxes \in [Thread -> Seq(Envelope)]
           /\ \A t \in Thread : t \notin Live => Boxes[t] = <<>>
           /\ \A t \in Waiting : Boxes[t] = <<>>
<1>1. ASSUME NEW t \in Thread PROVE Boxes[t] \in Seq(Envelope)
  <2>1. GivenOf(todo, done, t) \in Seq(Envelope) /\ inbox[t] \in Seq(Envelope)
    BY InvProper, GivenOfType, GivenType DEF Inv, TypeOK
  <2> QED BY <2>1, BoxesAre
<1>2. ASSUME NEW t \in Thread, t \notin Runnable, slot[t] # "inbox" PROVE Boxes[t] = <<>>
  <2>1. GivenOf(todo, done, t) = <<>> /\ inbox[t] = <<>>
    BY <1>2 DEF GivenOf, Runnable, Inv, NothingOutlives
  <2> QED BY <2>1, BoxesAre
<1>3. \A t \in Waiting : t \in Thread /\ t \notin Runnable /\ slot[t] # "inbox"
  BY DEF Waiting, Inv, RunsOnce
<1>4. \A t \in Thread : t \notin Live => t \notin Runnable /\ slot[t] # "inbox"
  BY DEF Live, Inv, NothingOutlives
<1>5. Boxes \in [Thread -> Seq(Envelope)]
  BY <1>1, BoxesAre
<1> QED BY <1>2, <1>3, <1>4, <1>5

------------------------------------------------------------------------------
LEMMA BoxTypeNext == Inv' => Boxes' \in [Thread -> Seq(Envelope)]
<1> SUFFICES ASSUME Inv' PROVE Boxes' \in [Thread -> Seq(Envelope)]
  OBVIOUS
<1>1. ASSUME NEW t \in Thread PROVE Boxes'[t] \in Seq(Envelope)
  <2>1. GivenOf(todo', done', t) \in Seq(Envelope) /\ inbox'[t] \in Seq(Envelope)
    BY InvProperNext, GivenOfType, GivenType DEF Inv, TypeOK
  <2> QED BY <2>1, BoxesAre
<1> QED BY <1>1, BoxesAre

\* The lists are another order of the same entries.
LEMMA ScheduleMaps ==
    ASSUME Inv, Inv', DoSchedule
    PROVE  /\ UNCHANGED <<Live, Open, Boxes, Kept, links, sent>>
           /\ \A t \in Thread : GivenOf(todo', done', t) = GivenOf(todo, done, t)
<1>1. UNCHANGED <<slot, inbox, links, held, sent>>
  BY DEF DoSchedule, NewRound, HaltThreadController, TimeSlice
<1>2. Both(todo', done') = Both(todo, done)
  <2>1. CASE NewRound
    BY <2>1 DEF NewRound, Both, ToSet
  <2>2. CASE HaltThreadController
    BY <2>2 DEF HaltThreadController
  <2>3. CASE TimeSlice
    <3>1. Head(todo) \in Entry /\ ToSet(todo) = {Head(todo)} \cup ToSet(Rest)
      BY <2>3, TailSet, TailIds DEF TimeSlice, Inv, TypeOK, Rest
    <3>2. ToSet(done') = {Head(todo)} \cup ToSet(done)
      BY <2>3, <3>1, ConsSet DEF TimeSlice, Inv, TypeOK
    <3>3. todo' = Rest
      BY <2>3 DEF TimeSlice
    <3> QED BY <3>1, <3>2, <3>3 DEF Both
  <2> QED BY <2>1, <2>2, <2>3 DEF DoSchedule
<1>3. Runnable = {e.id : e \in Both(todo, done)} /\ Runnable' = {e.id : e \in Both(todo', done')}
  <2>1. Proper(todo, done) /\ Proper(todo', done')
    BY InvProper, InvProperNext
  <2> QED BY <2>1, IdsOfSet DEF Proper, Runnable, Both
<1>4. \A t \in Thread : GivenOf(todo', done', t) = GivenOf(todo, done, t)
  BY <1>2, InvProper, InvProperNext, GivenSame
<1>5. Boxes' = Boxes
  BY <1>1, <1>4, BoxesAre
<1> QED BY <1>1, <1>2, <1>3, <1>4, <1>5 DEF Live, Waiting, Open, Kept

\* A turn that answers nothing to a thread that was given nothing.
LEMMA AnswerNone ==
    ASSUME Inv, Inv', Ready, todo' = Resume(<<>>) \o Rest,
           UNCHANGED <<done, slot, inbox, links, held>>
    PROVE  /\ UNCHANGED <<Live, Open, Boxes, Kept, links>>
           /\ \A t \in Thread : GivenOf(todo', done', t) = GivenOf(todo, done, t)
<1>1. /\ Runnable' = Runnable
      /\ \A t \in Thread : GivenOf(todo', done', t) = GivenOf(todo, done, t)
  <2>1. todo # <<>> /\ <<>> \in Given /\ Head(todo).given = <<>>
    BY DEF Ready, Given
  <2> QED BY <2>1, AnswerGiven
<1>2. Boxes' = Boxes
  BY <1>1, BoxesAre
<1> QED BY <1>1, <1>2 DEF Live, Waiting, Open, Kept

\* A thread that waits leaves its continuation, and listens from now on.
LEMMA WaitBoxes ==
    ASSUME Inv, Inv', WaitMail
    PROVE  /\ UNCHANGED <<Live, Boxes, links>> /\ Cur \in Live
           /\ Open' = Open \cup {Cur}
           /\ GivenOf(todo', done', Cur) = <<>>
           /\ \A t \in Thread \ {Cur} : GivenOf(todo', done', t) = GivenOf(todo, done, t)
<1>1. /\ todo # <<>> /\ <<>> \in Given /\ Head(todo).given = <<>>
      /\ inbox[Cur] = <<>> /\ todo' = Rest
      /\ slot' = [slot EXCEPT ![Cur] = "cont"]
      /\ UNCHANGED <<done, inbox, links>>
  BY DEF WaitMail, Ready, Given
<1>2. /\ Cur \in Thread /\ Cur \in Runnable /\ Rest \in Seq(Entry)
      /\ Ids(Rest) = Ids(todo) \ {Cur}
  BY <1>1, ResumeIds
<1>3. Live' = Live /\ Cur \in Live
  <2>1. Runnable' \cup {Cur} = Runnable
    BY <1>1, <1>2 DEF Runnable
  <2>2. Waiting' = Waiting \cup {Cur}
    BY <1>1, <1>2 DEF Waiting, Inv, TypeOK
  <2> QED BY <1>2, <2>1, <2>2 DEF Live
<1>4. Open' = Open \cup {Cur}
  BY <1>1, <1>2 DEF Inv, TypeOK, Open
<1>5. ToSet(todo) = {Head(todo)} \cup ToSet(Rest)
  BY <1>1, TailSet DEF Inv, TypeOK, Rest
<1>6. ASSUME NEW t \in Thread \ {Cur}
      PROVE  GivenOf(todo', done', t) = GivenOf(todo, done, t)
  <2>1. \A x : x.id = t => (x \in Both(todo', done') <=> x \in Both(todo, done))
    BY <1>1, <1>5 DEF Both, Cur
  <2> QED BY <2>1, InvProper, InvProperNext, GivenSame
<1>7. GivenOf(todo, done, Cur) = <<>>
  <2>1. Head(todo) \in Both(todo, done)
    BY <1>5 DEF Both
  <2> QED BY <1>1, <2>1, InvProper, GivenIs DEF Cur
<1>8. GivenOf(todo', done', Cur) = <<>>
  <2>1. Cur \notin Ids(done)
    BY <1>1, TailIds DEF Inv, RunsOnce, TypeOK, Cur
  <2> QED BY <1>1, <1>2, <2>1 DEF GivenOf
<1>9. Boxes' = Boxes
  <2>1. Boxes[Cur] = <<>> /\ Boxes'[Cur] = <<>>
    BY <1>1, <1>2, <1>7, <1>8, BoxesAre
  <2> QED BY <1>1, <1>2, <1>6, <2>1, BoxesAre
<1> QED BY <1>1, <1>3, <1>4, <1>6, <1>8, <1>9

\* The first envelope of the inbox is given to the thread: its mail is the same.
LEMMA TakeBoxes ==
    ASSUME Inv, Inv', TakeMail
    PROVE  /\ UNCHANGED <<Live, Open, Boxes, links>>
           /\ GivenOf(todo, done, Cur) = <<>> /\ GivenOf(todo', done', Cur) # <<>>
           /\ \A t \in Thread \ {Cur} : GivenOf(todo', done', t) = GivenOf(todo, done, t)
<1> DEFINE q == inbox[Cur]
           answer == <<Head(q)>>
<1>1. /\ todo # <<>> /\ <<>> \in Given /\ Head(todo).given = <<>>
      /\ q # <<>> /\ todo' = Resume(answer) \o Rest
      /\ inbox' = [inbox EXCEPT ![Cur] = Tail(q)]
      /\ UNCHANGED <<done, slot, links>>
  BY DEF TakeMail, Ready, Given
<1>2. Cur \in Thread
  BY <1>1, ResumeIds
<1>3. q \in Seq(Envelope)
  BY <1>2 DEF Inv, TypeOK
<1>4. Head(q) \in Envelope /\ Tail(q) \in Seq(Envelope) /\ q = answer \o Tail(q)
  BY <1>1, <1>3
<1>5. answer \in Given /\ answer # <<>>
  BY <1>4 DEF Given
<1>6. inbox'[Cur] = Tail(q)
  BY <1>1, <1>2 DEF Inv, TypeOK
<1> HIDE DEF answer, q
<1>7. /\ Runnable' = Runnable
      /\ GivenOf(todo, done, Cur) = <<>>
      /\ GivenOf(todo', done', Cur) = answer
      /\ \A t \in Thread \ {Cur} : GivenOf(todo', done', t) = GivenOf(todo, done, t)
  BY <1>1, <1>5, AnswerGiven
<1>8. Boxes' = Boxes
  <2>1. GivenOf(todo, done, Cur) \o q = GivenOf(todo', done', Cur) \o Tail(q)
    BY <1>3, <1>4, <1>7
  <2>2. \A t \in Thread \ {Cur} : inbox'[t] = inbox[t]
    BY <1>1 DEF Inv, TypeOK
  <2> QED BY <1>2, <1>6, <1>7, <2>1, <2>2, BoxesAre DEF q
<1> QED BY <1>1, <1>5, <1>7, <1>8 DEF Live, Waiting, Open

\* wait-mail and its like.
LEMMA LookMaps ==
    ASSUME Inv, Inv', DoLook
    PROVE  /\ sent' = sent
           /\ \/ \E t \in Thread : Abstract!Listen(t)
              \/ UNCHANGED <<Live, Open, Boxes, Kept, links>>
<1>1. sent' = sent /\ held' = held /\ Kept' = Kept
  BY DEF DoLook, Kept
<1>2. CASE WaitMail
  <2>1. todo # <<>> /\ <<>> \in Given
    BY <1>2 DEF WaitMail, Ready, Given
  <2>2. PICK me \in Thread : me = Cur
    BY <2>1, ResumeIds
  <2>3. Abstract!Listen(me)
    BY <1>1, <1>2, <2>2, WaitBoxes DEF Abstract!Listen, Open, Boxes, Kept
  <2> QED BY <1>1, <2>3
<1>3. CASE TakeMail
  BY <1>1, <1>3, TakeBoxes
<1>4. CASE NoMail
  BY <1>1, <1>4, AnswerNone DEF NoMail
<1> QED BY <1>2, <1>3, <1>4 DEF DoLook

\* shutdown: the exit value is not the business of the threads' mail.
LEMMA ProposeMaps ==
    ASSUME Inv, Inv', NEW v \in ExitValue, DoPropose(v)
    PROVE  UNCHANGED <<Live, Open, Boxes, Kept, links, sent>>
  BY AnswerNone DEF DoPropose, ProposeReturnValue

LEMMA ReverseCons ==
    ASSUME NEW e \in Envelope, NEW s \in Seq(Envelope)
    PROVE  Reverse(<<e>> \o s) = Append(Reverse(s), e) /\ Reverse(<<>>) = <<>>
<1> DEFINE r == <<e>> \o s
           a == Append(Reverse(s), e)
<1>1. /\ r \in Seq(Envelope) /\ Len(r) = Len(s) + 1
      /\ r[1] = e
      /\ \A i \in 1..Len(s) : r[i + 1] = s[i]
  OBVIOUS
<1>2. /\ Reverse(s) \in Seq(Envelope) /\ Len(Reverse(s)) = Len(s)
      /\ \A i \in 1..Len(s) : Reverse(s)[i] = s[Len(s) - i + 1]
  BY ReverseIs
<1>3. /\ Reverse(r) \in Seq(Envelope) /\ Len(Reverse(r)) = Len(r)
      /\ \A i \in 1..Len(r) : Reverse(r)[i] = r[Len(r) - i + 1]
  <2> HIDE DEF r
  <2> QED BY <1>1, ReverseIs
<1>4. /\ a \in Seq(Envelope) /\ Len(a) = Len(s) + 1
      /\ a[Len(s) + 1] = e
      /\ \A i \in 1..Len(s) : a[i] = Reverse(s)[i]
  <2> DEFINE q == Reverse(s)
  <2> HIDE DEF q
  <2>1. q \in Seq(Envelope) /\ Len(q) = Len(s)
    BY <1>2 DEF q
  <2> QED BY <2>1 DEF q
<1> HIDE DEF r, a
<1>5. ASSUME NEW i \in 1..Len(r) PROVE Reverse(r)[i] = a[i]
  <2>1. CASE i = Len(s) + 1
    BY <1>1, <1>3, <1>4, <2>1
  <2>2. CASE i # Len(s) + 1
    <3>1. i \in 1..Len(s) /\ Len(s) - i + 1 \in 1..Len(s) /\ Len(r) - i + 1 = (Len(s) - i + 1) + 1
      BY <1>1, <2>2
    <3>2. Reverse(r)[i] = s[Len(s) - i + 1]
      BY <1>1, <1>3, <3>1
    <3> QED BY <1>2, <1>4, <3>1, <3>2
  <2> QED BY <2>1, <2>2
<1>6. Reverse(r) = a
  BY <1>1, <1>3, <1>4, <1>5, SeqEqual
<1> QED BY <1>6, ReverseNone DEF r, a

\* A thread uses what it was given, and may keep it.
LEMMA ConsumeBoxes ==
    ASSUME Inv, Inv', Consume
    PROVE  /\ Cur \in Thread /\ UNCHANGED <<Live, Open, links>>
           /\ Boxes[Cur] # <<>> /\ Boxes' = [Boxes EXCEPT ![Cur] = Tail(@)]
           /\ Head(Boxes[Cur]) \in Envelope
           /\ Head(todo).given = <<Head(Boxes[Cur])>>
           /\ GivenOf(todo, done, Cur) = Head(todo).given
           /\ GivenOf(todo', done', Cur) = <<>>
           /\ \A t \in Thread \ {Cur} : GivenOf(todo', done', t) = GivenOf(todo, done, t)
<1> DEFINE g == Head(todo).given
<1>1. /\ todo # <<>> /\ g # <<>> /\ todo' = Resume(<<>>) \o Rest /\ <<>> \in Given
      /\ UNCHANGED <<done, slot, inbox, links>>
  BY DEF Consume, Given
<1>2. /\ Cur \in Thread /\ Runnable' = Runnable
      /\ GivenOf(todo, done, Cur) = g
      /\ GivenOf(todo', done', Cur) = <<>>
      /\ \A t \in Thread \ {Cur} : GivenOf(todo', done', t) = GivenOf(todo, done, t)
  BY <1>1, AnswerGiven
<1>3. g \in Given
  <2>1. Head(todo) \in Entry
    BY <1>1, TailIds DEF Inv, TypeOK
  <2> QED BY <2>1 DEF Entry
<1> HIDE DEF g
<1>4. PICK e \in Envelope : g = <<e>>
  BY <1>1, <1>3, GivenType
<1>5. inbox[Cur] \in Seq(Envelope)
  BY <1>2 DEF Inv, TypeOK
<1>6. Boxes[Cur] = <<e>> \o inbox[Cur] /\ Boxes'[Cur] = inbox[Cur]
  <2>1. <<>> \o inbox[Cur] = inbox[Cur]
    BY <1>5
  <2> QED BY <1>1, <1>2, <1>4, <2>1, BoxesAre
<1>7. Boxes[Cur] # <<>> /\ Head(Boxes[Cur]) = e /\ Tail(Boxes[Cur]) = inbox[Cur]
  BY <1>5, <1>6, SeqFacts
<1>8. Boxes' = [Boxes EXCEPT ![Cur] = Tail(@)]
  BY <1>1, <1>2, <1>6, <1>7, BoxesAre
<1> QED BY <1>1, <1>2, <1>4, <1>7, <1>8 DEF Live, Waiting, Open, g

LEMMA ConsumeMaps ==
    ASSUME Inv, Inv', NEW keep \in BOOLEAN, DoConsume(keep)
    PROVE  sent' = sent /\ \E t \in Thread : Abstract!Use(t, keep)
<1> DEFINE e == Head(Boxes[Cur])
           g == Head(todo).given
<1>1. /\ Consume /\ sent' = sent
      /\ held' = IF keep THEN [held EXCEPT ![Cur] = g \o @] ELSE held
  BY DEF DoConsume
<1>2. /\ Cur \in Thread /\ UNCHANGED <<Live, Open, links>>
      /\ Boxes[Cur] # <<>> /\ Boxes' = [Boxes EXCEPT ![Cur] = Tail(@)]
      /\ e \in Envelope /\ g = <<e>>
  BY <1>1, ConsumeBoxes
<1> HIDE DEF g
<1>3. Kept' = IF keep THEN [Kept EXCEPT ![Cur] = Append(@, e)] ELSE Kept
  <2>1. CASE ~keep
    BY <1>1, <2>1 DEF Kept
  <2>2. CASE keep
    <3> HIDE DEF e
    <3>1. held' = [held EXCEPT ![Cur] = <<e>> \o held[Cur]]
      BY <1>1, <1>2, <2>2
    <3>2. held \in [Thread -> Seq(Envelope)] /\ held[Cur] \in Seq(Envelope)
      BY <1>2 DEF Inv, TypeOK
    <3>3. Reverse(<<e>> \o held[Cur]) = Append(Reverse(held[Cur]), e)
      BY <1>2, <3>2, ReverseCons
    <3> QED BY <1>2, <2>2, <3>1, <3>2, <3>3 DEF Kept
  <2> QED BY <2>1, <2>2
<1>4. PICK me \in Thread : me = Cur
  BY <1>2
<1>5. Abstract!Use(me, keep)
  BY <1>2, <1>3, <1>4 DEF Abstract!Use, Open, Boxes, Kept
<1> QED BY <1>1, <1>5

LEMMA RunnableBoth ==
    ASSUME NEW td, NEW dn, Proper(td, dn)
    PROVE  Ids(td) \cup Ids(dn) = {e.id : e \in Both(td, dn)}
  BY IdsOfSet DEF Proper, Both

\* Functions that differ at one argument.
LEMMA OneChanged ==
    ASSUME NEW S, NEW T, NEW f \in [S -> T], NEW g \in [S -> T],
           NEW a \in S, \A x \in S \ {a} : g[x] = f[x]
    PROVE  g = [f EXCEPT ![a] = g[a]]
  OBVIOUS

\* b is the mail of all threads, when the run lists are td and dn.
BoxesOf(b, td, dn, ib) ==
    /\ b \in [Thread -> Seq(Envelope)]
    /\ \A u \in Thread : b[u] = GivenOf(td, dn, u) \o ib[u]

LEMMA BoxesOfAll ==
    ASSUME Inv, Inv'
    PROVE  BoxesOf(Boxes, todo, done, inbox) /\ BoxesOf(Boxes', todo', done', inbox')
  BY BoxType, BoxTypeNext, BoxesAre DEF BoxesOf

\* An envelope joins the end of the mail of whoever has a mailbox or waits.
LEMMA DeliverBoxes ==
    ASSUME NEW td, NEW dn, Proper(td, dn), NEW td2, NEW dn2, Proper(td2, dn2),
           NEW sl \in [Thread -> {"none", "inbox", "cont"}],
           NEW ib \in [Thread -> Seq(Envelope)],
           NEW to \in Thread, NEW env \in Envelope,
           sl[to] = "cont" => to \notin Ids(td) \cup Ids(dn) /\ ib[to] = <<>>,
           sl[to] = "cont" =>
               Both(td2, dn2) = Both(td, dn) \cup {[id |-> to, given |-> <<env>>]},
           sl[to] # "cont" => Both(td2, dn2) = Both(td, dn),
           NEW b, NEW b2, BoxesOf(b, td, dn, ib),
           BoxesOf(b2, td2, dn2, InboxAfter(sl, ib, to, env))
    PROVE  b2 = IF sl[to] # "none" THEN [b EXCEPT ![to] = Append(@, env)] ELSE b
<1> DEFINE e == [id |-> to, given |-> <<env>>]
           ni == InboxAfter(sl, ib, to, env)
<1>1. /\ b \in [Thread -> Seq(Envelope)] /\ b2 \in [Thread -> Seq(Envelope)]
      /\ \A u \in Thread : b[u] = GivenOf(td, dn, u) \o ib[u]
      /\ \A u \in Thread : b2[u] = GivenOf(td2, dn2, u) \o ni[u]
  BY DEF BoxesOf
<1>2. \A u \in Thread \ {to} : ni[u] = ib[u]
  BY DEF InboxAfter
<1>3. /\ sl[to] = "cont" => ni[to] = ib[to]
      /\ sl[to] = "inbox" => ni[to] = Append(ib[to], env)
      /\ sl[to] = "none" => ni[to] = ib[to]
  BY DEF InboxAfter
<1> HIDE DEF ni
<1>4. ASSUME NEW u \in Thread \ {to} PROVE b2[u] = b[u]
  <2>1. \A x : x.id = u => (x \in Both(td, dn) <=> x \in Both(td2, dn2))
    <3>1. e.id = to
      OBVIOUS
    <3> HIDE DEF e
    <3>2. \A x : x.id = u => x # e
      BY <3>1
    <3>3. Both(td2, dn2) \in {Both(td, dn), Both(td, dn) \cup {e}}
      BY DEF e
    <3> QED BY <3>2, <3>3
  <2>2. GivenOf(td, dn, u) = GivenOf(td2, dn2, u)
    BY <2>1, GivenSame
  <2> QED BY <1>1, <1>2, <2>2
<1>5. GivenOf(td, dn, to) \in Seq(Envelope) /\ ib[to] \in Seq(Envelope)
  BY GivenOfType, GivenType
<1>6. ASSUME sl[to] # "none", b2[to] = Append(b[to], env)
      PROVE  b2 = [b EXCEPT ![to] = Append(@, env)]
  <2>1. b2 = [b EXCEPT ![to] = b2[to]]
    BY <1>1, <1>4, OneChanged
  <2> QED BY <1>6, <2>1
<1>7. ASSUME b2[to] = b[to] PROVE b2 = b
  <2>1. \A x \in Thread : b2[x] = b[x]
    BY <1>4, <1>7
  <2> QED BY <1>1, <2>1
<1>8. CASE sl[to] = "cont"
  <2>1. GivenOf(td, dn, to) = <<>> /\ ib[to] = <<>> /\ b[to] = <<>>
    <3>1. GivenOf(td, dn, to) = <<>> /\ ib[to] = <<>>
      BY <1>8 DEF GivenOf
    <3>2. b[to] = <<>> \o <<>>
      BY <1>1, <3>1
    <3> QED BY <3>1, <3>2
  <2>2. GivenOf(td2, dn2, to) = <<env>>
    <3>1. e.id = to /\ e.given = <<env>>
      OBVIOUS
    <3>2. e \in Both(td2, dn2)
      BY <1>8
    <3> HIDE DEF e
    <3>3. GivenOf(td2, dn2, e.id) = e.given
      BY <3>2, GivenIs
    <3> QED BY <3>1, <3>3
  <2>3. ni[to] = <<>>
    BY <1>8, <1>3, <2>1
  <2>4. b2[to] = Append(b[to], env)
    <3>1. <<env>> \o <<>> = <<env>> /\ Append(<<>>, env) = <<env>>
      OBVIOUS
    <3> QED BY <1>1, <2>1, <2>2, <2>3, <3>1
  <2> QED BY <1>6, <1>8, <2>4
<1>9. CASE sl[to] # "cont"
  <2>1. GivenOf(td2, dn2, to) = GivenOf(td, dn, to)
    <3>1. Both(td2, dn2) = Both(td, dn)
      BY <1>9
    <3> QED BY <3>1, GivenSame
  <2>2. CASE sl[to] = "inbox"
    <3>1. ni[to] = Append(ib[to], env)
      BY <2>2, <1>3
    <3>2. GivenOf(td, dn, to) \o Append(ib[to], env) = Append(GivenOf(td, dn, to) \o ib[to], env)
      BY <1>5, SeqFacts
    <3>3. b2[to] = Append(b[to], env)
      BY <1>1, <2>1, <3>1, <3>2
    <3> QED BY <1>6, <2>2, <3>3
  <2>3. CASE sl[to] = "none"
    <3>1. ni[to] = ib[to]
      BY <2>3, <1>3
    <3>2. b2[to] = b[to]
      BY <1>1, <2>1, <3>1
    <3> QED BY <1>7, <2>3, <3>2
  <2> QED BY <1>9, <2>2, <2>3
<1> QED BY <1>8, <1>9

\* mail: the envelope is queued, or the addressee does not listen.
LEMMA MailBoxes ==
    ASSUME Inv, Inv', NEW to \in Thread, NEW msg \in 0..MaxMail, Mail(to, msg)
    PROVE  LET env == [from |-> Cur, msg |-> msg]
           IN  /\ Cur \in Live
               /\ UNCHANGED <<Live, Open, links>>
               /\ GivenOf(todo', done', to) =
                    IF slot[to] = "cont" THEN <<env>> ELSE GivenOf(todo, done, to)
               /\ \A t \in Thread \ {to} : GivenOf(todo', done', t) = GivenOf(todo, done, t)
               /\ Boxes' = IF to \in Open THEN [Boxes EXCEPT ![to] = Append(@, env)]
                                          ELSE Boxes
<1> DEFINE env == [from |-> Cur, msg |-> msg]
           me == [id |-> Cur, given |-> <<>>]
           e == [id |-> to, given |-> <<env>>]
           w == Waked(slot, to, env)
<1>1. /\ todo # <<>> /\ Head(todo).given = <<>>
      /\ todo' = <<me>> \o (w \o Rest)
      /\ slot' = SlotAfter(slot, to) /\ inbox' = InboxAfter(slot, inbox, to, env)
      /\ UNCHANGED <<done, links>>
  BY DEF Mail, Ready, Resume
<1>2. /\ Cur \in Thread /\ Cur \in Runnable /\ Rest \in Seq(Entry)
  BY <1>1, ResumeIds DEF Given
<1>3. env \in Envelope
  BY <1>2 DEF Envelope
<1>4. me \in Entry /\ Head(todo) = me /\ ToSet(todo) = {me} \cup ToSet(Rest)
  <2>1. Head(todo) \in Entry /\ ToSet(todo) = {Head(todo)} \cup ToSet(Rest)
    BY <1>1, TailSet, TailIds DEF Inv, TypeOK, Rest
  <2>2. Head(todo) = me
    BY <1>1, <2>1 DEF Entry, Cur
  <2> QED BY <2>1, <2>2
<1> HIDE DEF env, me
<1>5. /\ slot \in [Thread -> {"none", "inbox", "cont"}]
      /\ inbox \in [Thread -> Seq(Envelope)]
  BY DEF Inv, TypeOK
<1>6. /\ slot[to] = "cont" => w = <<e>>
      /\ slot[to] # "cont" => w = <<>>
      /\ e \in Entry /\ e.id = to
      /\ slot' \in [Thread -> {"none", "inbox", "cont"}]
      /\ \A t \in Thread \ {to} : slot'[t] = slot[t]
      /\ slot'[to] = IF slot[to] = "cont" THEN "inbox" ELSE slot[to]
  <2> DEFINE ns == SlotAfter(slot, to)
             ni == InboxAfter(slot, inbox, to, env)
  <2>1. /\ ns \in [Thread -> {"none", "inbox", "cont"}]
        /\ ni \in [Thread -> Seq(Envelope)]
        /\ \A t \in Thread \ {to} : ns[t] = slot[t] /\ ni[t] = inbox[t]
        /\ ns[to] = IF slot[to] = "cont" THEN "inbox" ELSE slot[to]
        /\ slot[to] # "inbox" => ni[to] = inbox[to]
        /\ slot[to] = "cont" => w = <<e>>
        /\ slot[to] # "cont" => w = <<>>
        /\ e \in Entry
    BY <1>3, <1>5, DeliverTypes
  <2>2. slot' = ns /\ e.id = to
    BY <1>1
  <2> HIDE DEF ns, ni, w, e
  <2> QED BY <2>1, <2>2
<1> HIDE DEF e, w
<1>7. Both(todo', done') = Both(todo, done) \cup (IF slot[to] = "cont" THEN {e} ELSE {})
  <2>1. CASE slot[to] = "cont"
    <3>1. w \o Rest = <<e>> \o Rest /\ <<e>> \o Rest \in Seq(Entry)
      <4>1. <<e>> \o Rest \in Seq(Entry)
        BY <1>2, <1>6
      <4> QED BY <1>6, <2>1, <4>1
    <3>2. ToSet(w \o Rest) = {e} \cup ToSet(Rest)
      BY <1>2, <1>6, <3>1, ConsSet
    <3>3. ToSet(todo') = {me} \cup ToSet(w \o Rest)
      BY <1>1, <1>4, <3>1, ConsSet
    <3> QED BY <1>1, <1>4, <2>1, <3>2, <3>3 DEF Both
  <2>2. CASE slot[to] # "cont"
    <3>1. w \o Rest = Rest
      BY <1>2, <1>6, <2>2
    <3>2. ToSet(todo') = {me} \cup ToSet(Rest)
      BY <1>1, <1>2, <1>4, <3>1, ConsSet
    <3> QED BY <1>1, <1>4, <2>2, <3>2 DEF Both
  <2> QED BY <2>1, <2>2
<1>8. Proper(todo, done) /\ Proper(todo', done')
  BY InvProper, InvProperNext
<1>9. slot[to] = "cont" => to \notin Ids(todo) \cup Ids(done) /\ inbox[to] = <<>>
  BY DEF Inv, RunsOnce, NothingOutlives, Waiting, Runnable
<1>10. Live' = Live
  <2>1. Runnable' = Runnable \cup (IF slot[to] = "cont" THEN {to} ELSE {})
    BY <1>6, <1>7, <1>8, RunnableBoth DEF Runnable
  <2>2. Waiting' = Waiting \ {to}
    BY <1>6 DEF Waiting
  <2>3. to \in Waiting <=> slot[to] = "cont"
    BY DEF Waiting
  <2> QED BY <2>1, <2>2, <2>3 DEF Live
<1>11. Open' = Open /\ (to \in Open <=> slot[to] # "none")
  BY <1>5, <1>6 DEF Open
<1>12. Boxes' = IF slot[to] # "none" THEN [Boxes EXCEPT ![to] = Append(@, env)] ELSE Boxes
  <2>1. BoxesOf(Boxes, todo, done, inbox) /\ BoxesOf(Boxes', todo', done', inbox')
    BY BoxesOfAll
  <2>2. /\ slot[to] = "cont" =>
              Both(todo', done') = Both(todo, done) \cup {[id |-> to, given |-> <<env>>]}
        /\ slot[to] # "cont" => Both(todo', done') = Both(todo, done)
    BY <1>7 DEF e
  <2> QED BY <1>1, <1>3, <1>5, <1>8, <1>9, <2>1, <2>2, DeliverBoxes
<1>13. ASSUME NEW t \in Thread, t # to \/ slot[to] # "cont"
       PROVE  GivenOf(todo', done', t) = GivenOf(todo, done, t)
  <2>1. \A x : x.id = t => (x \in Both(todo', done') <=> x \in Both(todo, done))
    BY <1>6, <1>7, <1>13
  <2> QED BY <1>8, <2>1, GivenSame
<1>14. slot[to] = "cont" => GivenOf(todo', done', to) = <<env>>
  <2>1. SUFFICES ASSUME slot[to] = "cont" PROVE GivenOf(todo', done', to) = <<env>>
    OBVIOUS
  <2>2. e \in Both(todo', done') /\ e.id = to /\ e.given = <<env>>
    BY <1>6, <1>7, <2>1 DEF e
  <2> QED BY <1>8, <2>2, GivenIs
<1> QED BY <1>1, <1>2, <1>10, <1>11, <1>12, <1>13, <1>14 DEF Live, env

LEMMA MailMaps ==
    ASSUME Inv, Inv', NEW to \in Thread, DoMail(to)
    PROVE  LET env == [from |-> Cur, msg |-> sent + 1]
           IN  /\ sent' = sent + 1 /\ Cur \in Live /\ sent + 1 \in 0..MaxMail
               /\ UNCHANGED <<Live, Open, Kept, links>>
               /\ Boxes' = IF to \in Open THEN [Boxes EXCEPT ![to] = Append(@, env)]
                                          ELSE Boxes
<1>1. sent + 1 \in 0..MaxMail
  BY ThreadAssumption DEF DoMail, Inv, TypeOK
<1>2. Mail(to, sent + 1) /\ sent' = sent + 1 /\ held' = held
  BY DEF DoMail
<1> QED BY <1>1, <1>2, MailBoxes DEF Kept

\* return-mails.
LEMMA ReturnBoxes ==
    ASSUME Inv, Inv', DoReturnMails
    PROVE  /\ Cur \in Live /\ Cur \in Thread
           /\ UNCHANGED <<Live, links, sent>>
           /\ Boxes' = [Boxes EXCEPT ![Cur] = @ \o Kept[Cur]]
           /\ Kept' = [Kept EXCEPT ![Cur] = <<>>]
           /\ Open' = Open \cup {Cur}
           /\ \A t \in Thread : GivenOf(todo', done', t) = GivenOf(todo, done, t)
<1> DEFINE back == Reverse(held[Cur])
<1>1. /\ todo # <<>> /\ Head(todo).given = <<>> /\ <<>> \in Given
      /\ todo' = Resume(<<>>) \o Rest
      /\ slot' = [slot EXCEPT ![Cur] = "inbox"]
      /\ inbox' = [inbox EXCEPT ![Cur] = @ \o back]
      /\ held' = [held EXCEPT ![Cur] = <<>>]
      /\ UNCHANGED <<done, links, sent>>
  BY DEF DoReturnMails, ReturnMails, Ready, Forget, Given
<1>2. /\ Cur \in Thread /\ Cur \in Runnable /\ Runnable' = Runnable
      /\ GivenOf(todo, done, Cur) = <<>>
      /\ \A t \in Thread : GivenOf(todo', done', t) = GivenOf(todo, done, t)
  BY <1>1, AnswerGiven
<1>3. /\ slot \in [Thread -> {"none", "inbox", "cont"}]
      /\ inbox \in [Thread -> Seq(Envelope)] /\ held \in [Thread -> Seq(Envelope)]
  BY DEF Inv, TypeOK
<1>4. Kept[Cur] = back /\ back \in Seq(Envelope)
  BY <1>2, <1>3, ReverseIs DEF Kept
<1>5. Kept' = [Kept EXCEPT ![Cur] = <<>>]
  BY <1>1, <1>2, <1>3, ReverseNone DEF Kept
<1> HIDE DEF back
<1>6. Boxes' = [Boxes EXCEPT ![Cur] = @ \o Kept[Cur]]
  <2>1. Boxes'[Cur] = Boxes[Cur] \o back
    <3>1. Boxes[Cur] = <<>> \o inbox[Cur] /\ Boxes'[Cur] = <<>> \o (inbox[Cur] \o back)
      BY <1>1, <1>2, <1>3, BoxesAre
    <3>2. inbox[Cur] \in Seq(Envelope)
      BY <1>2, <1>3
    <3> QED BY <1>4, <3>1, <3>2
  <2>2. \A t \in Thread \ {Cur} : Boxes'[t] = Boxes[t]
    BY <1>1, <1>2, <1>3, BoxesAre
  <2>3. Boxes' = [Boxes EXCEPT ![Cur] = Boxes'[Cur]]
    BY <1>2, <2>2, BoxType, BoxTypeNext, OneChanged
  <2> QED BY <1>4, <2>1, <2>3
<1>7. Cur \in Live /\ Live' = Live /\ Open' = Open \cup {Cur}
  <2>1. Cur \notin Waiting
    BY <1>2 DEF Inv, RunsOnce
  <2>2. Waiting' = Waiting
    BY <1>1, <1>2, <1>3, <2>1 DEF Waiting
  <2>3. Open' = Open \cup {Cur}
    BY <1>1, <1>2, <1>3 DEF Open
  <2> QED BY <1>2, <2>2, <2>3 DEF Live
<1> QED BY <1>1, <1>2, <1>5, <1>6, <1>7

LEMMA ReturnMailsMaps ==
    ASSUME Inv, Inv', DoReturnMails
    PROVE  sent' = sent /\ \E t \in Thread : Abstract!PutBack(t)
<1>1. PICK me \in Thread : me = Cur
  BY ReturnBoxes
<1>2. Abstract!PutBack(me)
  BY <1>1, ReturnBoxes DEF Abstract!PutBack, Open, Boxes, Kept
<1> QED BY <1>1, <1>2, ReturnBoxes

\* fork: a thread that has no mail yet, watched by its parent or by no one.
LEMMA ForkMaps ==
    ASSUME Inv, Inv', NEW t \in Thread, NEW link \in BOOLEAN, NEW mailbox \in BOOLEAN,
           DoFork(t, link, mailbox)
    PROVE  sent' = sent /\ Abstract!Spawn(t) /\ UNCHANGED <<Boxes, Kept>>
<1> DEFINE e == [id |-> t, given |-> <<>>]
           all == Resume(<<>>) \o Rest
           me == [id |-> Cur, given |-> <<>>]
<1>1. /\ todo # <<>> /\ Head(todo).given = <<>> /\ t \notin Live
      /\ todo' = <<e>> \o all
      /\ links' = IF link THEN [links EXCEPT ![t] = Cur] ELSE links
      /\ slot' = IF mailbox THEN [slot EXCEPT ![t] = "inbox"] ELSE slot
      /\ inbox' = IF mailbox THEN [inbox EXCEPT ![t] = <<>>] ELSE inbox
      /\ UNCHANGED <<done, held, sent>>
  BY DEF DoFork, Fork, Ready
<1>2. /\ slot \in [Thread -> {"none", "inbox", "cont"}]
      /\ inbox \in [Thread -> Seq(Envelope)]
      /\ links \in [Thread -> Thread \cup {NoThread}]
  BY DEF Inv, TypeOK
<1>3. /\ Cur \in Thread /\ Cur \in Runnable /\ Rest \in Seq(Entry) /\ all \in Seq(Entry)
  BY <1>1, ResumeIds DEF Given
<1>4. e \in Entry /\ e.id = t /\ e.given = <<>> /\ me \in Entry
  BY <1>3 DEF Entry, Given
<1>5. Both(todo', done') = {e} \cup Both(todo, done)
  <2>1. Head(todo) \in Entry /\ ToSet(todo) = {Head(todo)} \cup ToSet(Rest)
    BY <1>1, TailSet, TailIds DEF Inv, TypeOK, Rest
  <2>2. Head(todo) = me
    BY <1>1, <2>1 DEF Entry, Cur
  <2>3. ToSet(all) = {me} \cup ToSet(Rest)
    <3> HIDE DEF me
    <3>1. ToSet(<<me>> \o Rest) = {me} \cup ToSet(Rest)
      BY <1>3, <1>4, ConsSet
    <3> QED BY <3>1 DEF Resume, me
  <2> HIDE DEF e, all, me
  <2>4. ToSet(todo') = {e} \cup ToSet(all)
    BY <1>1, <1>3, <1>4, ConsSet
  <2> QED BY <1>1, <2>1, <2>2, <2>3, <2>4 DEF Both
<1>6. Proper(todo, done) /\ Proper(todo', done')
  BY InvProper, InvProperNext
<1> HIDE DEF e, all, me
<1>7. Live' = Live \cup {t}
  <2>1. Runnable' = {t} \cup Runnable
    BY <1>4, <1>5, <1>6, RunnableBoth DEF Runnable
  <2>2. Waiting' = Waiting
    BY <1>1, <1>2 DEF Waiting, Live
  <2> QED BY <2>1, <2>2 DEF Live
<1>8. t \notin Runnable /\ slot[t] = "none" /\ inbox[t] = <<>> /\ links[t] = NoThread
  BY <1>1, <1>2 DEF Live, Waiting, Inv, NothingOutlives
<1>9. Open' \in {Open, Open \cup {t}}
  BY <1>1, <1>2 DEF Open
<1>10. Boxes' = Boxes
  <2>1. \A u \in Thread : inbox'[u] = inbox[u]
    BY <1>1, <1>2, <1>8
  <2>2. GivenOf(todo, done, t) = <<>>
    BY <1>8 DEF GivenOf, Runnable
  <2>3. GivenOf(todo', done', e.id) = e.given
    BY <1>5, <1>6, GivenIs
  <2>4. ASSUME NEW u \in Thread \ {t} PROVE GivenOf(todo', done', u) = GivenOf(todo, done, u)
    <3>1. \A x : x.id = u => (x \in Both(todo', done') <=> x \in Both(todo, done))
      BY <1>4, <1>5
    <3> QED BY <1>6, <3>1, GivenSame
  <2>5. \A u \in Thread : Boxes'[u] = Boxes[u]
    BY <1>4, <2>1, <2>2, <2>3, <2>4, BoxesAre
  <2> QED BY <2>5, BoxType, BoxTypeNext
<1>11. PICK parent \in Live \cup {NoThread} : links' = [links EXCEPT ![t] = parent]
  <2>1. CASE link
    BY <1>1, <1>3, <2>1 DEF Live
  <2>2. CASE ~link
    <3>1. links' = [links EXCEPT ![t] = NoThread]
      BY <1>1, <1>2, <1>8, <2>2
    <3> QED BY <3>1
  <2> QED BY <2>1, <2>2
<1>12. Kept' = Kept
  BY <1>1 DEF Kept
<1>13. Abstract!Spawn(t)
  BY <1>1, <1>7, <1>9, <1>10, <1>11, <1>12 DEF Abstract!Spawn, Open, Boxes, Kept
<1> QED BY <1>1, <1>10, <1>12, <1>13

\* The end of a thread, when td and dn are the run lists without it: its mail
\* is gone, and its watcher, if that one listens, gets the report.  The end of
\* a thread that is not there changes nothing.
LEMMA DropMaps ==
    ASSUME Inv, Inv', KeptLive, NEW t \in Thread, NEW td, NEW dn, Proper(td, dn),
           Both(td, dn) = {e \in Both(todo, done) : e.id # t},
           DropDelivering(td, dn, t), held' = [held EXCEPT ![t] = <<>>]
    PROVE  IF t \in Live THEN Abstract!End(t)
                         ELSE UNCHANGED <<Live, Open, Boxes, Kept, links>>
<1> DEFINE who == links[t]
           sl == [slot EXCEPT ![t] = "none"]
           ib == [inbox EXCEPT ![t] = <<>>]
           env == Obituary(t)
           e == [id |-> who, given |-> <<env>>]
           b0 == [Boxes EXCEPT ![t] = <<>>]
<1>1. /\ slot \in [Thread -> {"none", "inbox", "cont"}]
      /\ inbox \in [Thread -> Seq(Envelope)] /\ held \in [Thread -> Seq(Envelope)]
      /\ links \in [Thread -> Thread \cup {NoThread}]
      /\ Boxes \in [Thread -> Seq(Envelope)]
      /\ Proper(todo, done) /\ Proper(todo', done') /\ NoThread \notin Thread
  BY InvProper, InvProperNext, BoxType, ThreadAssumption DEF Inv, TypeOK
<1>2. Proper(todo, done) /\ Proper(todo', done')
  BY <1>1
<1>3. /\ sl \in [Thread -> {"none", "inbox", "cont"}]
      /\ ib \in [Thread -> Seq(Envelope)]
      /\ who \in Thread \cup {NoThread}
      /\ links' = [links EXCEPT ![t] = NoThread]
      /\ done' = dn
      /\ sl[t] = "none" /\ \A u \in Thread \ {t} : sl[u] = slot[u]
      /\ ib[t] = <<>> /\ \A u \in Thread \ {t} : ib[u] = inbox[u]
  BY <1>1 DEF DropDelivering
<1>4. /\ who = NoThread => todo' = td /\ slot' = sl /\ inbox' = ib
      /\ who # NoThread => /\ todo' = Waked(sl, who, env) \o td
                          /\ slot' = SlotAfter(sl, who)
                          /\ inbox' = InboxAfter(sl, ib, who, env)
  BY DEF DropDelivering
<1>5. /\ env \in Envelope /\ e.id = who
      /\ who # NoThread => who \in Thread /\ e \in Entry
  <2>1. env \in Envelope
    BY ThreadAssumption DEF Obituary, Envelope
  <2> QED BY <1>3, <2>1 DEF Entry, Given
<1>6. Kept' = [Kept EXCEPT ![t] = <<>>]
  BY <1>1, ReverseNone DEF Kept
<1>7. BoxesOf(b0, td, dn, ib)
  <2>1. ASSUME NEW u \in Thread PROVE b0[u] = GivenOf(td, dn, u) \o ib[u]
    <3>1. CASE u = t
      <4>1. t \notin Ids(td) \cup Ids(dn)
        BY RunnableBoth
      <4>2. GivenOf(td, dn, t) = <<>>
        BY <4>1 DEF GivenOf
      <4>3. b0[t] = <<>> /\ <<>> \o <<>> = <<>>
        BY <1>1
      <4> HIDE DEF b0, ib
      <4> QED BY <1>3, <3>1, <4>2, <4>3
    <3>2. CASE u # t
      <4>1. \A x : x.id = u => (x \in Both(todo, done) <=> x \in Both(td, dn))
        BY <3>2
      <4>2. GivenOf(todo, done, u) = GivenOf(td, dn, u)
        BY <1>2, <4>1, GivenSame
      <4>3. b0[u] = Boxes[u]
        BY <1>1, <3>2
      <4> HIDE DEF b0, ib
      <4> QED BY <1>3, <3>2, <4>2, <4>3, BoxesAre
    <3> QED BY <3>1, <3>2
  <2>2. b0 \in [Thread -> Seq(Envelope)]
    BY <1>1
  <2> QED BY <2>1, <2>2 DEF BoxesOf
<1> HIDE DEF sl, ib, b0
<1>8. ASSUME who # NoThread
      PROVE  /\ Both(todo', done') = Both(td, dn) \cup (IF sl[who] = "cont" THEN {e} ELSE {})
             /\ sl[who] = "cont" =>
                   Both(todo', done') = Both(td, dn) \cup {[id |-> who, given |-> <<env>>]}
             /\ sl[who] # "cont" => Both(todo', done') = Both(td, dn)
  <2> HIDE DEF env
  <2>1. CASE sl[who] = "cont"
    <3>1. Waked(sl, who, env) = <<e>>
      BY <2>1 DEF Waked
    <3> HIDE DEF e
    <3>2. ToSet(todo') = {e} \cup ToSet(td)
      BY <1>4, <1>5, <1>8, <3>1, ConsSet DEF Proper
    <3>3. Both(todo', done') = Both(td, dn) \cup {e}
      BY <1>3, <3>2 DEF Both
    <3> QED BY <2>1, <3>3 DEF e
  <2>2. CASE sl[who] # "cont"
    <3>1. Waked(sl, who, env) \o td = td
      BY <2>2 DEF Waked, Proper
    <3>2. Both(todo', done') = Both(td, dn)
      BY <1>3, <1>4, <1>8, <3>1 DEF Both
    <3> QED BY <2>2, <3>2
  <2> QED BY <2>1, <2>2
<1>9. who # NoThread /\ sl[who] = "cont"
        => who # t /\ who \in Waiting /\ who \notin Ids(td) \cup Ids(dn) /\ ib[who] = <<>>
  <2> SUFFICES ASSUME who # NoThread, sl[who] = "cont"
               PROVE  who # t /\ who \in Waiting /\ who \notin Ids(td) \cup Ids(dn) /\ ib[who] = <<>>
    OBVIOUS
  <2>1. who \in Thread /\ who # t /\ slot[who] = "cont"
    BY <1>3, <1>5
  <2>2. who \in Waiting /\ who \notin Runnable /\ inbox[who] = <<>>
    BY <2>1 DEF Waiting, Inv, RunsOnce, NothingOutlives
  <2>3. \A x \in Both(td, dn) : x \in Both(todo, done)
    OBVIOUS
  <2>4. Ids(td) \cup Ids(dn) \subseteq Runnable
    BY <1>1, <2>3, RunnableBoth DEF Runnable
  <2> QED BY <1>3, <2>1, <2>2, <2>4
<1>10. Live' = Live \ {t}
  <2>1. /\ Ids(td) \cup Ids(dn) = {x.id : x \in Both(td, dn)}
        /\ Runnable = {x.id : x \in Both(todo, done)}
        /\ Runnable' = {x.id : x \in Both(todo', done')}
    BY <1>2, RunnableBoth DEF Runnable
  <2>2. Ids(td) \cup Ids(dn) = Runnable \ {t}
    BY <2>1
  <2>3. CASE who = NoThread
    <3>1. Runnable' = Runnable \ {t}
      BY <1>3, <1>4, <2>2, <2>3 DEF Runnable
    <3>2. Waiting' = Waiting \ {t}
      BY <1>3, <1>4, <2>3 DEF Waiting
    <3> QED BY <3>1, <3>2 DEF Live
  <2>4. CASE who # NoThread /\ sl[who] = "cont"
    <3>1. Both(todo', done') = Both(td, dn) \cup {e}
      BY <1>8, <2>4
    <3> HIDE DEF e
    <3>2. Runnable' = (Runnable \ {t}) \cup {who}
      BY <1>5, <2>1, <2>2, <3>1
    <3>3. Waiting' = Waiting \ {t, who}
      <4>1. slot' = [sl EXCEPT ![who] = "inbox"]
        BY <1>4, <2>4 DEF SlotAfter
      <4> QED BY <1>3, <1>5, <2>4, <4>1 DEF Waiting
    <3> QED BY <1>9, <2>4, <3>2, <3>3 DEF Live
  <2>5. CASE who # NoThread /\ sl[who] # "cont"
    <3>1. Both(todo', done') = Both(td, dn)
      BY <1>8, <2>5
    <3>2. Runnable' = Runnable \ {t}
      BY <2>1, <2>2, <3>1
    <3>3. Waiting' = Waiting \ {t}
      BY <1>3, <1>4, <2>5 DEF Waiting, SlotAfter
    <3> QED BY <3>2, <3>3 DEF Live
  <2> QED BY <2>3, <2>4, <2>5
<1>11. Open' = Open \ {t} /\ (who \in Open' <=> who # NoThread /\ sl[who] # "none")
  <2>1. \A u \in Thread : slot'[u] # "none" <=> sl[u] # "none"
    <3>1. CASE who = NoThread
      BY <1>4, <3>1
    <3>2. CASE who # NoThread
      BY <1>3, <1>4, <1>5, <3>2 DEF SlotAfter
    <3> QED BY <3>1, <3>2
  <2> QED BY <1>1, <1>3, <1>5, <2>1 DEF Open
<1>12. BoxesOf(Boxes', todo', done', inbox')
  BY BoxesOfAll
<1>13. Boxes' = IF who \in Open' THEN [b0 EXCEPT ![who] = Append(@, env)] ELSE b0
  <2>1. CASE who = NoThread
    <3>1. BoxesOf(Boxes', td, dn, ib)
      BY <1>3, <1>4, <1>12, <2>1
    <3>2. Boxes' = b0
      <4>1. \A u \in Thread : Boxes'[u] = b0[u]
        BY <1>7, <3>1 DEF BoxesOf
      <4> QED BY <1>7, <3>1, <4>1 DEF BoxesOf
    <3> QED BY <1>11, <2>1, <3>2
  <2>2. CASE who # NoThread
    <3>1. who \in Thread /\ BoxesOf(Boxes', todo', done', InboxAfter(sl, ib, who, env))
      BY <1>4, <1>5, <1>12, <2>2
    <3>2. /\ sl[who] = "cont" => who \notin Ids(td) \cup Ids(dn) /\ ib[who] = <<>>
          /\ sl[who] = "cont" =>
                Both(todo', done') = Both(td, dn) \cup {[id |-> who, given |-> <<env>>]}
          /\ sl[who] # "cont" => Both(todo', done') = Both(td, dn)
      BY <1>8, <1>9, <2>2
    <3>3. /\ sl \in [Thread -> {"none", "inbox", "cont"}]
          /\ ib \in [Thread -> Seq(Envelope)] /\ env \in Envelope
      BY <1>3, <1>5
    <3> HIDE DEF env, who
    <3>4. Boxes' = IF sl[who] # "none" THEN [b0 EXCEPT ![who] = Append(@, env)] ELSE b0
      BY <1>2, <1>7, <3>1, <3>2, <3>3, DeliverBoxes
    <3> QED BY <1>11, <2>2, <3>4
  <2> QED BY <2>1, <2>2
<1>14. CASE t \in Live
  <2>1. Abstract!End(t)
    BY <1>3, <1>6, <1>10, <1>11, <1>13, <1>14
       DEF Abstract!End, Abstract!Arrive, Abstract!Obituary, Obituary, Open, Boxes, Kept, b0
  <2> QED BY <1>14, <2>1
<1>15. CASE t \notin Live
  <2>1. /\ slot[t] = "none" /\ who = NoThread /\ Kept[t] = <<>> /\ Boxes[t] = <<>>
    <3>1. slot[t] = "none" /\ who = NoThread
      BY <1>1, <1>15 DEF Live, Waiting, Inv, NothingOutlives
    <3> QED BY <1>15, <3>1, BoxType DEF KeptLive
  <2>2. links' = links /\ Live' = Live /\ Kept' = Kept
    BY <1>1, <1>3, <1>6, <1>10, <1>15, <2>1 DEF Kept
  <2>3. Open' = Open
    BY <1>11, <2>1 DEF Open
  <2>4. Boxes' = Boxes
    BY <1>1, <1>11, <1>13, <2>1 DEF b0
  <2> QED BY <1>15, <2>2, <2>3, <2>4
<1> QED BY <1>14, <1>15

\* The running thread ends.
LEMMA EndMaps ==
    ASSUME Inv, Inv', KeptLive, DoEnd
    PROVE  sent' = sent /\ \E t \in Thread : Abstract!End(t)
<1>1. /\ todo # <<>> /\ DropDelivering(Rest, done, Cur)
      /\ held' = [held EXCEPT ![Cur] = <<>>] /\ sent' = sent
  BY DEF DoEnd, Exit, Crash, Ready, Forget
<1>2. /\ Cur \in Thread /\ Cur \in Runnable /\ Rest \in Seq(Entry) /\ Distinct(Rest)
      /\ Ids(Rest) = Ids(todo) \ {Cur}
  <2>1. <<>> \in Given
    BY DEF Given
  <2> QED BY <1>1, <2>1, ResumeIds
<1>3. Proper(Rest, done) /\ Cur \notin Ids(Rest) /\ Cur \notin Ids(done)
  <2>1. Cur \in Ids(todo)
    BY <1>1, TailIds DEF Inv, TypeOK, Cur
  <2> QED BY <1>2, <2>1 DEF Proper, Inv, TypeOK, RunsOnce
<1>4. Both(Rest, done) = {e \in Both(todo, done) : e.id # Cur}
  <2>1. ToSet(todo) = {Head(todo)} \cup ToSet(Rest)
    BY <1>1, TailSet DEF Inv, TypeOK, Rest
  <2>2. \A e \in Both(Rest, done) : e.id # Cur
    BY <1>3, RunnableBoth
  <2> QED BY <2>1, <2>2 DEF Both, Cur
<1>5. PICK me \in Thread : me = Cur
  BY <1>2
<1>6. me \in Live
  BY <1>2, <1>5 DEF Live
<1>7. Abstract!End(me)
  <2>1. /\ Both(Rest, done) = {e \in Both(todo, done) : e.id # me}
        /\ DropDelivering(Rest, done, me) /\ held' = [held EXCEPT ![me] = <<>>]
    BY <1>1, <1>4, <1>5
  <2> QED BY <1>3, <1>6, <2>1, DropMaps
<1> QED BY <1>1, <1>7

\* A thread is killed, or there is none of that name.
LEMMA KillMaps ==
    ASSUME Inv, Inv', KeptLive, NEW t \in Thread, DoKill(t)
    PROVE  /\ sent' = sent
           /\ Abstract!End(t) \/ UNCHANGED <<Live, Open, Boxes, Kept, links>>
<1> DEFINE all == Resume(<<>>) \o Rest
           me == [id |-> Cur, given |-> <<>>]
           td == DropFromList(all, t)
           dn == DropFromList(done, t)
<1>1. /\ todo # <<>> /\ Head(todo).given = <<>> /\ DropDelivering(td, dn, t)
      /\ held' = [held EXCEPT ![t] = <<>>] /\ sent' = sent
  BY DEF DoKill, Kill, Ready, Forget
<1>2. /\ all \in Seq(Entry) /\ Ids(all) = Ids(todo) /\ Distinct(all)
      /\ Cur \in Thread /\ Rest \in Seq(Entry)
  BY <1>1, ResumeIds DEF Given
<1>3. done \in Seq(Entry) /\ Distinct(done) /\ Ids(all) \cap Ids(done) = {}
  BY <1>2 DEF Inv, TypeOK, RunsOnce
<1>4. ToSet(all) = ToSet(todo)
  <2>1. Head(todo) \in Entry /\ ToSet(todo) = {Head(todo)} \cup ToSet(Rest)
    BY <1>1, TailSet, TailIds DEF Inv, TypeOK, Rest
  <2>2. Head(todo) = me /\ me \in Entry
    BY <1>1, <2>1 DEF Entry, Cur
  <2> HIDE DEF me
  <2>3. ToSet(<<me>> \o Rest) = {me} \cup ToSet(Rest)
    BY <1>2, <2>2, ConsSet
  <2> QED BY <2>1, <2>2, <2>3 DEF Resume, me
<1> HIDE DEF all
<1>5. Proper(td, dn)
  <2>1. td \in Seq(Entry) /\ Ids(td) = Ids(all) \ {t} /\ Distinct(td)
    BY <1>2, DropIds
  <2>2. dn \in Seq(Entry) /\ Ids(dn) = Ids(done) \ {t} /\ Distinct(dn)
    BY <1>3, DropIds
  <2> HIDE DEF td, dn
  <2> QED BY <1>3, <2>1, <2>2 DEF Proper
<1>6. Both(td, dn) = {e \in Both(todo, done) : e.id # t}
  <2>1. ToSet(td) = {e \in ToSet(all) : e.id # t} /\ ToSet(dn) = {e \in ToSet(done) : e.id # t}
    BY <1>2, <1>3, DropSet
  <2> HIDE DEF td, dn
  <2> QED BY <1>4, <2>1 DEF Both
<1> HIDE DEF td, dn
<1>7. IF t \in Live THEN Abstract!End(t) ELSE UNCHANGED <<Live, Open, Boxes, Kept, links>>
  BY <1>1, <1>5, <1>6, DropMaps
<1> QED BY <1>1, <1>7

------------------------------------------------------------------------------
(* Every turn of the controller, seen through the mapping.                 *)

Silent == UNCHANGED <<Live, Open, Boxes, Kept, links>>

\* Mail from the running thread.
Mailed(to) ==
    /\ sent' = sent + 1 /\ sent + 1 \in 0..MaxMail /\ Cur \in Live
    /\ UNCHANGED <<Live, Open, Kept, links>>
    /\ Boxes' = IF to \in Open
                THEN [Boxes EXCEPT ![to] = Append(@, [from |-> Cur, msg |-> sent + 1])]
                ELSE Boxes

MailStep ==
    \/ /\ sent' = sent
       /\ \/ Silent
          \/ \E t \in Thread : \/ Abstract!Spawn(t) \/ Abstract!Listen(t)
                              \/ Abstract!PutBack(t) \/ Abstract!End(t)
          \/ \E t \in Thread, keep \in BOOLEAN : Abstract!Use(t, keep)
    \/ \E to \in Thread : Mailed(to)

\* No turn of the controller does anything else.
LEMMA NextMaps == Inv /\ Inv' /\ KeptLive /\ [Next]_vars => MailStep
<1> SUFFICES ASSUME Inv, Inv', KeptLive, [Next]_vars PROVE MailStep
  OBVIOUS
<1>1. CASE DoSchedule
  BY <1>1, ScheduleMaps DEF MailStep, Silent
<1>2. CASE DoEnd
  BY <1>2, EndMaps DEF MailStep
<1>3. ASSUME NEW t \in Thread, NEW link \in BOOLEAN, NEW mailbox \in BOOLEAN,
             DoFork(t, link, mailbox)
      PROVE  MailStep
  BY <1>3, ForkMaps DEF MailStep
<1>4. CASE DoReturnMails
  BY <1>4, ReturnMailsMaps DEF MailStep
<1>5. ASSUME NEW to \in Thread, DoMail(to) PROVE MailStep
  BY <1>5, MailMaps DEF MailStep, Mailed
<1>6. CASE DoLook
  BY <1>6, LookMaps DEF MailStep, Silent
<1>7. ASSUME NEW t \in Thread, DoKill(t) PROVE MailStep
  BY <1>7, KillMaps DEF MailStep, Silent
<1>8. ASSUME NEW v \in ExitValue, DoPropose(v) PROVE MailStep
  BY <1>8, ProposeMaps DEF MailStep, Silent
<1>9. ASSUME NEW keep \in BOOLEAN, DoConsume(keep) PROVE MailStep
  BY <1>9, ConsumeMaps DEF MailStep
<1>10. CASE UNCHANGED vars
  BY <1>10 DEF vars, MailStep, Silent, Live, Runnable, Waiting, Open, Boxes, Box, EntryOf, Kept
<1> QED
  BY <1>1, <1>2, <1>3, <1>4, <1>5, <1>6, <1>7, <1>8, <1>9, <1>10 DEF Next

\* The steps of ActorMail.tla in the terms of this module.
LEMMA SpawnIs ==
    ASSUME NEW t \in Thread, Abstract!Spawn(t)
    PROVE  t \notin Live /\ Live' = Live \cup {t} /\ UNCHANGED <<Boxes, Kept>>
  BY DEF Abstract!Spawn, Boxes, Kept

LEMMA ListenIs ==
    ASSUME NEW t \in Thread, Abstract!Listen(t)
    PROVE  UNCHANGED <<Live, Boxes, Kept>>
  BY DEF Abstract!Listen, Boxes, Kept

LEMMA PutBackIs ==
    ASSUME NEW t \in Thread, Abstract!PutBack(t)
    PROVE  /\ Live' = Live
           /\ Boxes' = [Boxes EXCEPT ![t] = @ \o Kept[t]]
           /\ Kept' = [Kept EXCEPT ![t] = <<>>]
  BY DEF Abstract!PutBack, Boxes, Kept

LEMMA EndIs ==
    ASSUME NEW t \in Thread, Abstract!End(t)
    PROVE  /\ Live' = Live \ {t}
           /\ Kept' = [Kept EXCEPT ![t] = <<>>]
           /\ Boxes' = IF links[t] \in Open \ {t}
                      THEN [[Boxes EXCEPT ![t] = <<>>] EXCEPT ![links[t]] = Append(@, Obituary(t))]
                      ELSE [Boxes EXCEPT ![t] = <<>>]
  BY DEF Abstract!End, Abstract!Arrive, Abstract!Obituary, Obituary, Open, Boxes, Kept

LEMMA UseIs ==
    ASSUME NEW t \in Thread, NEW keep \in BOOLEAN, Abstract!Use(t, keep)
    PROVE  /\ Boxes[t] # <<>> /\ Live' = Live
           /\ Boxes' = [Boxes EXCEPT ![t] = Tail(@)]
           /\ Kept' = IF keep THEN [Kept EXCEPT ![t] = Append(@, Head(Boxes[t]))] ELSE Kept
  BY DEF Abstract!Use, Boxes, Kept

LEMMA KeptType == Inv => Kept \in [Thread -> Seq(Envelope)]
  BY ReverseIs DEF Inv, TypeOK, Kept

\* Who is not there keeps nothing.
LEMMA KeptLiveStep == Inv /\ KeptLive /\ MailStep => KeptLive'
<1> SUFFICES ASSUME Inv, KeptLive, MailStep PROVE KeptLive'
  OBVIOUS
<1> USE DEF KeptLive
<1>1. CASE Silent
  BY <1>1 DEF Silent
<1>2. ASSUME NEW t \in Thread, Abstract!Spawn(t) PROVE KeptLive'
  BY <1>2, SpawnIs
<1>3. ASSUME NEW t \in Thread, Abstract!Listen(t) PROVE KeptLive'
  BY <1>3, ListenIs
<1>4. ASSUME NEW t \in Thread, Abstract!PutBack(t) PROVE KeptLive'
  BY <1>4, PutBackIs, KeptType
<1>5. ASSUME NEW t \in Thread, Abstract!End(t) PROVE KeptLive'
  BY <1>5, EndIs, KeptType
<1>6. ASSUME NEW t \in Thread, NEW keep \in BOOLEAN, Abstract!Use(t, keep) PROVE KeptLive'
  <2>1. t \in Live /\ Live' = Live
    BY <1>6, UseIs, BoxType
  <2>2. \A u \in Thread \ {t} : Kept'[u] = Kept[u]
    BY <1>6, UseIs, KeptType
  <2> QED BY <2>1, <2>2
<1>7. ASSUME NEW to \in Thread, Mailed(to) PROVE KeptLive'
  BY <1>7 DEF Mailed
<1> QED BY <1>1, <1>2, <1>3, <1>4, <1>5, <1>6, <1>7 DEF MailStep

\* The initial state.
LEMMA InitMaps == Init => KeptLive /\ Abstract!Init
<1> SUFFICES ASSUME Init PROVE KeptLive /\ Abstract!Init
  OBVIOUS
<1>1. Kept = [t \in Thread |-> <<>>] /\ Open = {} /\ Waiting = {}
  BY ReverseNone DEF Init, Kept, Open, Waiting
<1>2. todo = <<[id |-> Main, given |-> <<>>]>> /\ done = <<>> /\ inbox = [t \in Thread |-> <<>>]
      /\ links = [t \in Thread |-> NoThread]
  BY DEF Init
<1>3. Inv
  BY InitInv
<1>4. Runnable = {Main}
  BY <1>2 DEF Runnable, Ids
<1>5. Boxes = [t \in Thread |-> <<>>]
  <2> DEFINE e == [id |-> Main, given |-> <<>>]
  <2>1. e \in Both(todo, done) /\ e.id = Main /\ e.given = <<>>
    BY <1>2 DEF Both, ToSet
  <2> HIDE DEF e
  <2>2. GivenOf(todo, done, Main) = <<>>
    BY <1>3, <2>1, InvProper, GivenIs
  <2>3. ASSUME NEW t \in Thread PROVE Boxes[t] = <<>>
    <3>1. GivenOf(todo, done, t) = <<>>
      BY <1>4, <2>2 DEF GivenOf, Runnable
    <3> QED BY <1>2, <3>1, BoxesAre
  <2> QED BY <1>3, <2>3, BoxType
<1>6. KeptLive
  BY <1>1 DEF KeptLive
<1>7. Abstract!Init
  BY <1>1, <1>2, <1>4, <1>5 DEF Abstract!Init, Live, Kept, Open, Boxes
<1> QED BY <1>6, <1>7

\* A step with the mapping is a step of ActorMail.tla.
LEMMA StepMaps == Inv /\ MailStep => [Abstract!Next]_(Abstract!mailVars)
<1> SUFFICES ASSUME Inv, MailStep PROVE [Abstract!Next]_(Abstract!mailVars)
  OBVIOUS
<1>1. CASE Silent
  BY <1>1 DEF Silent, Abstract!mailVars, Open, Boxes, Kept
<1>2. ASSUME NEW to \in Thread, Mailed(to) PROVE [Abstract!Next]_(Abstract!mailVars)
  <2>1. CASE to \in Open
    <3>1. Abstract!Send(to)
      <4> DEFINE m == sent + 1
      <4>1. /\ m \in Abstract!Message /\ Cur \in Live
            /\ Boxes' = [Boxes EXCEPT ![to] = Append(@, [from |-> Cur, msg |-> m])]
            /\ UNCHANGED <<Live, Open, Kept, links>>
        BY <1>2, <2>1 DEF Mailed, Abstract!Message
      <4> HIDE DEF m
      <4> QED BY <2>1, <4>1 DEF Abstract!Send, Abstract!Arrive, Open, Boxes, Kept
    <3> QED BY <3>1 DEF Abstract!Next
  <2>2. CASE to \notin Open
    BY <1>2, <2>2 DEF Mailed, Abstract!mailVars, Open, Boxes, Kept
  <2> QED BY <2>1, <2>2
<1>3. ASSUME NEW t \in Thread, Abstract!Spawn(t) \/ Abstract!Listen(t) \/ Abstract!PutBack(t) \/ Abstract!End(t)
      PROVE  Abstract!Next
  BY <1>3 DEF Abstract!Next
<1>4. ASSUME NEW t \in Thread, NEW keep \in BOOLEAN, Abstract!Use(t, keep)
      PROVE  Abstract!Next
  BY <1>4 DEF Abstract!Next
<1> QED BY <1>1, <1>2, <1>3, <1>4 DEF MailStep

\* The controller does what ActorMail.tla promises to the threads, whatever
\* their names and however many there are.
THEOREM ControllerImplementsMail == Spec => ImplementsActorMail
<1>1. Init => KeptLive /\ Abstract!Init
  BY InitMaps
<1>2. Inv /\ Inv' /\ KeptLive /\ [Next]_vars => KeptLive' /\ [Abstract!Next]_(Abstract!mailVars)
  BY NextMaps, KeptLiveStep, StepMaps
<1> QED BY <1>1, <1>2, Invariance, PTL DEF Spec, ImplementsActorMail, Abstract!Spec

------------------------------------------------------------------------------
(* A message is in one place.  p is the mail of each thread, what it has   *)
(* not used followed by what it keeps; all message numbers are up to n.    *)
OnceIn(p, n) ==
    /\ \A t, u \in Thread : \A i \in 1..Len(p[t]), j \in 1..Len(p[u]) :
          p[t][i].msg # 0 /\ p[t][i].msg = p[u][j].msg => t = u /\ i = j
    /\ \A t \in Thread : \A i \in 1..Len(p[t]) : p[t][i].msg <= n

Places == [t \in Thread |-> Boxes[t] \o Kept[t]]
Once == OnceIn(Places, sent)

\* Every message of r is one of s, at a place f tells, and no two are the same one.
From(r, s, f) ==
    /\ \A i \in 1..Len(r) :
          r[i].msg = 0 \/ (f[i] \in 1..Len(s) /\ r[i].msg = s[f[i]].msg)
    /\ \A i, j \in 1..Len(r) : r[i].msg # 0 /\ r[j].msg # 0 /\ f[i] = f[j] => i = j

Keeps(r, s) == \E f : From(r, s, f)

\* Two places of one message are one place.
LEMMA OnceAt ==
    ASSUME NEW p, NEW n, OnceIn(p, n), NEW t \in Thread, NEW u \in Thread,
           NEW i \in 1..Len(p[t]), NEW j \in 1..Len(p[u]),
           p[t][i].msg # 0, p[t][i].msg = p[u][j].msg
    PROVE  t = u /\ i = j
  BY DEF OnceIn

\* Mail that is only moved, used or thrown away stays in one place.
LEMMA KeepsOnce ==
    ASSUME NEW p \in [Thread -> Seq(Envelope)], NEW q \in [Thread -> Seq(Envelope)],
           NEW n \in Nat, OnceIn(p, n), \A t \in Thread : Keeps(q[t], p[t])
    PROVE  OnceIn(q, n)
<1>1. ASSUME NEW t \in Thread, NEW u \in Thread,
             NEW i \in 1..Len(q[t]), NEW j \in 1..Len(q[u]),
             q[t][i].msg # 0, q[t][i].msg = q[u][j].msg
      PROVE  t = u /\ i = j
  <2>1. PICK f : From(q[t], p[t], f)
    BY DEF Keeps
  <2>2. PICK g : From(q[u], p[u], g)
    BY DEF Keeps
  <2>3. f[i] \in 1..Len(p[t]) /\ q[t][i].msg = p[t][f[i]].msg
    BY <1>1, <2>1 DEF From
  <2>4. g[j] \in 1..Len(p[u]) /\ q[u][j].msg = p[u][g[j]].msg
    BY <1>1, <2>2 DEF From
  <2>5. t = u /\ f[i] = g[j]
    <3> DEFINE x == f[i]
               y == g[j]
    <3>1. /\ x \in 1..Len(p[t]) /\ y \in 1..Len(p[u])
          /\ p[t][x].msg # 0 /\ p[t][x].msg = p[u][y].msg
      BY <1>1, <2>3, <2>4
    <3> HIDE DEF x, y
    <3>2. t = u /\ x = y
      BY <3>1, OnceAt
    <3> QED BY <3>2 DEF x, y
  <2>6. f[j] \in 1..Len(p[t]) /\ q[t][j].msg = p[t][f[j]].msg
    BY <1>1, <2>1, <2>5 DEF From
  <2>7. f[i] = f[j]
    <3> DEFINE x == f[i]
               y == f[j]
    <3>1. /\ x \in 1..Len(p[t]) /\ y \in 1..Len(p[t])
          /\ p[t][x].msg # 0 /\ p[t][x].msg = p[t][y].msg
      BY <1>1, <2>3, <2>5, <2>6
    <3> HIDE DEF x, y
    <3>2. x = y
      BY <3>1, OnceAt
    <3> QED BY <3>2 DEF x, y
  <2> QED BY <1>1, <2>1, <2>5, <2>7 DEF From
<1>2. ASSUME NEW t \in Thread, NEW i \in 1..Len(q[t]) PROVE q[t][i].msg <= n
  <2>1. PICK f : From(q[t], p[t], f)
    BY DEF Keeps
  <2>2. CASE q[t][i].msg = 0
    BY <2>2
  <2>3. CASE q[t][i].msg # 0
    <3>1. f[i] \in 1..Len(p[t]) /\ q[t][i].msg = p[t][f[i]].msg
      BY <2>1, <2>3 DEF From
    <3> QED BY <3>1 DEF OnceIn
  <2> QED BY <2>2, <2>3
<1> QED BY <1>1, <1>2 DEF OnceIn

LEMMA KeepsSame == ASSUME NEW s \in Seq(Envelope) PROVE Keeps(s, s) /\ Keeps(<<>>, s)
<1> DEFINE f == [i \in 1..Len(s) |-> i]
<1>1. From(s, s, f)
  BY DEF From
<1>2. From(<<>>, s, f)
  BY DEF From
<1> HIDE DEF f
<1> QED BY <1>1, <1>2 DEF Keeps

\* An envelope queued between the mail a and what is kept, k.
LEMMA Queued ==
    ASSUME NEW a \in Seq(Envelope), NEW k \in Seq(Envelope), NEW e \in Envelope
    PROVE  LET s == a \o k
               r == Append(a, e) \o k
           IN  /\ s \in Seq(Envelope) /\ r \in Seq(Envelope) /\ Len(r) = Len(s) + 1
               /\ Len(a) + 1 \in 1..Len(r) /\ Len(a) \in Nat /\ Len(s) \in Nat
               /\ r[Len(a) + 1] = e
               /\ \A i \in 1..Len(a) : i \in 1..Len(s) /\ r[i] = s[i]
               /\ \A i \in Len(a) + 2..Len(r) : i - 1 \in 1..Len(s) /\ r[i] = s[i - 1]
  OBVIOUS

\* A report of an end joins the mail: it is no message.
LEMMA KeepsObituary ==
    ASSUME NEW a \in Seq(Envelope), NEW k \in Seq(Envelope), NEW e \in Envelope, e.msg = 0
    PROVE  Keeps(Append(a, e) \o k, a \o k)
<1> DEFINE s == a \o k
           r == Append(a, e) \o k
           f == [i \in 1..Len(r) |-> IF i <= Len(a) THEN i ELSE i - 1]
<1>1. /\ Len(r) = Len(s) + 1 /\ Len(a) \in Nat /\ Len(s) \in Nat
      /\ r[Len(a) + 1] = e
      /\ \A i \in 1..Len(a) : i \in 1..Len(s) /\ r[i] = s[i]
      /\ \A i \in Len(a) + 2..Len(r) : i - 1 \in 1..Len(s) /\ r[i] = s[i - 1]
  BY Queued
<1> HIDE DEF s, r
<1>2. From(r, s, f)
  <2> DEFINE new == Len(a) + 1
  <2>1. ASSUME NEW i \in 1..Len(r)
        PROVE  r[i].msg = 0 \/ (f[i] \in 1..Len(s) /\ r[i].msg = s[f[i]].msg)
    <3>1. CASE i = new
      BY <1>1, <3>1
    <3>2. CASE i # new
      BY <1>1, <3>2
    <3> QED BY <3>1, <3>2
  <2>2. r[new].msg = 0
    BY <1>1
  <2>3. \A i, j \in 1..Len(r) : i # new /\ j # new /\ f[i] = f[j] => i = j
    BY <1>1
  <2> QED BY <2>1, <2>2, <2>3 DEF From
<1> HIDE DEF f
<1> QED BY <1>2 DEF Keeps, r, s

\* The first envelope is used, and may join what is kept.
LEMMA KeepsUsed ==
    ASSUME NEW b \in Seq(Envelope), NEW k \in Seq(Envelope), b # <<>>
    PROVE  Keeps(Tail(b) \o k, b \o k) /\ Keeps(Tail(b) \o Append(k, Head(b)), b \o k)
<1> DEFINE s == b \o k
           r == Tail(b) \o k
           q == Tail(b) \o Append(k, Head(b))
           f == [i \in 1..Len(s) |-> IF i = Len(s) THEN 1 ELSE i + 1]
<1>1. /\ Len(s) \in Nat \ {0} /\ s[1] = Head(b)
      /\ Len(r) = Len(s) - 1 /\ Len(q) = Len(s)
      /\ \A i \in 1..Len(r) : r[i] = s[i + 1]
      /\ q[Len(s)] = Head(b)
      /\ \A i \in 1..Len(r) : q[i] = s[i + 1]
  OBVIOUS
<1> HIDE DEF s, r, q
<1>2. From(r, s, f)
  BY <1>1 DEF From
<1>3. From(q, s, f)
  <2>1. ASSUME NEW i \in 1..Len(q) PROVE f[i] \in 1..Len(s) /\ q[i] = s[f[i]]
    <3>1. CASE i = Len(s)
      BY <1>1, <3>1
    <3>2. CASE i # Len(s)
      BY <1>1, <3>2
    <3> QED BY <3>1, <3>2
  <2>2. \A i, j \in 1..Len(q) : f[i] = f[j] => i = j
    BY <1>1
  <2> QED BY <2>1, <2>2 DEF From
<1> HIDE DEF f
<1> QED BY <1>2, <1>3 DEF Keeps, r, s, q

\* A step takes no message to a second place.
LEMMA OnceStep == Inv /\ Inv' /\ Once /\ MailStep => Once'
<1> SUFFICES ASSUME Inv, Inv', Once, MailStep PROVE Once'
  OBVIOUS
<1> DEFINE p == Places
           q == Places'
<1>1. /\ Boxes \in [Thread -> Seq(Envelope)] /\ Kept \in [Thread -> Seq(Envelope)]
      /\ Boxes' \in [Thread -> Seq(Envelope)] /\ Kept' \in [Thread -> Seq(Envelope)]
      /\ sent \in Nat
  <2>1. Kept' \in [Thread -> Seq(Envelope)]
    BY ReverseIs DEF Inv, TypeOK, Kept
  <2>2. sent \in Nat
    BY ThreadAssumption DEF Inv, TypeOK
  <2> QED BY <2>1, <2>2, BoxType, BoxTypeNext, KeptType
<1>2. /\ p \in [Thread -> Seq(Envelope)] /\ q \in [Thread -> Seq(Envelope)]
      /\ \A t \in Thread : p[t] = Boxes[t] \o Kept[t]
      /\ \A t \in Thread : q[t] = Boxes'[t] \o Kept'[t]
  BY <1>1 DEF Places
<1>3. OnceIn(p, sent)
  BY DEF Once
<1> HIDE DEF p, q
<1>4. ASSUME sent' = sent, \A t \in Thread : Keeps(q[t], p[t]) PROVE Once'
  <2>1. OnceIn(q, sent)
    BY <1>1, <1>2, <1>3, <1>4, KeepsOnce
  <2> QED BY <1>4, <2>1 DEF Once, q
<1>5. ASSUME NEW t \in Thread, Boxes'[t] = Boxes[t], Kept'[t] = Kept[t]
      PROVE  Keeps(q[t], p[t])
  BY <1>2, <1>5, KeepsSame
<1>6. CASE UNCHANGED <<Boxes, Kept>> /\ sent' = sent
  BY <1>4, <1>5, <1>6
<1>7. ASSUME NEW t \in Thread, Abstract!PutBack(t), sent' = sent PROVE Once'
  <2>1. /\ Boxes'[t] = Boxes[t] \o Kept[t] /\ Kept'[t] = <<>>
        /\ \A u \in Thread \ {t} : Boxes'[u] = Boxes[u] /\ Kept'[u] = Kept[u]
    BY <1>1, <1>7, PutBackIs
  <2>2. q[t] = p[t]
    <3>1. p[t] \o <<>> = p[t]
      BY <1>2
    <3> QED BY <1>2, <2>1, <3>1
  <2>3. Keeps(q[t], p[t])
    BY <1>2, <2>2, KeepsSame
  <2> QED BY <1>4, <1>5, <1>7, <2>1, <2>3
<1>8. ASSUME NEW t \in Thread, NEW keep \in BOOLEAN, Abstract!Use(t, keep), sent' = sent PROVE Once'
  <2>1. /\ Boxes[t] # <<>> /\ Boxes'[t] = Tail(Boxes[t])
        /\ Kept'[t] = IF keep THEN Append(Kept[t], Head(Boxes[t])) ELSE Kept[t]
        /\ \A u \in Thread \ {t} : Boxes'[u] = Boxes[u] /\ Kept'[u] = Kept[u]
    BY <1>1, <1>8, UseIs
  <2>2. Keeps(q[t], p[t])
    <3>1. /\ Keeps(Tail(Boxes[t]) \o Kept[t], Boxes[t] \o Kept[t])
          /\ Keeps(Tail(Boxes[t]) \o Append(Kept[t], Head(Boxes[t])), Boxes[t] \o Kept[t])
      BY <1>1, <2>1, KeepsUsed
    <3> QED BY <1>2, <2>1, <3>1
  <2> QED BY <1>4, <1>5, <1>8, <2>1, <2>2
<1>9. ASSUME NEW t \in Thread, Abstract!End(t), sent' = sent PROVE Once'
  <2> DEFINE who == links[t]
             told == who \in Open \ {t}
  <2>1. /\ Kept'[t] = <<>> /\ Boxes'[t] = <<>>
        /\ \A u \in Thread \ {t} : Kept'[u] = Kept[u]
        /\ told => who \in Thread \ {t} /\ Boxes'[who] = Append(Boxes[who], Obituary(t))
        /\ \A u \in Thread \ {t} : ~ told \/ u # who => Boxes'[u] = Boxes[u]
    BY <1>1, <1>9, EndIs DEF Open
  <2> HIDE DEF told, who
  <2>2. Keeps(q[t], p[t])
    <3>1. q[t] = <<>>
      <4>1. q[t] = <<>> \o <<>>
        BY <1>2, <2>1
      <4> QED BY <4>1
    <3> QED BY <1>2, <3>1, KeepsSame
  <2>3. ASSUME NEW u \in Thread \ {t} PROVE Keeps(q[u], p[u])
    <3>1. CASE told /\ u = who
      <4>1. Obituary(t) \in Envelope /\ Obituary(t).msg = 0
        BY ThreadAssumption DEF Obituary, Envelope
      <4>2. Keeps(Append(Boxes[u], Obituary(t)) \o Kept[u], Boxes[u] \o Kept[u])
        BY <1>1, <4>1, KeepsObituary
      <4> QED BY <1>2, <2>1, <3>1, <4>2
    <3>2. CASE ~ told \/ u # who
      BY <1>5, <2>1, <3>2
    <3> QED BY <3>1, <3>2
  <2> QED BY <1>4, <1>9, <2>2, <2>3
<1>10. ASSUME NEW to \in Thread, Mailed(to) PROVE Once'
  <2> DEFINE n == sent + 1
             env == [from |-> Cur, msg |-> n]
  <2>1. sent' = n /\ Kept' = Kept /\ n # 0 /\ n \in Nat /\ n \in 0..MaxMail
    BY <1>1, <1>10 DEF Mailed
  <2>2. env.msg = n
    OBVIOUS
  <2>3. \A t \in Thread : \A i \in 1..Len(p[t]) : p[t][i].msg \in Nat
    <3>1. ASSUME NEW t \in Thread, NEW i \in 1..Len(p[t]) PROVE p[t][i].msg \in Nat
      <4>1. p[t] \in Seq(Envelope)
        BY <1>2
      <4>2. p[t][i] \in Envelope
        BY <4>1
      <4> QED BY <4>2, ThreadAssumption DEF Envelope
    <3> QED BY <3>1
  <2>4. CASE to \notin Open
    <3>1. Boxes' = Boxes
      BY <1>10, <2>4 DEF Mailed
    <3>2. q = p
      <4>1. \A t \in Thread : q[t] = p[t]
        BY <1>2, <2>1, <3>1
      <4> QED BY <1>2, <4>1
    <3> HIDE DEF p, n
    <3>3. OnceIn(p, n)
      <4>1. \A x \in Nat : x <= sent => x <= n
        BY <1>1 DEF n
      <4>2. \A t \in Thread : \A i \in 1..Len(p[t]) : p[t][i].msg <= n
        BY <1>3, <2>3, <4>1 DEF OnceIn
      <4> QED BY <1>3, <4>2 DEF OnceIn
    <3> QED BY <2>1, <3>2, <3>3 DEF Once, p, q
  <2>5. CASE to \in Open
    <3>1. env \in Envelope
      <4>1. Boxes'[to] = Append(Boxes[to], env)
        BY <1>1, <1>10, <2>5 DEF Mailed
      <4> HIDE DEF env
      <4>2. Boxes'[to] \in Seq(Envelope) /\ Boxes[to] \in Seq(Envelope)
        BY <1>1
      <4>3. Len(Boxes[to]) + 1 \in 1..Len(Append(Boxes[to], env))
            /\ Append(Boxes[to], env)[Len(Boxes[to]) + 1] = env
        BY <4>2
      <4> QED BY <4>1, <4>2, <4>3
    <3>2. /\ Boxes'[to] = Append(Boxes[to], env)
          /\ \A u \in Thread \ {to} : Boxes'[u] = Boxes[u]
      BY <1>1, <1>10, <2>5 DEF Mailed
    <3> HIDE DEF env, n
    <3>3. \A u \in Thread \ {to} : q[u] = p[u]
      BY <1>2, <2>1, <3>2
    <3> DEFINE r == q[to]
               s == p[to]
               k == Len(Boxes[to]) + 1
               f == [i \in 1..Len(r) |-> IF i < k THEN i ELSE i - 1]
    <3>4. /\ Len(r) = Len(s) + 1 /\ k \in 1..Len(r) /\ Len(s) \in Nat
          /\ r[k] = env
          /\ \A i \in 1..Len(r) : i < k => i \in 1..Len(s) /\ r[i] = s[i]
          /\ \A i \in 1..Len(r) : i > k => i - 1 \in 1..Len(s) /\ r[i] = s[i - 1]
      <4> DEFINE a == Boxes[to]
                 b == Kept[to]
      <4>1. a \in Seq(Envelope) /\ b \in Seq(Envelope) /\ r = Append(a, env) \o b /\ s = a \o b
        BY <1>1, <1>2, <2>1, <3>2
      <4> HIDE DEF a, b, r, s
      <4>2. /\ Len(r) = Len(s) + 1
            /\ Len(a) + 1 \in 1..Len(r) /\ Len(a) \in Nat /\ Len(s) \in Nat
            /\ r[Len(a) + 1] = env
            /\ \A i \in 1..Len(a) : i \in 1..Len(s) /\ r[i] = s[i]
            /\ \A i \in Len(a) + 2..Len(r) : i - 1 \in 1..Len(s) /\ r[i] = s[i - 1]
        BY <3>1, <4>1, Queued
      <4> QED BY <4>2 DEF a
    <3>5. /\ r[k].msg = n
          /\ \A i \in 1..Len(r) : i # k => f[i] \in 1..Len(s) /\ r[i] = s[f[i]]
          /\ \A i, j \in 1..Len(r) : i # k /\ j # k /\ f[i] = f[j] => i = j
      <4> HIDE DEF r, s, k
      <4> QED BY <2>2, <3>4
    <3> HIDE DEF r, s, k, f
    <3>6. \A t \in Thread : \A i \in 1..Len(p[t]) : p[t][i].msg <= sent /\ p[t][i].msg # n
      BY <1>1, <1>3, <2>3 DEF OnceIn, n
    <3>7. ASSUME NEW t \in Thread, NEW i \in 1..Len(q[t]), ~ (t = to /\ i = k)
          PROVE  \E x \in 1..Len(p[t]) : q[t][i] = p[t][x] /\ x = IF t = to THEN f[i] ELSE i
      <4>1. CASE t = to
        BY <3>5, <3>7, <4>1 DEF r, s
      <4>2. CASE t # to
        BY <3>3, <4>2
      <4> QED BY <4>1, <4>2
    <3>8. ASSUME NEW t \in Thread, NEW i \in 1..Len(q[t])
          PROVE  q[t][i].msg <= n /\ (q[t][i].msg = n => t = to /\ i = k)
      <4>1. CASE t = to /\ i = k
        BY <2>1, <3>5, <4>1 DEF r
      <4>2. CASE ~ (t = to /\ i = k)
        <5>1. PICK x \in 1..Len(p[t]) : q[t][i] = p[t][x]
          BY <3>7, <4>2
        <5>2. q[t][i].msg <= sent /\ q[t][i].msg # n /\ q[t][i].msg \in Nat
          BY <2>3, <3>6, <5>1
        <5> QED BY <1>1, <5>2 DEF n
      <4> QED BY <4>1, <4>2
    <3>9. ASSUME NEW t \in Thread, NEW u \in Thread,
                 NEW i \in 1..Len(q[t]), NEW j \in 1..Len(q[u]),
                 q[t][i].msg # 0, q[t][i].msg = q[u][j].msg
          PROVE  t = u /\ i = j
      <4>1. CASE q[t][i].msg = n
        BY <3>8, <3>9, <4>1
      <4>2. CASE q[t][i].msg # n
        <5>1. ~ (t = to /\ i = k) /\ ~ (u = to /\ j = k)
          BY <3>5, <3>9, <4>2 DEF r
        <5>2. PICK x \in 1..Len(p[t]) : q[t][i] = p[t][x] /\ x = IF t = to THEN f[i] ELSE i
          BY <3>7, <5>1
        <5>3. PICK y \in 1..Len(p[u]) : q[u][j] = p[u][y] /\ y = IF u = to THEN f[j] ELSE j
          BY <3>7, <5>1
        <5>4. t = u /\ x = y
          BY <1>3, <3>9, <5>2, <5>3, OnceAt
        <5>5. CASE t = to
          BY <3>5, <5>1, <5>2, <5>3, <5>4, <5>5 DEF r
        <5>6. CASE t # to
          BY <5>2, <5>3, <5>4, <5>6
        <5> QED BY <5>5, <5>6
      <4> QED BY <4>1, <4>2
    <3>10. OnceIn(q, n)
      BY <3>8, <3>9 DEF OnceIn
    <3> QED BY <2>1, <3>10 DEF Once, q
  <2> QED BY <2>4, <2>5
<1> QED
  BY <1>6, <1>7, <1>8, <1>9, <1>10, SpawnIs, ListenIs DEF MailStep, Silent

LEMMA InitOnce == Init => Once
<1> SUFFICES ASSUME Init PROVE Once
  OBVIOUS
<1>1. Boxes = [t \in Thread |-> <<>>] /\ Kept = [t \in Thread |-> <<>>]
  BY InitMaps DEF Abstract!Init, Boxes, Kept
<1>2. \A t \in Thread : Places[t] = <<>>
  <2>1. \A t \in Thread : Places[t] = <<>> \o <<>>
    BY <1>1 DEF Places
  <2> QED BY <2>1
<1> QED BY <1>2 DEF Once, OnceIn

\* What the invariant says in the terms of ActorMail.tla.
LEMMA OnceIsOnlyOnce == Inv /\ KeptLive /\ Once => OnlyOnce
<1> SUFFICES ASSUME Inv, KeptLive, Once PROVE OnlyOnce
  OBVIOUS
<1> DEFINE p == Places
           H(t, m) == {i \in DOMAIN p[t] : p[t][i].msg = m}
<1>1. p \in [Thread -> Seq(Envelope)]
  BY BoxType, KeptType DEF Places
<1>2. OnceIn(p, sent)
  BY DEF Once
<1>3. \A t \in Thread : \A m : Abstract!Holds(Boxes[t] \o Kept[t], m) = H(t, m)
  BY DEF Abstract!Holds, Places
<1> HIDE DEF p
<1>4. ASSUME NEW m \in Abstract!Message \ {0}, NEW t \in Thread, NEW u \in Thread,
             NEW i \in H(t, m), NEW j \in H(u, m)
      PROVE  t = u /\ i = j
  <2>1. i \in 1..Len(p[t]) /\ j \in 1..Len(p[u])
    BY <1>1
  <2>2. p[t][i].msg # 0 /\ p[t][i].msg = p[u][j].msg
    OBVIOUS
  <2> QED BY <1>2, <2>1, <2>2, OnceAt
<1>5. ASSUME NEW m \in Abstract!Message \ {0}, NEW t \in Thread
      PROVE  \A i, j \in H(t, m) : i = j
  BY <1>4
<1>6. ASSUME NEW m \in Abstract!Message \ {0}, NEW t \in Thread, NEW u \in Thread,
             t # u, H(t, m) # {}
      PROVE  H(u, m) = {}
  BY <1>4, <1>6
<1>7. \A t \in Thread : t \notin Live => Boxes[t] = <<>> /\ Kept[t] = <<>>
  BY BoxType DEF KeptLive
<1> HIDE DEF H
<1>8. /\ \A m \in Abstract!Message \ {0} :
            \A t, u \in Thread :
               /\ \A i, j \in Abstract!Holds(Boxes[t] \o Kept[t], m) : i = j
               /\ t # u /\ Abstract!Holds(Boxes[t] \o Kept[t], m) # {}
                    => Abstract!Holds(Boxes[u] \o Kept[u], m) = {}
      /\ \A t \in Thread \ Live : Boxes[t] = <<>> /\ Kept[t] = <<>>
  BY <1>3, <1>5, <1>6, <1>7
<1> QED BY <1>8, Zenon DEF OnlyOnce, Abstract!OnlyOnce, Boxes, Kept

\* No message is doubled, or left with a thread that is gone, while it moves
\* from its sender to an inbox, a woken continuation, the envelopes a thread
\* set aside, and back.
THEOREM EachMessageOnce == Spec => []OnlyOnce
<1>1. Init => KeptLive /\ Once
  BY InitMaps, InitOnce
<1>2. Inv /\ Inv' /\ KeptLive /\ Once /\ [Next]_vars => KeptLive' /\ Once'
  BY NextMaps, KeptLiveStep, OnceStep
<1>3. Inv /\ KeptLive /\ Once => OnlyOnce
  BY OnceIsOnlyOnce
<1> QED BY <1>1, <1>2, <1>3, Invariance, PTL DEF Spec

------------------------------------------------------------------------------
(* What the turns change, thread by thread, for the programs whose threads *)
(* are modelled: Interop.tla and Sleeper.tla.                              *)

\* A list of all members of a finite set, each one once.
LEMMA ListOfAll ==
    ASSUME NEW S, IsFiniteSet(S), NEW order \in SetToSeqs(S)
    PROVE  /\ order \in Seq(S) /\ Len(order) \in Nat
           /\ \A i, j \in 1..Len(order) : order[i] = order[j] => i = j
           /\ \A x \in S : \E i \in 1..Len(order) : order[i] = x
<1> DEFINE n == Cardinality(S)
<1>1. n \in Nat /\ IsFiniteSet(1..n) /\ Cardinality(1..n) = n
  <2>1. n \in Nat
    BY FS_CardinalityType
  <2> QED BY <2>1, FS_Interval
<1>2. /\ order \in [1..n -> S]
      /\ \A i, j \in 1..n : i # j => order[i] # order[j]
  BY DEF SetToSeqs
<1>3. order \in Seq(S) /\ Len(order) = n
  BY <1>1, <1>2, IsASeq
<1>4. order \in Injection(1..n, S)
  BY <1>2 DEF Injection, IsInjective
<1>5. order \in Surjection(1..n, S)
  BY <1>1, <1>4, FS_Injection
<1> QED BY <1>1, <1>2, <1>3, <1>5 DEF Surjection

\* The thread that runs was given what its entry says.
LEMMA HeadGiven ==
    ASSUME Inv, todo # <<>>
    PROVE  GivenOf(todo, done, Cur) = Head(todo).given
<1>1. Head(todo) \in Both(todo, done)
  BY TailSet DEF Inv, TypeOK, Both
<1> QED BY <1>1, InvProper, GivenIs DEF Cur

\* time slices and new rounds
LEMMA ScheduleEffect ==
    ASSUME Inv, Inv', DoSchedule
    PROVE  /\ UNCHANGED <<Live, Boxes, slot, links, held>>
           /\ \A t \in Thread : GivenOf(todo', done', t) = GivenOf(todo, done, t)
  BY ScheduleMaps DEF DoSchedule, NewRound, HaltThreadController, TimeSlice

\* mail
LEMMA MailEffect ==
    ASSUME Inv, Inv', NEW to \in Thread, NEW msg \in 0..MaxMail, Mail(to, msg)
    PROVE  LET env == [from |-> Cur, msg |-> msg]
           IN  /\ env \in Envelope
               /\ UNCHANGED <<Live, links>>
               /\ \A t \in Thread \ {to} :
                    /\ Boxes'[t] = Boxes[t] /\ slot'[t] = slot[t]
                    /\ GivenOf(todo', done', t) = GivenOf(todo, done, t)
               /\ Boxes'[to] = Boxes[to] \/ Boxes'[to] = Append(Boxes[to], env)
               /\ slot[to] = "cont" => slot'[to] = "inbox" /\ GivenOf(todo', done', to) # <<>>
               /\ slot[to] # "cont" =>
                    /\ slot'[to] = slot[to]
                    /\ GivenOf(todo', done', to) = GivenOf(todo, done, to)
<1> DEFINE env == [from |-> Cur, msg |-> msg]
<1>1. /\ Ready /\ slot' = SlotAfter(slot, to)
  BY DEF Mail
<1>2. Cur \in Thread
  BY <1>1, ResumeIds DEF Ready, Given
<1>3. env \in Envelope
  BY <1>2 DEF Envelope
<1>4. /\ UNCHANGED <<Live, Open, links>>
      /\ GivenOf(todo', done', to) =
           IF slot[to] = "cont" THEN <<env>> ELSE GivenOf(todo, done, to)
      /\ \A t \in Thread \ {to} : GivenOf(todo', done', t) = GivenOf(todo, done, t)
      /\ Boxes' = IF to \in Open THEN [Boxes EXCEPT ![to] = Append(@, env)] ELSE Boxes
  BY MailBoxes
<1> HIDE DEF env
<1>5. slot \in [Thread -> {"none", "inbox", "cont"}] /\ Boxes \in [Thread -> Seq(Envelope)]
  BY BoxType DEF Inv, TypeOK
<1>6. /\ \A t \in Thread \ {to} : slot'[t] = slot[t]
      /\ slot'[to] = IF slot[to] = "cont" THEN "inbox" ELSE slot[to]
  BY <1>1, <1>5 DEF SlotAfter
<1>7. /\ \A t \in Thread \ {to} : Boxes'[t] = Boxes[t]
      /\ Boxes'[to] = Boxes[to] \/ Boxes'[to] = Append(Boxes[to], env)
  BY <1>4, <1>5
<1>8. <<env>> # <<>>
  OBVIOUS
<1> QED BY <1>3, <1>4, <1>6, <1>7, <1>8 DEF env

\* interop 13
LEMMA LookEffect ==
    ASSUME Inv, Inv', DoLook
    PROVE  /\ Cur \in Thread /\ UNCHANGED <<Live, Boxes, links, held>>
           /\ \A t \in Thread \ {Cur} :
                slot'[t] = slot[t] /\ GivenOf(todo', done', t) = GivenOf(todo, done, t)
           /\ TakeMail => slot' = slot /\ GivenOf(todo', done', Cur) # <<>>
           /\ NoMail => slot' = slot
           /\ WaitMail => slot'[Cur] = "cont"
<1>1. Ready /\ held' = held /\ Cur \in Thread
  BY ResumeIds DEF DoLook, TakeMail, NoMail, WaitMail, Ready, Given
<1>2. CASE TakeMail
  <2>1. slot' = slot
    BY <1>2 DEF TakeMail
  <2>2. ~ NoMail
    BY <1>2 DEF TakeMail, NoMail
  <2>3. ~ WaitMail
    BY <1>2 DEF TakeMail, WaitMail
  <2> QED BY <1>1, <1>2, <2>1, <2>2, <2>3, TakeBoxes
<1>3. CASE NoMail
  <2>1. /\ todo' = Resume(<<>>) \o Rest
        /\ UNCHANGED <<done, slot, inbox, links, held>>
    BY <1>1, <1>3 DEF NoMail
  <2>2. ~ TakeMail
    BY <1>3 DEF TakeMail, NoMail
  <2>3. /\ UNCHANGED <<Live, Boxes>>
        /\ \A t \in Thread : GivenOf(todo', done', t) = GivenOf(todo, done, t)
    BY <1>1, <2>1, AnswerNone
  <2>4. WaitMail => slot'[Cur] = "cont"
    BY <1>1 DEF WaitMail, Inv, TypeOK
  <2> QED BY <1>1, <2>1, <2>2, <2>3, <2>4
<1>4. CASE WaitMail
  <2>1. slot' = [slot EXCEPT ![Cur] = "cont"] /\ slot \in [Thread -> {"none", "inbox", "cont"}]
    BY <1>4 DEF WaitMail, Inv, TypeOK
  <2>2. ~ TakeMail
    BY <1>4 DEF TakeMail, WaitMail
  <2>3. NoMail => slot' = slot
    BY DEF NoMail
  <2> QED BY <1>1, <1>4, <2>1, <2>2, <2>3, WaitBoxes
<1> QED BY <1>2, <1>3, <1>4 DEF DoLook

\* The end of a thread of which no one is told.
LEMMA EndEffect ==
    ASSUME Inv, Inv', Exit, links[Cur] = NoThread
    PROVE  /\ Cur \in Thread /\ Live' = Live \ {Cur} /\ Boxes'[Cur] = <<>>
           /\ links' = [links EXCEPT ![Cur] = NoThread]
           /\ \A t \in Thread \ {Cur} :
                /\ Boxes'[t] = Boxes[t] /\ slot'[t] = slot[t]
                /\ GivenOf(todo', done', t) = GivenOf(todo, done, t)
<1>1. /\ todo # <<>> /\ todo' = Rest /\ done' = done
      /\ slot' = [slot EXCEPT ![Cur] = "none"]
      /\ inbox' = [inbox EXCEPT ![Cur] = <<>>]
      /\ links' = [links EXCEPT ![Cur] = NoThread]
  BY DEF Exit, Ready, DropDelivering
<1>2. /\ Cur \in Thread /\ Cur \in Runnable /\ Rest \in Seq(Entry)
      /\ Ids(Rest) = Ids(todo) \ {Cur}
  BY <1>1, ResumeIds DEF Given
<1>3. /\ slot \in [Thread -> {"none", "inbox", "cont"}]
      /\ inbox \in [Thread -> Seq(Envelope)]
  BY DEF Inv, TypeOK
<1>4. ToSet(todo) = {Head(todo)} \cup ToSet(Rest)
  BY <1>1, TailSet DEF Inv, TypeOK, Rest
<1>5. ASSUME NEW t \in Thread \ {Cur}
      PROVE  GivenOf(todo', done', t) = GivenOf(todo, done, t)
  <2>1. \A x : x.id = t => (x \in Both(todo', done') <=> x \in Both(todo, done))
    BY <1>1, <1>4 DEF Both, Cur
  <2> QED BY <2>1, InvProper, InvProperNext, GivenSame
<1>6. Live' = Live \ {Cur}
  <2>1. Cur \notin Ids(done)
    BY <1>1, TailIds DEF Inv, RunsOnce, TypeOK, Cur
  <2>2. Runnable' = Runnable \ {Cur}
    BY <1>1, <1>2, <2>1 DEF Runnable
  <2>3. Waiting' = Waiting \ {Cur}
    BY <1>1, <1>3 DEF Waiting
  <2> QED BY <2>2, <2>3 DEF Live
<1>7. Boxes'[Cur] = <<>>
  <2>1. GivenOf(todo', done', Cur) = <<>>
    BY <1>6 DEF GivenOf, Live, Runnable
  <2>2. inbox'[Cur] = <<>>
    BY <1>1, <1>2, <1>3
  <2>3. Boxes'[Cur] = <<>> \o <<>>
    BY <1>2, <2>1, <2>2, BoxesAre
  <2> QED BY <2>3
<1>8. \A t \in Thread \ {Cur} : slot'[t] = slot[t] /\ inbox'[t] = inbox[t]
  BY <1>1, <1>3
<1>9. \A t \in Thread \ {Cur} : Boxes'[t] = Boxes[t]
  BY <1>5, <1>8, BoxesAre
<1> QED BY <1>1, <1>2, <1>5, <1>6, <1>7, <1>8, <1>9

\* mail makes no mailbox go away, and the sender runs next.
LEMMA MailSlots ==
    ASSUME Inv, NEW to \in Thread, NEW msg, Mail(to, msg)
    PROVE  /\ \A t \in Thread : slot'[t] = "none" => slot[t] = "none"
           /\ \A t \in Thread \ {to} : slot'[t] = slot[t]
           /\ todo' # <<>> /\ Cur' = Cur
<1>1. slot \in [Thread -> {"none", "inbox", "cont"}] /\ slot' = SlotAfter(slot, to)
  BY DEF Mail, Inv, TypeOK
<1>2. /\ \A t \in Thread : slot'[t] = "none" => slot[t] = "none"
      /\ \A t \in Thread \ {to} : slot'[t] = slot[t]
  BY <1>1 DEF SlotAfter
<1> DEFINE me == [id |-> Cur, given |-> <<>>]
           env == [from |-> Cur, msg |-> msg]
           other == [id |-> to, given |-> <<env>>]
           w == Waked(slot, to, env)
           S == Entry \cup {me, other}
<1>3. todo' = <<me>> \o (w \o Rest)
  BY DEF Mail, Resume
<1>4. w = <<other>> \/ w = <<>>
  BY DEF Waked
<1>5. Rest \in Seq(S) /\ me \in S /\ other \in S
  <2>1. Rest \in Seq(Entry)
    BY DEF Mail, Ready, Rest, Inv, TypeOK
  <2> QED BY <2>1
<1> HIDE DEF w, other, S
<1>6. w \o Rest \in Seq(S)
  <2>1. <<other>> \in Seq(S)
    BY <1>5
  <2>2. <<>> \in Seq(S)
    OBVIOUS
  <2>3. w \in Seq(S)
    BY <1>4, <2>1, <2>2
  <2> QED BY <1>5, <2>3
<1>7. todo' # <<>> /\ Head(todo') = me
  <2> DEFINE r == w \o Rest
  <2>1. r \in Seq(S) /\ me \in S
    BY <1>5, <1>6
  <2> HIDE DEF r, me
  <2>2. <<me>> \o r # <<>> /\ Head(<<me>> \o r) = me
    BY <2>1
  <2> QED BY <1>3, <2>2 DEF r
<1> QED BY <1>2, <1>7 DEF Cur
==============================================================================
