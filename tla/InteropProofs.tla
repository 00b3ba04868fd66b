---------------------------- MODULE InteropProofs ----------------------------
(***************************************************************************)
(* Theorems about request and answer between threads, for any number of    *)
(* clients, threads that disturb them and threads that spin, any bounds,   *)
(* and any costs but those that NotCut speaks of.                          *)
(*                                                                         *)
(* The turns of these programs are turns of the thread controller, so the  *)
(* invariant of ThreadingProofs.tla and the lemmas of ActorMailProofs.tla  *)
(* say what becomes of the run lists and of the mail.  What is added here  *)
(* is where each thread is in its program and which messages can be where. *)
(***************************************************************************)
EXTENDS Interop, ActorMailProofs

------------------------------------------------------------------------------
(* The beginning.                                                          *)

\* Everyone but the server runs, and the server waits for mail.
LEMMA FirstInv ==
    ASSUME InteropInit
    PROVE  /\ Inv /\ Runnable = Threads /\ Waiting = {Server}
           /\ \A t \in Thread : GivenOf(todo, done, t) = <<>>
           /\ Threads \cup {Server} \subseteq Thread
<1>1. /\ Threads \cup {Server} \subseteq Thread \ {Main} /\ IsFiniteSet(Thread)
      /\ Server \notin Threads /\ Late \subseteq Client
  BY InteropAssumption DEF InteropInit, Threads, Noise, Spinner
<1>2. PICK order \in SetToSeqs(Threads) :
        todo = [i \in 1..Len(order) |-> [id |-> order[i], given |-> <<>>]]
  BY DEF InteropInit
<1>3. /\ order \in Seq(Threads) /\ Len(order) \in Nat
      /\ \A i, j \in 1..Len(order) : order[i] = order[j] => i = j
      /\ \A x \in Threads : \E i \in 1..Len(order) : order[i] = x
  <2>1. IsFiniteSet(Threads)
    BY <1>1, FS_Subset
  <2> QED BY <2>1, ListOfAll
<1>4. /\ todo \in Seq(Entry) /\ Len(todo) = Len(order)
      /\ \A i \in 1..Len(order) : todo[i].id = order[i] /\ todo[i].given = <<>>
  <2>1. \A i \in 1..Len(order) : [id |-> order[i], given |-> <<>>] \in Entry
    BY <1>1, <1>3, GivenType DEF Entry
  <2>2. todo \in [1..Len(order) -> Entry]
    BY <1>2, <2>1
  <2>3. todo \in Seq(Entry) /\ Len(todo) = Len(order)
    BY <1>3, <2>2, IsASeq
  <2> QED BY <1>2, <2>3
<1>5. Ids(todo) = Threads /\ Distinct(todo)
  <2>1. Ids(todo) \subseteq Threads
    BY <1>3, <1>4 DEF Ids
  <2>2. Threads \subseteq Ids(todo)
    BY <1>3, <1>4 DEF Ids
  <2>3. ASSUME NEW i \in 1..Len(todo), NEW j \in 1..Len(todo), todo[i].id = todo[j].id
        PROVE  i = j
    <3>1. order[i] = order[j] /\ i \in 1..Len(order) /\ j \in 1..Len(order)
      BY <1>4, <2>3
    <3> QED BY <1>3, <3>1
  <2> QED BY <2>1, <2>2, <2>3 DEF Distinct
<1>6. done = <<>> /\ done \in Seq(Entry) /\ Ids(done) = {} /\ Distinct(done)
  BY DEF InteropInit, Ids, Distinct
<1>7. Runnable = Threads
  BY <1>5, <1>6 DEF Runnable
<1>8. Waiting = {Server}
  BY <1>1 DEF Waiting, InteropInit
<1>9. TypeOK
  <2>1. /\ inbox \in [Thread -> Seq(Envelope)] /\ held \in [Thread -> Seq(Envelope)]
        /\ slot \in [Thread -> {"none", "inbox", "cont"}]
    BY DEF InteropInit
  <2>2. links \in [Thread -> Thread \cup {NoThread}]
    BY DEF InteropInit
  <2>3. retval \in Nat /\ forks \in 0..MaxFork /\ sent \in 0..MaxMail
    BY ThreadAssumption DEF InteropInit
  <2> QED BY <1>4, <1>6, <2>1, <2>2, <2>3 DEF TypeOK, InteropInit
<1>10. RunsOnce
  BY <1>1, <1>5, <1>6, <1>7, <1>8 DEF RunsOnce
<1>11. NothingOutlives
  BY <1>1, <1>7 DEF NothingOutlives, InteropInit, Threads
<1>12. Inv
  BY <1>9, <1>10, <1>11 DEF Inv
<1>13. ASSUME NEW t \in Thread PROVE GivenOf(todo, done, t) = <<>>
  <2>1. CASE t \in Ids(todo) \cup Ids(done)
    <3>1. PICK e \in Both(todo, done) : e.id = t
      BY <1>12, <2>1, InvProper, GivenEntry
    <3>2. e.given = <<>>
      BY <1>4, <1>6, <3>1 DEF Both, ToSet
    <3> QED BY <1>12, <3>1, <3>2, InvProper, GivenIs
  <2>2. CASE t \notin Ids(todo) \cup Ids(done)
    BY <2>2 DEF GivenOf
  <2> QED BY <2>1, <2>2
<1> QED BY <1>1, <1>7, <1>8, <1>12, <1>13

------------------------------------------------------------------------------
(* Requests and answers on their way.                                      *)

\* The messages of `who' in s come in the order of their numbers, which are
\* greater than lo and at most hi.
Rising(s, who, lo, hi) ==
    /\ \A i \in 1..Len(s) : s[i].from = who => lo < s[i].msg /\ s[i].msg <= hi
    /\ \A i, j \in 1..Len(s) :
          i < j /\ s[i].from = who /\ s[j].from = who => s[i].msg < s[j].msg

NoneFrom(s, who) == \A i \in 1..Len(s) : s[i].from # who

\* One more envelope at the end of the second of two sequences.
LEMMA AppendLast ==
    ASSUME NEW a \in Seq(Envelope), NEW b \in Seq(Envelope), NEW e \in Envelope
    PROVE  a \o Append(b, e) = Append(a \o b, e)
<1>1. <<>> \in Seq(Envelope)
  OBVIOUS
<1> QED BY <1>1, SeqFacts

\* The messages of a sequence have numbers.
LEMMA MessageType ==
    ASSUME NEW s \in Seq(Envelope)
    PROVE  \A i \in 1..Len(s) : s[i] \in Envelope /\ s[i].msg \in Nat
<1>1. \A i \in 1..Len(s) : s[i] \in Envelope
  OBVIOUS
<1> QED BY <1>1, ThreadAssumption DEF Envelope

LEMMA RisingNone ==
    ASSUME NEW who, NEW lo, NEW hi
    PROVE  Rising(<<>>, who, lo, hi)
  BY DEF Rising

LEMMA RisingMore ==
    ASSUME NEW s \in Seq(Envelope), NEW a \in Seq(Envelope), NEW who, NEW lo, NEW hi,
           Rising(s, who, lo, hi), NoneFrom(a, who)
    PROVE  Rising(s \o a, who, lo, hi)
<1> DEFINE r == s \o a
<1>1. \A i \in 1..Len(r) : r[i].from = who => i \in 1..Len(s) /\ r[i] = s[i]
  <2>1. ASSUME NEW i \in 1..Len(r), i \notin 1..Len(s) PROVE r[i].from # who
    <3>1. i - Len(s) \in 1..Len(a) /\ r[i] = a[i - Len(s)]
      BY <2>1
    <3> QED BY <3>1 DEF NoneFrom
  <2>2. \A i \in 1..Len(s) : r[i] = s[i]
    OBVIOUS
  <2> QED BY <2>1, <2>2
<1> HIDE DEF r
<1>2. Rising(r, who, lo, hi)
  BY <1>1 DEF Rising
<1> QED BY <1>2 DEF r

LEMMA RisingNext ==
    ASSUME NEW s \in Seq(Envelope), NEW e \in Envelope, NEW lo \in Nat, NEW hi \in Nat,
           lo <= hi, hi < e.msg, Rising(s, e.from, lo, hi)
    PROVE  Rising(Append(s, e), e.from, lo, e.msg)
<1> DEFINE r == Append(s, e)
           n == Len(s) + 1
<1>1. /\ Len(r) = n /\ Len(s) \in Nat /\ r[n] = e
      /\ \A i \in 1..Len(r) : i # n => i \in 1..Len(s) /\ r[i] = s[i]
  OBVIOUS
<1>2. e.msg \in Nat /\ \A i \in 1..Len(s) : s[i].msg \in Nat
  <2>1. e.msg \in Nat
    BY ThreadAssumption DEF Envelope
  <2> QED BY <2>1, MessageType
<1> HIDE DEF r
<1>3. ASSUME NEW i \in 1..Len(r), r[i].from = e.from
      PROVE  lo < r[i].msg /\ r[i].msg <= e.msg /\ (i # n => r[i].msg < e.msg)
  <2>1. CASE i = n
    BY <1>1, <1>2, <2>1
  <2>2. CASE i # n
    <3>1. i \in 1..Len(s) /\ r[i] = s[i]
      BY <1>1, <2>2
    <3>2. lo < s[i].msg /\ s[i].msg <= hi /\ s[i].msg \in Nat
      BY <1>2, <1>3, <3>1 DEF Rising
    <3> QED BY <1>2, <3>1, <3>2
  <2> QED BY <2>1, <2>2
<1>4. ASSUME NEW i \in 1..Len(r), NEW j \in 1..Len(r), i < j,
             r[i].from = e.from, r[j].from = e.from
      PROVE  r[i].msg < r[j].msg
  <2>1. i # n
    BY <1>1, <1>4
  <2>2. CASE j = n
    BY <1>1, <1>3, <1>4, <2>1, <2>2
  <2>3. CASE j # n
    BY <1>1, <1>4, <2>1, <2>3 DEF Rising
  <2> QED BY <2>2, <2>3
<1>5. Rising(r, e.from, lo, e.msg)
  BY <1>3, <1>4 DEF Rising
<1> QED BY <1>5 DEF r

LEMMA RisingTail ==
    ASSUME NEW s \in Seq(Envelope), NEW who, NEW lo \in Nat, NEW hi \in Nat,
           s # <<>>, Rising(s, who, lo, hi)
    PROVE  /\ Rising(Tail(s), who, lo, hi)
           /\ Head(s).from = who => /\ lo < Head(s).msg /\ Head(s).msg <= hi
                                    /\ Rising(Tail(s), who, Head(s).msg, hi)
<1> DEFINE r == Tail(s)
           e == Head(s)
<1>1. /\ 1 \in 1..Len(s) /\ s[1] = e
      /\ \A i \in 1..Len(r) : i + 1 \in 1..Len(s) /\ r[i] = s[i + 1] /\ 1 < i + 1
  OBVIOUS
<1>2. r \in Seq(Envelope)
  OBVIOUS
<1> HIDE DEF r, e
<1>3. \A i \in 1..Len(r), j \in 1..Len(r) : i < j => i + 1 < j + 1
  BY <1>2
<1>4. Rising(r, who, lo, hi)
  BY <1>1, <1>3 DEF Rising
<1>5. ASSUME e.from = who
      PROVE  lo < e.msg /\ e.msg <= hi /\ Rising(r, who, e.msg, hi)
  BY <1>1, <1>3, <1>5 DEF Rising
<1> QED BY <1>4, <1>5 DEF r, e

LEMMA RisingWeak ==
    ASSUME NEW s \in Seq(Envelope), NEW who, NEW lo \in Nat, NEW hi \in Nat, NEW top \in Nat,
           hi <= top, Rising(s, who, lo, hi)
    PROVE  Rising(s, who, lo, top)
  BY MessageType DEF Rising

\* Between a client and the server: b is the mail of client c, l that of the
\* server, g the last answer that was accepted and n the number of requests
\* made.  Up to some m the server has answered; the answers not yet accepted
\* and the requests not yet answered are on their way, each one once.
Flow(c, b, l, g, n) ==
    \E m \in g..n : Rising(b, Server, g, m) /\ Rising(l, c, m, n)

LEMMA FlowAsk ==
    ASSUME NEW c, NEW b, NEW l \in Seq(Envelope), NEW g \in Nat, NEW n \in Nat,
           Flow(c, b, l, g, n), NEW e \in Envelope, e.from = c, e.msg = n + 1
    PROVE  Flow(c, b, l, g, n + 1) /\ Flow(c, b, Append(l, e), g, n + 1)
<1>1. PICK m \in g..n : Rising(b, Server, g, m) /\ Rising(l, c, m, n)
  BY DEF Flow
<1>2. m \in Nat /\ m <= n /\ m \in g..n + 1
  OBVIOUS
<1>3. Rising(Append(l, e), c, m, n + 1)
  <2>1. Rising(Append(l, e), e.from, m, e.msg)
    BY <1>1, <1>2, RisingNext
  <2> QED BY <2>1
<1>4. Rising(l, c, m, n + 1)
  BY <1>1, <1>2, RisingWeak
<1> QED BY <1>1, <1>2, <1>3, <1>4 DEF Flow

LEMMA FlowOther ==
    ASSUME NEW c, NEW b, NEW l \in Seq(Envelope), NEW g \in Nat, NEW n \in Nat,
           Flow(c, b, l, g, n), NEW e \in Envelope, e.from # c
    PROVE  Flow(c, b, Append(l, e), g, n)
<1>1. <<e>> \in Seq(Envelope) /\ NoneFrom(<<e>>, c) /\ Append(l, e) = l \o <<e>>
  <2>1. Len(<<e>>) = 1 /\ <<e>>[1] = e /\ <<e>> \in Seq(Envelope)
    OBVIOUS
  <2>2. NoneFrom(<<e>>, c)
    BY <2>1 DEF NoneFrom
  <2> QED BY <2>1, <2>2
<1> QED BY <1>1, RisingMore DEF Flow

LEMMA FlowSpam ==
    ASSUME NEW c, NEW b \in Seq(Envelope), NEW l, NEW g \in Nat, NEW n \in Nat,
           Flow(c, b, l, g, n), NEW a \in Seq(Envelope), NoneFrom(a, Server)
    PROVE  Flow(c, b \o a, l, g, n)
  BY RisingMore DEF Flow

LEMMA FlowAccept ==
    ASSUME NEW c, NEW b \in Seq(Envelope), NEW l, NEW g \in Nat, NEW n \in Nat,
           Flow(c, b, l, g, n), b # <<>>
    PROVE  /\ Flow(c, Tail(b), l, g, n)
           /\ Head(b).from = Server => /\ g < Head(b).msg /\ Head(b).msg <= n
                                       /\ Flow(c, Tail(b), l, Head(b).msg, n)
<1>1. PICK m \in g..n : Rising(b, Server, g, m) /\ Rising(l, c, m, n)
  BY DEF Flow
<1>2. m \in Nat /\ m <= n
  OBVIOUS
<1>3. /\ Rising(Tail(b), Server, g, m)
      /\ Head(b).from = Server => /\ g < Head(b).msg /\ Head(b).msg <= m
                                  /\ Rising(Tail(b), Server, Head(b).msg, m)
  BY <1>1, <1>2, RisingTail
<1>4. Head(b).msg \in Nat
  <2>1. 1 \in 1..Len(b) /\ Head(b) = b[1]
    OBVIOUS
  <2> QED BY <2>1, MessageType
<1>5. Head(b).from = Server => m \in Head(b).msg..n /\ Head(b).msg <= n
  BY <1>2, <1>3, <1>4
<1> QED BY <1>1, <1>3, <1>5 DEF Flow

LEMMA FlowAnswer ==
    ASSUME NEW c, NEW b \in Seq(Envelope), NEW l \in Seq(Envelope), NEW g \in Nat, NEW n \in Nat,
           Flow(c, b, l, g, n), l # <<>>, NEW e \in Envelope, e.from = Server
    PROVE  /\ Flow(c, b, Tail(l), g, n)
           /\ Head(l).from = c /\ e.msg = Head(l).msg => Flow(c, Append(b, e), Tail(l), g, n)
<1>1. PICK m \in g..n : Rising(b, Server, g, m) /\ Rising(l, c, m, n)
  BY DEF Flow
<1>2. m \in Nat /\ m <= n /\ g <= m
  OBVIOUS
<1>3. /\ Rising(Tail(l), c, m, n)
      /\ Head(l).from = c => /\ m < Head(l).msg /\ Head(l).msg <= n
                             /\ Rising(Tail(l), c, Head(l).msg, n)
  BY <1>1, <1>2, RisingTail
<1>4. Flow(c, b, Tail(l), g, n)
  BY <1>1, <1>3 DEF Flow
<1>5. ASSUME Head(l).from = c, e.msg = Head(l).msg
      PROVE  Flow(c, Append(b, e), Tail(l), g, n)
  <2>1. e.msg \in Nat
    BY ThreadAssumption DEF Envelope
  <2>2. Rising(Append(b, e), e.from, g, e.msg)
    BY <1>1, <1>2, <1>3, <1>5, RisingNext
  <2>3. e.msg \in g..n
    BY <1>2, <1>3, <1>5, <2>1
  <2> QED BY <1>3, <1>5, <2>2, <2>3 DEF Flow
<1> QED BY <1>4, <1>5

LEMMA FlowNone ==
    ASSUME NEW c, NEW b, NEW l, NEW g, NEW n, Flow(c, b, l, g, n)
    PROVE  Flow(c, <<>>, l, g, n)
  BY RisingNone DEF Flow

------------------------------------------------------------------------------
(* The programs.                                                           *)

Points == {"work", "wait", "look", "return", "ended", "answer", "receive"}

\* The types of what the programs and the machine keep.
Typed ==
    /\ pc \in [Thread -> Points]
    /\ left \in [Thread -> Nat]
    /\ count \in [Thread -> Nat]
    /\ got \in [Thread -> Nat]
    /\ bank \in Nat /\ (bank = 0 \/ bank > Reserve)
    /\ cast \in Casts

\* Who runs which program, and that no one is told of the end of another.
Roles ==
    /\ \A t \in Thread : links[t] = NoThread
    /\ Live \subseteq Threads \cup {Server}
    /\ pc[Server] \in {"answer", "receive"}
    /\ \A t \in Client : pc[t] \in {"work", "wait", "look", "return", "ended"}
    /\ \A t \in Noise : pc[t] \in {"work", "ended"}
    /\ \A t \in Spinner : pc[t] = "work"

\* What a client sets aside did not come from the server, and is put back
\* before the client is done with its request.
Aside ==
    /\ \A t \in Client : NoneFrom(held[t], Server)
    /\ \A t \in Client : pc[t] \in {"work", "ended"} => held[t] = <<>>
    /\ \A t \in Noise : held[t] = <<>>

\* The mail of the server, with the request that it is about to answer.
Asked == GivenOf(todo, done, Server)
Line == held[Server] \o Boxes[Server]

\* The server has a request in hand exactly when it is about to answer.
Serving ==
    /\ \A i \in 1..Len(Line) : Line[i].from \in Client
    /\ held[Server] \in Given
    /\ pc[Server] = "receive" => held[Server] = <<>>
    /\ slot[Server] = "cont" => held[Server] = <<>>
    /\ Asked # <<>> => held[Server] = <<>>
    /\ pc[Server] = "answer" /\ slot[Server] # "cont" /\ Asked = <<>>
         => held[Server] # <<>>

\* A client that does not poll has one request open, between its mail and the
\* moment it looks at the answer.
Counted ==
    \A c \in Client \ Poller :
        IF pc[c] \in {"wait", "look"} THEN got[c] + 1 = count[c] ELSE got[c] = count[c]

Flows == \A c \in Client : Flow(c, Boxes[c], Line, got[c], count[c])

Protocol == Typed /\ Roles /\ Aside /\ Serving /\ Counted /\ Flows

\* No thread runs two programs.
LEMMA Cast ==
    ASSUME cast \in Casts
    PROVE  /\ Threads \cup {Server} \subseteq Thread \ {Main}
           /\ Server \notin Threads /\ Server \notin Client
           /\ Noise \cap Client = {} /\ Spinner \cap (Client \cup Noise) = {}
           /\ Late \subseteq Client /\ Poller \subseteq Client
  BY InteropAssumption DEF Threads, Noise, Spinner, Poller

LEMMA AskedNext == Asked' = GivenOf(todo', done', Server)
  BY DEF Asked

LEMMA Running ==
    ASSUME Inv, Protocol, todo # <<>>
    PROVE  /\ Cur \in Thread /\ Cur \in Threads \cup {Server} /\ slot[Cur] # "cont"
           /\ pc[Cur] \in {"answer", "receive"} => Cur = Server
           /\ pc[Cur] \in {"wait", "look", "return"} => Cur \in Client
<1>1. Cur \in Thread /\ Cur \in Runnable
  BY ResumeIds DEF Given
<1>2. slot[Cur] # "cont"
  BY <1>1 DEF Inv, RunsOnce, Waiting
<1>3. Cur \in Threads \cup {Server}
  BY <1>1 DEF Protocol, Roles, Live
<1> QED BY <1>1, <1>2, <1>3 DEF Protocol, Roles, Threads

\* An interop made in time.
LEMMA CallsTyped ==
    ASSUME Protocol, Cur \in Thread, NEW p \in Points, NEW cost \in Nat, Calls(p, cost)
    PROVE  /\ Ready /\ todo # <<>>
           /\ pc' = [pc EXCEPT ![Cur] = p] /\ pc' \in [Thread -> Points]
           /\ left' = [left EXCEPT ![Cur] = cost] /\ left' \in [Thread -> Nat]
           /\ bank' \in Nat /\ (bank' = 0 \/ bank' > Reserve)
<1>1. Reserve \in Nat /\ Ticks \in Nat
  BY InteropAssumption
<1>2. left[Cur] \in Nat /\ Quantum \in Nat
  BY <1>1 DEF Protocol, Typed, Quantum
<1>3. left[Cur] <= Quantum /\ bank' = Deposit(Quantum - left[Cur])
  BY DEF Calls
<1>4. bank' \in Nat /\ (bank' = 0 \/ bank' > Reserve)
  BY <1>1, <1>2, <1>3 DEF Deposit
<1> QED BY <1>4 DEF Calls, Ready, Protocol, Typed

------------------------------------------------------------------------------
(* The turns of these programs are turns of the controller.                *)

\* The server mails only when it has a request in hand.
LEMMA InHand ==
    ASSUME Inv, Protocol, At("answer"), Ready
    PROVE  /\ Cur = Server /\ Head(todo).given = <<>>
           /\ \E e \in Envelope : held[Server] = <<e>> /\ e.from \in Client
                                  /\ held[Server][1] = e
<1>1. Cur = Server /\ Head(todo).given = <<>> /\ slot[Server] # "cont" /\ pc[Server] = "answer"
  BY Running DEF At, Ready
<1>2. Asked = <<>>
  BY <1>1, HeadGiven DEF Asked, Ready
<1>3. held[Server] \in Given /\ held[Server] # <<>>
  BY <1>1, <1>2 DEF Protocol, Serving
<1>4. PICK e \in Envelope : held[Server] = <<e>>
  BY <1>3, GivenType
<1>5. held[Server][1] = e
  BY <1>4
<1>6. Boxes[Server] \in Seq(Envelope)
  BY <1>1, Running, BoxType DEF Ready
<1>7. Line = <<e>> \o Boxes[Server]
  BY <1>4 DEF Line
<1>8. 1 \in 1..Len(Line) /\ Line[1] = e
  BY <1>6, <1>7
<1>9. e.from \in Client
  BY <1>8 DEF Protocol, Serving
<1> QED BY <1>1, <1>4, <1>5, <1>9

\* Numbers that are within the bound of the messages.
LEMMA AskNumber ==
    ASSUME Protocol, Cur \in Thread, count[Cur] < MaxAsk
    PROVE  count[Cur] + 1 \in 0..MaxMail /\ count[Cur] \in Nat
<1>1. MaxAsk \in Nat /\ MaxMail \in Nat /\ MaxAsk <= MaxMail
  BY InteropAssumption, ThreadAssumption
<1>2. count[Cur] \in Nat
  BY DEF Protocol, Typed
<1> QED BY <1>1, <1>2

LEMMA TurnInv == ASSUME Inv, Protocol, InteropNext PROVE Inv'
<1>1. /\ UNCHANGED <<forks, sent, cast>> /\ sent \in 0..MaxMail
      /\ held \in [Thread -> Seq(Envelope)]
  BY DEF InteropNext, Inv, TypeOK
<1>2. /\ Threads \cup {Server} \subseteq Thread \ {Main} /\ Client \subseteq Thread
      /\ Noise \cap Client = {} /\ Main \in Thread
  BY Cast, ThreadAssumption DEF Protocol, Typed, Threads
<1>3. todo # <<>> => Cur \in Thread
  BY Running
<1>4. CASE (OutOfTicks \/ Scheduler) /\ UNCHANGED held
  <2>1. DoSchedule
    BY <1>1, <1>4 DEF OutOfTicks, Scheduler, DoSchedule
  <2> QED BY <2>1, ScheduleInv
<1>5. CASE Ask
  <2>1. /\ Mail(Server, count[Cur] + 1) /\ held' = held /\ todo # <<>> /\ count[Cur] < MaxAsk
    BY <1>5 DEF Ask, At
  <2>2. count[Cur] + 1 \in 0..MaxMail
    BY <1>3, <2>1, AskNumber
  <2> QED BY <1>1, <1>2, <2>1, <2>2, MailTurn DEF Remember
<1>6. CASE AcceptWait \/ Poll \/ Receive
  <2>1. DoLook
    BY <1>1, <1>6 DEF AcceptWait, Poll, Receive, DoLook
  <2> QED BY <2>1, LookInv
<1>7. CASE Look
  <2> DEFINE env == Head(todo).given[1]
  <2>1. Consume /\ Cur \in Thread
    BY <1>3, <1>7 DEF Look, At
  <2>2. PICK e \in Envelope : Head(todo).given = <<e>>
    <3>1. Head(todo) \in Entry /\ Head(todo).given # <<>>
      BY <2>1, TailIds DEF Consume, Inv, TypeOK
    <3>2. Head(todo).given \in Given
      BY <3>1 DEF Entry
    <3> QED BY <3>1, <3>2, GivenType
  <2>3. env = e
    BY <2>2
  <2>4. CASE env.from = Server
    <3>1. held' = held
      BY <1>7, <2>4 DEF Look
    <3>2. DoConsume(FALSE)
      BY <1>1, <2>1, <3>1 DEF DoConsume
    <3> QED BY <3>2, ConsumeInv
  <2>5. CASE env.from # Server
    <3>1. held' = [held EXCEPT ![Cur] = Head(todo).given \o @]
      BY <1>7, <2>2, <2>3, <2>5 DEF Look
    <3>2. DoConsume(TRUE)
      BY <1>1, <2>1, <3>1 DEF DoConsume
    <3> QED BY <3>2, ConsumeInv
  <2> QED BY <2>4, <2>5
<1>8. CASE Return
  <2>1. DoReturnMails
    BY <1>1, <1>8 DEF Return, DoReturnMails, Forget
  <2> QED BY <2>1, ReturnMailsInv
<1>9. CASE ClientEnds
  <2>1. Exit /\ held' = held /\ Cur \in Client \cup Noise /\ pc[Cur] = "work"
    BY <1>9 DEF ClientEnds, Ends, At
  <2>2. held[Cur] = <<>>
    BY <2>1 DEF Protocol, Aside
  <2>3. held' = [held EXCEPT ![Cur] = <<>>]
    BY <1>1, <2>1, <2>2
  <2>4. DoEnd
    BY <1>1, <2>1, <2>3 DEF DoEnd, Forget
  <2> QED BY <2>4, EndInv
<1>10. CASE TakeRequest
  <2>1. Consume /\ Cur = Server /\ Cur \in Thread
    BY <1>3, <1>10, Running DEF TakeRequest, At
  <2>2. Head(todo).given # <<>>
    BY <2>1 DEF Consume
  <2>3. held[Cur] = <<>>
    BY <2>1, <2>2, HeadGiven DEF Protocol, Serving, Asked, Consume
  <2>4. Head(todo).given \in Seq(Envelope)
    <3>1. Head(todo) \in Entry
      BY <2>1, TailIds DEF Consume, Inv, TypeOK
    <3>2. Head(todo).given \in Given
      BY <3>1 DEF Entry
    <3> QED BY <3>2, GivenType
  <2>5. Head(todo).given \o held[Cur] = Head(todo).given
    BY <2>3, <2>4
  <2>6. held' = [held EXCEPT ![Cur] = Head(todo).given \o @]
    BY <1>10, <2>5 DEF TakeRequest
  <2>7. DoConsume(TRUE)
    BY <1>1, <2>1, <2>6 DEF DoConsume
  <2> QED BY <2>7, ConsumeInv
<1>11. CASE Answer
  <2>1. /\ At("answer") /\ Ready /\ Mail(held[Cur][1].from, held[Cur][1].msg)
        /\ held' = [held EXCEPT ![Cur] = <<>>]
    BY <1>11 DEF Answer
  <2>2. PICK e \in Envelope : held[Cur][1] = e /\ e.from \in Client
    BY <2>1, InHand
  <2>3. Mail(e.from, e.msg) /\ e.msg \in 0..MaxMail
    BY <2>1, <2>2 DEF Envelope
  <2>4. held' \in [Thread -> Seq(Envelope)]
    <3>1. <<>> \in Seq(Envelope)
      OBVIOUS
    <3> QED BY <1>1, <2>1, <3>1
  <2> QED BY <1>1, <1>2, <2>2, <2>3, <2>4, MailTurn DEF Remember
<1>12. ASSUME NEW c \in Client, Disturb(c) PROVE Inv'
  <2>1. /\ Mail(c, count[Cur] + 1) /\ held' = held /\ todo # <<>> /\ count[Cur] < MaxAsk
    BY <1>12 DEF Disturb, At
  <2>2. count[Cur] + 1 \in 0..MaxMail
    BY <1>3, <2>1, AskNumber
  <2> QED BY <1>1, <1>2, <2>1, <2>2, MailTurn DEF Remember
<1>13. CASE Spin
  <2>1. Mail(Main, 1) /\ held' = held
    BY <1>13 DEF Spin
  <2>2. 1 \in 0..MaxMail
    BY InteropAssumption, ThreadAssumption
  <2> QED BY <1>1, <1>2, <2>1, <2>2, MailTurn DEF Remember
<1> QED
  BY <1>4, <1>5, <1>6, <1>7, <1>8, <1>9, <1>10, <1>11, <1>12, <1>13 DEF InteropNext

------------------------------------------------------------------------------
(* The programs keep to the protocol.                                      *)

\* What is needed of every turn.
LEMMA Known ==
    ASSUME Inv, Protocol
    PROVE  /\ Threads \cup {Server} \subseteq Thread \ {Main} /\ Main \in Thread
           /\ Server \in Thread /\ Client \subseteq Thread /\ Noise \subseteq Thread
           /\ Server \notin Threads /\ Server \notin Client
           /\ Noise \cap Client = {} /\ Spinner \cap (Client \cup Noise) = {}
           /\ Poller \subseteq Client
           /\ held \in [Thread -> Seq(Envelope)]
           /\ Boxes \in [Thread -> Seq(Envelope)] /\ Line \in Seq(Envelope)
           /\ UserCost \subseteq Nat /\ AskCost \in Nat /\ LookCost \in Nat
           /\ Reserve \in Nat /\ Ticks \in Nat /\ Reserve < Ticks
<1>1. /\ held \in [Thread -> Seq(Envelope)] /\ Boxes \in [Thread -> Seq(Envelope)]
  BY BoxType DEF Inv, TypeOK
<1>2. cast \in Casts
  BY DEF Protocol, Typed
<1>3. /\ UserCost \subseteq Nat /\ AskCost \in Nat /\ LookCost \in Nat
      /\ Reserve \in Nat /\ Ticks \in Nat /\ Reserve < Ticks
  BY InteropAssumption
<1>4. Server \in Thread
  BY <1>2, Cast
<1>5. Line \in Seq(Envelope)
  BY <1>1, <1>4 DEF Line
<1> QED BY <1>1, <1>2, <1>3, <1>4, <1>5, Cast, ThreadAssumption DEF Threads

\* Nothing that concerns the server has changed.
LEMMA ServingSame ==
    ASSUME Inv, Protocol, pc'[Server] = pc[Server], slot'[Server] = slot[Server],
           held'[Server] = held[Server], Boxes'[Server] = Boxes[Server],
           GivenOf(todo', done', Server) = GivenOf(todo, done, Server)
    PROVE  Line' = Line /\ Serving'
<1>1. Line' = Line
  BY DEF Line
<1>2. Asked' = Asked
  BY AskedNext DEF Asked
<1> QED BY <1>1, <1>2 DEF Protocol, Serving

\* The end of a quantum or of a round.
LEMMA ScheduleKeeps ==
    ASSUME Inv, Inv', Protocol, OutOfTicks \/ Scheduler, UNCHANGED <<held, forks, sent, cast>>
    PROVE  Protocol'
<1>1. DoSchedule /\ UNCHANGED <<pc, count, got>>
  BY DEF OutOfTicks, Scheduler, DoSchedule, protocolVars
<1>2. /\ UNCHANGED <<Live, Boxes, slot, links, held>>
      /\ \A t \in Thread : GivenOf(todo', done', t) = GivenOf(todo, done, t)
  BY <1>1, ScheduleEffect
<1>3. Server \in Thread /\ Reserve \in Nat /\ Ticks \in Nat
  BY Known
<1>4. left' \in [Thread -> Nat] /\ bank' \in Nat /\ (bank' = 0 \/ bank' > Reserve)
  <2>1. CASE OutOfTicks
    <3>1. /\ todo # <<>> /\ left[Cur] > Quantum /\ bank' = 0
          /\ left' = [left EXCEPT ![Cur] = @ - (Quantum + 1)]
      BY <2>1 DEF OutOfTicks
    <3>2. Cur \in Thread
      BY <3>1, Running
    <3>3. left \in [Thread -> Nat] /\ left[Cur] \in Nat /\ Quantum \in Nat
      BY <1>3, <3>2 DEF Protocol, Typed, Quantum
    <3>4. left[Cur] - (Quantum + 1) \in Nat
      BY <3>1, <3>3
    <3> QED BY <3>1, <3>3, <3>4
  <2>2. CASE Scheduler
    BY <2>2 DEF Scheduler, protocolVars, Protocol, Typed
  <2> QED BY <2>1, <2>2
<1>5. Typed'
  BY <1>1, <1>4 DEF Protocol, Typed
<1>6. Roles' /\ Aside' /\ Counted'
  BY <1>1, <1>2 DEF Protocol, Roles, Aside, Counted, Threads, Noise, Spinner, Poller
<1>7. Line' = Line /\ Serving'
  BY <1>1, <1>2, <1>3, ServingSame
<1>8. Flows'
  BY <1>1, <1>2, <1>7 DEF Protocol, Flows
<1> QED BY <1>5, <1>6, <1>7, <1>8 DEF Protocol

\* What the next state must say of the thread that ran: p is where it is, h
\* what it keeps, g the last answer it accepted, n its requests.
Fit(t, p, h, g, n) ==
    /\ h \in Seq(Envelope)
    /\ t = Server => p \in {"answer", "receive"}
    /\ t \in Client => /\ p \in {"work", "wait", "look", "return", "ended"}
                       /\ NoneFrom(h, Server)
                       /\ p \in {"work", "ended"} => h = <<>>
    /\ t \in Noise => p \in {"work", "ended"} /\ h = <<>>
    /\ t \in Spinner => p = "work"
    /\ t \in Client \ Poller =>
          IF p \in {"wait", "look"} THEN g + 1 = n ELSE g = n

\* A step of one thread leaves the others where they are.
LEMMA StepKeeps ==
    ASSUME Inv, Protocol, cast' = cast, Cur \in Thread, Live' \subseteq Live,
           \A t \in Thread : links'[t] = NoThread,
           NEW p, pc' = [pc EXCEPT ![Cur] = p],
           NEW h, held' = [held EXCEPT ![Cur] = h],
           NEW g, got' = [got EXCEPT ![Cur] = g],
           NEW n, count' = [count EXCEPT ![Cur] = n],
           Fit(Cur, p, h, g, n)
    PROVE  Roles' /\ Aside' /\ Counted'
<1>1. /\ Server \in Thread /\ Client \subseteq Thread /\ Noise \subseteq Thread
      /\ held \in [Thread -> Seq(Envelope)]
  BY Known
<1>2. /\ pc \in [Thread -> Points] /\ got \in [Thread -> Nat] /\ count \in [Thread -> Nat]
      /\ Spinner \subseteq Thread
  BY Known DEF Protocol, Typed, Threads
<1>3. /\ Threads' = Threads /\ Noise' = Noise /\ Spinner' = Spinner /\ Poller' = Poller
  BY DEF Threads, Noise, Spinner, Poller
<1>4. /\ pc'[Cur] = p /\ held'[Cur] = h /\ got'[Cur] = g /\ count'[Cur] = n
      /\ \A t \in Thread \ {Cur} : /\ pc'[t] = pc[t] /\ held'[t] = held[t]
                                   /\ got'[t] = got[t] /\ count'[t] = count[t]
  BY <1>1, <1>2
<1>5. Roles'
  <2>1. pc'[Server] \in {"answer", "receive"}
    BY <1>1, <1>4 DEF Fit, Protocol, Roles
  <2>2. \A t \in Client : pc'[t] \in {"work", "wait", "look", "return", "ended"}
    BY <1>1, <1>4 DEF Fit, Protocol, Roles
  <2>3. \A t \in Noise : pc'[t] \in {"work", "ended"}
    BY <1>1, <1>4 DEF Fit, Protocol, Roles
  <2>4. \A t \in Spinner : pc'[t] = "work"
    BY <1>2, <1>4 DEF Fit, Protocol, Roles
  <2>5. Live' \subseteq Threads \cup {Server}
    BY DEF Protocol, Roles
  <2> QED BY <1>3, <2>1, <2>2, <2>3, <2>4, <2>5 DEF Roles
<1>6. Aside'
  <2>1. \A t \in Client : NoneFrom(held'[t], Server)
    BY <1>1, <1>4 DEF Fit, Protocol, Aside
  <2>2. \A t \in Client : pc'[t] \in {"work", "ended"} => held'[t] = <<>>
    BY <1>1, <1>4 DEF Fit, Protocol, Aside
  <2>3. \A t \in Noise : held'[t] = <<>>
    BY <1>1, <1>4 DEF Fit, Protocol, Aside
  <2> QED BY <1>3, <2>1, <2>2, <2>3 DEF Aside
<1>7. Counted'
  BY <1>1, <1>3, <1>4 DEF Fit, Protocol, Counted
<1> QED BY <1>5, <1>6, <1>7

\* What the thread that runs has before its step.
LEMMA Before ==
    ASSUME Inv, Protocol, Cur \in Thread
    PROVE  /\ pc \in [Thread -> Points] /\ got \in [Thread -> Nat] /\ count \in [Thread -> Nat]
           /\ held \in [Thread -> Seq(Envelope)]
           /\ Fit(Cur, pc[Cur], held[Cur], got[Cur], count[Cur])
           /\ got = [got EXCEPT ![Cur] = got[Cur]]
           /\ count = [count EXCEPT ![Cur] = count[Cur]]
           /\ held = [held EXCEPT ![Cur] = held[Cur]]
           /\ \A t \in Thread : links[t] = NoThread
<1>1. /\ held \in [Thread -> Seq(Envelope)]
      /\ pc \in [Thread -> Points] /\ got \in [Thread -> Nat] /\ count \in [Thread -> Nat]
  BY Known DEF Protocol, Typed
<1>2. Fit(Cur, pc[Cur], held[Cur], got[Cur], count[Cur])
  BY <1>1 DEF Fit, Protocol, Roles, Aside, Counted
<1>3. \A t \in Thread : links[t] = NoThread
  BY DEF Protocol, Roles
<1> QED BY <1>1, <1>2, <1>3

\* A client mails its request.
LEMMA AskKeeps ==
    ASSUME Inv, Inv', Protocol, Ask, UNCHANGED <<forks, sent, cast>>
    PROVE  Protocol'
<1> DEFINE n == count[Cur]
           env == [from |-> Cur, msg |-> n + 1]
<1>1. /\ todo # <<>> /\ pc[Cur] = "work" /\ Cur \in Client /\ n < MaxAsk
      /\ Mail(Server, n + 1)
      /\ count' = [count EXCEPT ![Cur] = n + 1]
      /\ UNCHANGED <<got, held>>
  BY DEF Ask, At
<1>2. PICK cost \in Nat : Calls("wait", cost)
  BY Known DEF Ask
<1>3. /\ Cur \in Thread /\ Cur # Server /\ Server \in Thread /\ Client \subseteq Thread
      /\ Server \notin Client /\ Line \in Seq(Envelope)
      /\ Noise \cap Client = {} /\ Spinner \cap (Client \cup Noise) = {}
  BY <1>1, Known
<1>4. /\ pc' = [pc EXCEPT ![Cur] = "wait"] /\ pc' \in [Thread -> Points]
      /\ left' \in [Thread -> Nat] /\ bank' \in Nat /\ (bank' = 0 \/ bank' > Reserve)
  BY <1>2, <1>3, CallsTyped DEF Points
<1>5. /\ n \in Nat /\ n + 1 \in 0..MaxMail
  BY <1>1, <1>3, AskNumber
<1>6. /\ pc \in [Thread -> Points] /\ got \in [Thread -> Nat] /\ count \in [Thread -> Nat]
      /\ Fit(Cur, pc[Cur], held[Cur], got[Cur], n)
      /\ got' = [got EXCEPT ![Cur] = got[Cur]]
      /\ held' = [held EXCEPT ![Cur] = held[Cur]]
      /\ \A t \in Thread : links[t] = NoThread
  BY <1>1, <1>3, Before
<1>7. Typed'
  BY <1>1, <1>4, <1>5, <1>6 DEF Protocol, Typed
<1>8. /\ env \in Envelope
      /\ UNCHANGED <<Live, links>>
      /\ \A t \in Thread \ {Server} : Boxes'[t] = Boxes[t]
      /\ Boxes'[Server] = Boxes[Server] \/ Boxes'[Server] = Append(Boxes[Server], env)
      /\ slot[Server] = "cont" => slot'[Server] = "inbox" /\ GivenOf(todo', done', Server) # <<>>
      /\ slot[Server] # "cont" =>
           /\ slot'[Server] = slot[Server]
           /\ GivenOf(todo', done', Server) = GivenOf(todo, done, Server)
  BY <1>1, <1>3, <1>5, MailEffect
<1>9. Roles' /\ Aside' /\ Counted'
  <2>1. Fit(Cur, "wait", held[Cur], got[Cur], n + 1)
    BY <1>1, <1>3, <1>6 DEF Fit
  <2>2. \A t \in Thread : links'[t] = NoThread
    BY <1>6, <1>8
  <2> QED BY <1>1, <1>3, <1>4, <1>6, <1>8, <2>1, <2>2, StepKeeps
<1>10. env.from = Cur /\ env.msg = n + 1
  OBVIOUS
<1> HIDE DEF env
<1>11. Line' = Line \/ Line' = Append(Line, env)
  <2>1. held[Server] \in Seq(Envelope) /\ Boxes[Server] \in Seq(Envelope)
    BY <1>3, Known
  <2>2. held[Server] \o Append(Boxes[Server], env) = Append(held[Server] \o Boxes[Server], env)
    <3>1. <<>> \in Seq(Envelope) /\ env \in Envelope
      BY <1>8
    <3> QED BY <2>1, <3>1, AppendLast
  <2> QED BY <1>1, <1>8, <2>2 DEF Line
<1>12. Serving'
  <2>1. \A i \in 1..Len(Line') : Line'[i].from \in Client
    <3>1. \A i \in 1..Len(Line) : Line[i].from \in Client
      BY DEF Protocol, Serving
    <3>2. \A i \in 1..Len(Append(Line, env)) : Append(Line, env)[i].from \in Client
      BY <1>1, <1>3, <1>8, <1>10, <3>1
    <3> QED BY <1>11, <3>1, <3>2
  <2>2. pc'[Server] = pc[Server] /\ held'[Server] = held[Server]
    BY <1>1, <1>3, <1>4, <1>6
  <2>3. slot[Server] = "cont" => held[Server] = <<>> /\ Asked' # <<>> /\ slot'[Server] # "cont"
    BY <1>8, AskedNext DEF Protocol, Serving
  <2>4. slot[Server] # "cont" => Asked' = Asked /\ slot'[Server] = slot[Server]
    BY <1>8, AskedNext DEF Asked
  <2> QED BY <2>1, <2>2, <2>3, <2>4 DEF Protocol, Serving
<1>13. ASSUME NEW c \in Client
       PROVE  Flow(c, Boxes'[c], Line', got'[c], count'[c])
  <2>1. /\ c \in Thread /\ Boxes'[c] = Boxes[c] /\ got'[c] = got[c]
        /\ got[c] \in Nat /\ count[c] \in Nat
    BY <1>1, <1>3, <1>6, <1>8
  <2>2. Flow(c, Boxes[c], Line, got[c], count[c])
    BY DEF Protocol, Flows
  <2>3. CASE c = Cur
    <3>1. count'[c] = count[c] + 1 /\ env.from = c /\ env.msg = count[c] + 1
      BY <1>1, <1>3, <1>6, <1>10, <2>3
    <3>2. /\ Flow(c, Boxes[c], Line, got[c], count[c] + 1)
          /\ Flow(c, Boxes[c], Append(Line, env), got[c], count[c] + 1)
      BY <1>3, <1>8, <2>1, <2>2, <3>1, FlowAsk
    <3> QED BY <1>11, <2>1, <3>1, <3>2
  <2>4. CASE c # Cur
    <3>1. count'[c] = count[c] /\ env.from # c
      BY <1>1, <1>3, <1>6, <1>10, <2>4
    <3>2. Flow(c, Boxes[c], Append(Line, env), got[c], count[c])
      BY <1>3, <1>8, <2>1, <2>2, <3>1, FlowOther
    <3> QED BY <1>11, <2>1, <2>2, <3>1, <3>2
  <2> QED BY <2>3, <2>4
<1>14. Flows'
  BY <1>13 DEF Flows
<1> QED BY <1>7, <1>9, <1>12, <1>14 DEF Protocol

\* A client looks into its inbox, or waits.
LEMMA WaitKeeps ==
    ASSUME Inv, Inv', Protocol, AcceptWait \/ Poll, UNCHANGED <<forks, sent, cast>>
    PROVE  Protocol'
<1>1. /\ todo # <<>> /\ pc[Cur] = "wait" /\ DoLook /\ UNCHANGED <<count, got, held>>
  BY DEF AcceptWait, Poll, At, DoLook
<1>2. PICK p \in {"look", "wait", "return"}, cost \in Nat :
         Calls(p, cost) /\ (p = "return" => Cur \in Poller)
  BY Known DEF AcceptWait, Poll
<1>3. Cur \in Thread /\ Cur \in Client
  BY <1>1, Running
<1>4. /\ Cur # Server /\ Server \in Thread /\ Client \subseteq Thread
      /\ Noise \cap Client = {} /\ Spinner \cap (Client \cup Noise) = {}
  BY <1>3, Known
<1>5. /\ pc' = [pc EXCEPT ![Cur] = p] /\ pc' \in [Thread -> Points]
      /\ left' \in [Thread -> Nat] /\ bank' \in Nat /\ (bank' = 0 \/ bank' > Reserve)
  BY <1>2, <1>3, CallsTyped DEF Points
<1>6. /\ pc \in [Thread -> Points] /\ got \in [Thread -> Nat] /\ count \in [Thread -> Nat]
      /\ Fit(Cur, pc[Cur], held[Cur], got[Cur], count[Cur])
      /\ got' = [got EXCEPT ![Cur] = got[Cur]]
      /\ count' = [count EXCEPT ![Cur] = count[Cur]]
      /\ held' = [held EXCEPT ![Cur] = held[Cur]]
      /\ \A t \in Thread : links[t] = NoThread
  BY <1>1, <1>3, Before
<1>7. Typed'
  BY <1>1, <1>5 DEF Protocol, Typed
<1>8. /\ UNCHANGED <<Live, Boxes, links>>
      /\ slot'[Server] = slot[Server]
      /\ GivenOf(todo', done', Server) = GivenOf(todo, done, Server)
  BY <1>1, <1>4, LookEffect
<1>9. Roles' /\ Aside' /\ Counted'
  <2>1. Fit(Cur, p, held[Cur], got[Cur], count[Cur])
    BY <1>1, <1>2, <1>3, <1>4, <1>6 DEF Fit
  <2>2. \A t \in Thread : links'[t] = NoThread
    BY <1>6, <1>8
  <2> QED BY <1>3, <1>5, <1>6, <1>8, <2>1, <2>2, StepKeeps
<1>10. Line' = Line /\ Serving'
  <2>1. /\ pc'[Server] = pc[Server] /\ held'[Server] = held[Server]
        /\ Boxes'[Server] = Boxes[Server]
    BY <1>1, <1>4, <1>5, <1>6, <1>8
  <2> QED BY <1>8, <2>1, ServingSame
<1>11. Flows'
  BY <1>1, <1>8, <1>10 DEF Protocol, Flows
<1> QED BY <1>7, <1>9, <1>10, <1>11 DEF Protocol

\* The server looks into its inbox, or waits.
LEMMA ReceiveKeeps ==
    ASSUME Inv, Inv', Protocol, Receive, UNCHANGED <<forks, sent, cast>>
    PROVE  Protocol'
<1>1. /\ todo # <<>> /\ pc[Cur] = "receive" /\ DoLook /\ UNCHANGED <<count, got, held>>
      /\ TakeMail \/ WaitMail
  BY DEF Receive, At, DoLook
<1>2. PICK cost \in Nat : Calls("answer", cost)
  BY Known DEF Receive
<1>3. Cur \in Thread /\ Cur = Server
  BY <1>1, Running
<1>4. /\ Client \subseteq Thread /\ Server \notin Client
      /\ Noise \cap Client = {} /\ Server \notin Threads
  BY <1>3, Known
<1>5. /\ pc' = [pc EXCEPT ![Cur] = "answer"] /\ pc' \in [Thread -> Points]
      /\ left' \in [Thread -> Nat] /\ bank' \in Nat /\ (bank' = 0 \/ bank' > Reserve)
  BY <1>2, <1>3, CallsTyped DEF Points
<1>6. /\ pc \in [Thread -> Points] /\ got \in [Thread -> Nat] /\ count \in [Thread -> Nat]
      /\ Fit(Cur, pc[Cur], held[Cur], got[Cur], count[Cur])
      /\ got' = [got EXCEPT ![Cur] = got[Cur]]
      /\ count' = [count EXCEPT ![Cur] = count[Cur]]
      /\ held' = [held EXCEPT ![Cur] = held[Cur]]
      /\ \A t \in Thread : links[t] = NoThread
  BY <1>1, <1>3, Before
<1>7. Typed'
  BY <1>1, <1>5 DEF Protocol, Typed
<1>8. /\ UNCHANGED <<Live, Boxes, links>>
      /\ TakeMail => GivenOf(todo', done', Cur) # <<>>
      /\ WaitMail => slot'[Cur] = "cont"
  BY <1>1, LookEffect
<1>9. Roles' /\ Aside' /\ Counted'
  <2>1. Fit(Cur, "answer", held[Cur], got[Cur], count[Cur])
    BY <1>1, <1>3, <1>4, <1>6 DEF Fit, Threads, Poller
  <2>2. \A t \in Thread : links'[t] = NoThread
    BY <1>6, <1>8
  <2> QED BY <1>3, <1>5, <1>6, <1>8, <2>1, <2>2, StepKeeps
<1>10. Line' = Line
  BY <1>1, <1>8 DEF Line
<1>11. Serving'
  <2>1. held[Server] = <<>> /\ held' = held
    BY <1>1, <1>3 DEF Protocol, Serving
  <2>2. pc'[Server] = "answer"
    BY <1>3, <1>5, <1>6
  <2>3. slot'[Server] = "cont" \/ Asked' # <<>>
    BY <1>1, <1>3, <1>8, AskedNext
  <2> QED BY <1>10, <2>1, <2>2, <2>3 DEF Protocol, Serving
<1>12. Flows'
  BY <1>1, <1>8, <1>10 DEF Protocol, Flows
<1> QED BY <1>7, <1>9, <1>11, <1>12 DEF Protocol

\* The end of a client, or of one that disturbs.
LEMMA ClientEndsKeeps ==
    ASSUME Inv, Inv', Protocol, ClientEnds, UNCHANGED <<forks, sent, cast>>
    PROVE  Protocol'
<1>1. /\ todo # <<>> /\ pc[Cur] = "work" /\ Cur \in Client \cup Noise /\ Exit
      /\ bank' = 0 /\ pc' = [pc EXCEPT ![Cur] = "ended"]
      /\ UNCHANGED <<left, count, got, held>>
  BY DEF ClientEnds, Ends, At
<1>2. Cur \in Thread
  BY <1>1, Running
<1>3. /\ Cur # Server /\ Server \in Thread /\ Client \subseteq Thread
      /\ Spinner \cap (Client \cup Noise) = {}
  BY <1>1, Known DEF Threads
<1>4. /\ pc \in [Thread -> Points] /\ got \in [Thread -> Nat] /\ count \in [Thread -> Nat]
      /\ Fit(Cur, pc[Cur], held[Cur], got[Cur], count[Cur])
      /\ got' = [got EXCEPT ![Cur] = got[Cur]]
      /\ count' = [count EXCEPT ![Cur] = count[Cur]]
      /\ held' = [held EXCEPT ![Cur] = held[Cur]]
      /\ \A t \in Thread : links[t] = NoThread
  BY <1>1, <1>2, Before
<1>5. Typed'
  <2>1. pc' \in [Thread -> Points] /\ bank' \in Nat
    BY <1>1, <1>2, <1>4 DEF Points
  <2> QED BY <1>1, <2>1 DEF Protocol, Typed
<1>6. /\ Live' \subseteq Live /\ Boxes'[Cur] = <<>>
      /\ links' = [links EXCEPT ![Cur] = NoThread]
      /\ \A t \in Thread \ {Cur} :
           /\ Boxes'[t] = Boxes[t] /\ slot'[t] = slot[t]
           /\ GivenOf(todo', done', t) = GivenOf(todo, done, t)
  BY <1>1, <1>2, <1>4, EndEffect
<1>7. Roles' /\ Aside' /\ Counted'
  <2>1. Fit(Cur, "ended", held[Cur], got[Cur], count[Cur])
    BY <1>1, <1>3, <1>4 DEF Fit
  <2>2. \A t \in Thread : links'[t] = NoThread
    BY <1>4, <1>6 DEF Inv, TypeOK
  <2> QED BY <1>1, <1>2, <1>4, <1>6, <2>1, <2>2, StepKeeps
<1>8. Line' = Line /\ Serving'
  <2>1. /\ pc'[Server] = pc[Server] /\ held'[Server] = held[Server]
        /\ Boxes'[Server] = Boxes[Server] /\ slot'[Server] = slot[Server]
        /\ GivenOf(todo', done', Server) = GivenOf(todo, done, Server)
    BY <1>1, <1>3, <1>4, <1>6
  <2> QED BY <2>1, ServingSame
<1>9. ASSUME NEW c \in Client PROVE Flow(c, Boxes'[c], Line', got'[c], count'[c])
  <2>1. Flow(c, Boxes[c], Line, got[c], count[c])
    BY DEF Protocol, Flows
  <2>2. Boxes'[c] = Boxes[c] \/ Boxes'[c] = <<>>
    BY <1>3, <1>6
  <2> QED BY <1>1, <1>8, <2>1, <2>2, FlowNone
<1>10. Flows'
  BY <1>9 DEF Flows
<1> QED BY <1>5, <1>7, <1>8, <1>10 DEF Protocol

\* A thread that spins mails one that is gone.
LEMMA SpinKeeps ==
    ASSUME Inv, Inv', Protocol, Spin, UNCHANGED <<forks, sent, cast>>
    PROVE  Protocol'
<1>1. /\ todo # <<>> /\ pc[Cur] = "work" /\ Cur \in Spinner /\ Mail(Main, 1)
      /\ UNCHANGED <<count, got, held>> /\ Calls("work", cast.pace)
  BY DEF Spin, At
<1>2. Cur \in Thread
  BY <1>1, Running
<1>3. /\ Server \in Thread /\ Client \subseteq Thread /\ Server # Main /\ Main \in Thread
      /\ Main \notin Client /\ cast.pace \in Nat
  <2>1. cast \in Casts
    BY DEF Protocol, Typed
  <2> QED BY <2>1, Known, InteropAssumption DEF Threads
<1>4. /\ pc' = [pc EXCEPT ![Cur] = "work"] /\ pc' \in [Thread -> Points]
      /\ left' \in [Thread -> Nat] /\ bank' \in Nat /\ (bank' = 0 \/ bank' > Reserve)
  BY <1>1, <1>2, <1>3, CallsTyped DEF Points
<1>5. /\ pc \in [Thread -> Points] /\ got \in [Thread -> Nat] /\ count \in [Thread -> Nat]
      /\ Fit(Cur, pc[Cur], held[Cur], got[Cur], count[Cur])
      /\ got' = [got EXCEPT ![Cur] = got[Cur]]
      /\ count' = [count EXCEPT ![Cur] = count[Cur]]
      /\ held' = [held EXCEPT ![Cur] = held[Cur]]
      /\ \A t \in Thread : links[t] = NoThread
  BY <1>1, <1>2, Before
<1>6. Typed'
  BY <1>1, <1>4 DEF Protocol, Typed
<1>7. /\ UNCHANGED <<Live, links>>
      /\ \A t \in Thread \ {Main} :
           /\ Boxes'[t] = Boxes[t] /\ slot'[t] = slot[t]
           /\ GivenOf(todo', done', t) = GivenOf(todo, done, t)
  <2>1. 1 \in 0..MaxMail
    BY InteropAssumption, ThreadAssumption
  <2> QED BY <1>1, <1>3, <2>1, MailEffect
<1>8. Roles' /\ Aside' /\ Counted'
  <2>1. Fit(Cur, "work", held[Cur], got[Cur], count[Cur])
    BY <1>1, <1>5
  <2>2. \A t \in Thread : links'[t] = NoThread
    BY <1>5, <1>7
  <2> QED BY <1>1, <1>2, <1>4, <1>5, <1>7, <2>1, <2>2, StepKeeps
<1>9. Line' = Line /\ Serving'
  <2>1. pc' = pc
    BY <1>1, <1>4, <1>5
  <2> QED BY <1>1, <1>3, <1>7, <2>1, ServingSame
<1>10. \A c \in Client : Boxes'[c] = Boxes[c]
  BY <1>3, <1>7
<1>11. Flows'
  BY <1>1, <1>9, <1>10 DEF Protocol, Flows
<1> QED BY <1>6, <1>8, <1>9, <1>11 DEF Protocol

\* A client looks at the envelope that it was given.
LEMMA LookKeeps ==
    ASSUME Inv, Inv', Protocol, Look, UNCHANGED <<forks, sent, cast>>
    PROVE  /\ Protocol'
           /\ pc'[Cur] = "return" => got'[Cur] > got[Cur]
           /\ pc' = [pc EXCEPT ![Cur] = pc'[Cur]]
           /\ Cur \in Client
<1> DEFINE env == Head(todo).given[1]
           g == IF env.from = Server THEN env.msg ELSE got[Cur]
           h == IF env.from = Server THEN held[Cur] ELSE <<env>> \o held[Cur]
           p == IF env.from = Server THEN "return" ELSE "wait"
<1>1. /\ todo # <<>> /\ pc[Cur] = "look" /\ Cur \in Client /\ Consume
      /\ UNCHANGED <<left, count, bank, slot>>
  BY DEF Look, At, Consume
<1>2. Cur \in Thread
  BY <1>1, Running
<1>3. /\ Cur # Server /\ Server \in Thread /\ Client \subseteq Thread /\ Line \in Seq(Envelope)
      /\ Boxes \in [Thread -> Seq(Envelope)]
      /\ Noise \cap Client = {} /\ Spinner \cap (Client \cup Noise) = {}
  BY <1>1, Known
<1>4. /\ pc \in [Thread -> Points] /\ got \in [Thread -> Nat] /\ count \in [Thread -> Nat]
      /\ held \in [Thread -> Seq(Envelope)]
      /\ Fit(Cur, pc[Cur], held[Cur], got[Cur], count[Cur])
      /\ got = [got EXCEPT ![Cur] = got[Cur]]
      /\ count' = [count EXCEPT ![Cur] = count[Cur]]
      /\ held = [held EXCEPT ![Cur] = held[Cur]]
      /\ \A t \in Thread : links[t] = NoThread
  BY <1>1, <1>2, Before
<1>5. /\ UNCHANGED <<Live, links>>
      /\ Boxes[Cur] # <<>> /\ Boxes' = [Boxes EXCEPT ![Cur] = Tail(@)]
      /\ Head(Boxes[Cur]) \in Envelope
      /\ Head(todo).given = <<Head(Boxes[Cur])>>
      /\ \A t \in Thread \ {Cur} : GivenOf(todo', done', t) = GivenOf(todo, done, t)
  BY <1>1, ConsumeBoxes
<1>6. env = Head(Boxes[Cur]) /\ env \in Envelope
  BY <1>5
<1>7. got' = [got EXCEPT ![Cur] = g] /\ held' = [held EXCEPT ![Cur] = h]
      /\ pc' = [pc EXCEPT ![Cur] = p]
  <2>1. CASE env.from = Server
    BY <1>4, <2>1 DEF Look
  <2>2. CASE env.from # Server
    BY <1>4, <2>2 DEF Look
  <2> QED BY <2>1, <2>2
<1>8. Boxes[Cur] \in Seq(Envelope) /\ got[Cur] \in Nat /\ count[Cur] \in Nat /\ env.msg \in Nat
  <2>1. env.msg \in Nat
    BY <1>6, ThreadAssumption DEF Envelope
  <2> QED BY <1>2, <1>3, <1>4, <2>1
<1>9. Flow(Cur, Boxes[Cur], Line, got[Cur], count[Cur])
  BY <1>1 DEF Protocol, Flows
<1>10. /\ Flow(Cur, Tail(Boxes[Cur]), Line, got[Cur], count[Cur])
       /\ env.from = Server => /\ got[Cur] < env.msg /\ env.msg <= count[Cur]
                               /\ Flow(Cur, Tail(Boxes[Cur]), Line, env.msg, count[Cur])
  <2> HIDE DEF env
  <2> QED BY <1>5, <1>6, <1>8, <1>9, FlowAccept
<1>11. h \in Seq(Envelope) /\ NoneFrom(h, Server)
  <2>1. held[Cur] \in Seq(Envelope) /\ NoneFrom(held[Cur], Server)
    BY <1>1, <1>2, <1>4 DEF Fit
  <2> HIDE DEF env
  <2>2. ASSUME env.from # Server
        PROVE  /\ <<env>> \o held[Cur] \in Seq(Envelope)
               /\ NoneFrom(<<env>> \o held[Cur], Server)
    <3> DEFINE k == held[Cur]
               r == <<env>> \o k
    <3> HIDE DEF k
    <3>1. k \in Seq(Envelope) /\ NoneFrom(k, Server)
      BY <2>1 DEF k
    <3>2. r \in Seq(Envelope)
      BY <1>6, <3>1
    <3>3. ASSUME NEW i \in 1..Len(r) PROVE r[i].from # Server
      <4>1. CASE i = 1
        <5>1. r[i] = env
          BY <1>6, <3>1, <4>1
        <5> QED BY <2>2, <5>1
      <4>2. CASE i # 1
        <5>1. i - 1 \in 1..Len(k) /\ r[i] = k[i - 1]
          BY <1>6, <3>1, <4>2
        <5> QED BY <3>1, <5>1 DEF NoneFrom
      <4> QED BY <4>1, <4>2
    <3>4. NoneFrom(r, Server)
      BY <3>3 DEF NoneFrom
    <3> QED BY <3>2, <3>4 DEF k
  <2> QED BY <2>1, <2>2
<1> HIDE DEF env
<1>12. Typed'
  <2>1. /\ g \in Nat /\ p \in Points
    BY <1>8 DEF Points
  <2>2. /\ pc' \in [Thread -> Points] /\ got' \in [Thread -> Nat]
    BY <1>4, <1>7, <2>1
  <2> QED BY <1>1, <2>2 DEF Protocol, Typed
<1>13. Roles' /\ Aside' /\ Counted'
  <2>1. Fit(Cur, p, h, g, count[Cur])
    <3>1. CASE env.from = Server
      BY <1>1, <1>3, <1>4, <1>8, <1>10, <1>11, <3>1 DEF Fit
    <3>2. CASE env.from # Server
      BY <1>1, <1>3, <1>4, <1>8, <1>11, <3>2 DEF Fit
    <3> QED BY <3>1, <3>2
  <2>2. \A t \in Thread : links'[t] = NoThread
    BY <1>4, <1>5
  <2> HIDE DEF p, g, h
  <2> QED BY <1>2, <1>4, <1>5, <1>7, <2>1, <2>2, StepKeeps
<1>14. Line' = Line /\ Serving'
  <2>1. /\ pc'[Server] = pc[Server] /\ held'[Server] = held[Server]
    BY <1>3, <1>4, <1>7
  <2>2. /\ Boxes'[Server] = Boxes[Server]
        /\ slot'[Server] = slot[Server]
        /\ GivenOf(todo', done', Server) = GivenOf(todo, done, Server)
    BY <1>1, <1>3, <1>5
  <2> QED BY <2>1, <2>2, ServingSame
<1>15. ASSUME NEW c \in Client PROVE Flow(c, Boxes'[c], Line', got'[c], count'[c])
  <2>1. CASE c = Cur
    <3>1. Boxes'[c] = Tail(Boxes[Cur]) /\ got'[c] = g /\ count'[c] = count[Cur]
      BY <1>1, <1>2, <1>3, <1>4, <1>5, <1>7, <2>1
    <3> QED BY <1>10, <1>14, <2>1, <3>1
  <2>2. CASE c # Cur
    <3>1. Boxes'[c] = Boxes[c] /\ got'[c] = got[c] /\ count'[c] = count[c]
      BY <1>1, <1>3, <1>4, <1>5, <1>7, <2>2
    <3>2. Flow(c, Boxes[c], Line, got[c], count[c])
      BY DEF Protocol, Flows
    <3> QED BY <1>14, <3>1, <3>2
  <2> QED BY <2>1, <2>2
<1>16. Flows'
  BY <1>15 DEF Flows
<1>17. pc'[Cur] = p /\ got'[Cur] = g
  BY <1>2, <1>4, <1>7
<1>18. pc'[Cur] = "return" => got'[Cur] > got[Cur]
  BY <1>8, <1>10, <1>17
<1> QED BY <1>1, <1>7, <1>12, <1>13, <1>14, <1>16, <1>17, <1>18 DEF Protocol

\* A client puts back what it has set aside.
LEMMA ReturnKeeps ==
    ASSUME Inv, Inv', Protocol, Return, UNCHANGED <<forks, sent, cast>>
    PROVE  Protocol'
<1>1. /\ todo # <<>> /\ pc[Cur] = "return" /\ DoReturnMails
      /\ slot' = [slot EXCEPT ![Cur] = "inbox"]
      /\ held' = [held EXCEPT ![Cur] = <<>>] /\ UNCHANGED <<count, got>>
  BY DEF Return, At, DoReturnMails, ReturnMails, Forget
<1>2. PICK cost \in Nat : Calls("work", cost)
  BY Known DEF Return
<1>3. Cur \in Thread /\ Cur \in Client
  BY <1>1, Running
<1>4. /\ Cur # Server /\ Server \in Thread /\ Client \subseteq Thread
      /\ Boxes \in [Thread -> Seq(Envelope)]
      /\ Noise \cap Client = {} /\ Spinner \cap (Client \cup Noise) = {}
  BY <1>3, Known
<1>5. /\ pc' = [pc EXCEPT ![Cur] = "work"] /\ pc' \in [Thread -> Points]
      /\ left' \in [Thread -> Nat] /\ bank' \in Nat /\ (bank' = 0 \/ bank' > Reserve)
  BY <1>2, <1>3, CallsTyped DEF Points
<1>6. /\ pc \in [Thread -> Points] /\ got \in [Thread -> Nat] /\ count \in [Thread -> Nat]
      /\ held \in [Thread -> Seq(Envelope)]
      /\ Fit(Cur, pc[Cur], held[Cur], got[Cur], count[Cur])
      /\ got' = [got EXCEPT ![Cur] = got[Cur]]
      /\ count' = [count EXCEPT ![Cur] = count[Cur]]
      /\ \A t \in Thread : links[t] = NoThread
  BY <1>1, <1>3, Before
<1>7. Typed'
  BY <1>1, <1>5 DEF Protocol, Typed
<1>8. /\ UNCHANGED <<Live, links>>
      /\ Boxes' = [Boxes EXCEPT ![Cur] = @ \o Kept[Cur]]
      /\ \A t \in Thread : GivenOf(todo', done', t) = GivenOf(todo, done, t)
  BY <1>1, ReturnBoxes
<1>9. Kept[Cur] \in Seq(Envelope) /\ NoneFrom(Kept[Cur], Server)
  <2> DEFINE s == held[Cur]
             r == Reverse(s)
  <2>1. s \in Seq(Envelope) /\ NoneFrom(s, Server)
    BY <1>3, <1>6 DEF Fit
  <2>2. Kept[Cur] = r
    BY <1>3 DEF Kept
  <2> HIDE DEF s
  <2>3. /\ r \in Seq(Envelope) /\ Len(r) = Len(s) /\ Len(s) \in Nat
        /\ \A i \in 1..Len(s) : r[i] = s[Len(s) - i + 1]
    BY <2>1, ReverseIs
  <2> HIDE DEF r
  <2>4. \A i \in 1..Len(s) : Len(s) - i + 1 \in 1..Len(s)
    BY <2>3
  <2>5. NoneFrom(r, Server)
    BY <2>1, <2>3, <2>4 DEF NoneFrom
  <2> QED BY <2>2, <2>3, <2>5
<1>10. Roles' /\ Aside' /\ Counted'
  <2>1. Fit(Cur, "work", <<>>, got[Cur], count[Cur])
    <3>1. <<>> \in Seq(Envelope)
      OBVIOUS
    <3>2. NoneFrom(<<>>, Server)
      BY DEF NoneFrom
    <3> QED BY <1>1, <1>3, <1>4, <1>6, <3>1, <3>2 DEF Fit
  <2>2. \A t \in Thread : links'[t] = NoThread
    BY <1>6, <1>8
  <2> QED BY <1>1, <1>3, <1>5, <1>6, <1>8, <2>1, <2>2, StepKeeps
<1>11. Line' = Line /\ Serving'
  <2>1. slot \in [Thread -> {"none", "inbox", "cont"}]
    BY DEF Inv, TypeOK
  <2>2. /\ pc'[Server] = pc[Server] /\ held'[Server] = held[Server]
        /\ Boxes'[Server] = Boxes[Server] /\ slot'[Server] = slot[Server]
        /\ GivenOf(todo', done', Server) = GivenOf(todo, done, Server)
    BY <1>1, <1>4, <1>5, <1>6, <1>8, <2>1
  <2> QED BY <2>2, ServingSame
<1>12. ASSUME NEW c \in Client PROVE Flow(c, Boxes'[c], Line', got'[c], count'[c])
  <2>1. Flow(c, Boxes[c], Line, got[c], count[c])
    BY DEF Protocol, Flows
  <2>2. CASE c = Cur
    <3>1. Boxes'[c] = Boxes[c] \o Kept[Cur] /\ Boxes[c] \in Seq(Envelope)
      BY <1>3, <1>4, <1>8, <2>2
    <3>2. got[c] \in Nat /\ count[c] \in Nat
      BY <1>3, <1>6, <2>2
    <3>3. Flow(c, Boxes[c] \o Kept[Cur], Line, got[c], count[c])
      BY <1>9, <2>1, <3>1, <3>2, FlowSpam
    <3> QED BY <1>1, <1>11, <3>1, <3>3
  <2>3. CASE c # Cur
    <3>1. Boxes'[c] = Boxes[c]
      BY <1>4, <1>8, <2>3
    <3> QED BY <1>1, <1>11, <2>1, <3>1
  <2> QED BY <2>2, <2>3
<1>13. Flows'
  BY <1>12 DEF Flows
<1> QED BY <1>7, <1>10, <1>11, <1>13 DEF Protocol

\* The server takes the request that it was given.
LEMMA TakeRequestKeeps ==
    ASSUME Inv, Inv', Protocol, TakeRequest, UNCHANGED <<forks, sent, cast>>
    PROVE  Protocol'
<1>1. /\ todo # <<>> /\ pc[Cur] = "answer" /\ Consume
      /\ held' = [held EXCEPT ![Cur] = Head(todo).given]
      /\ UNCHANGED <<pc, left, count, got, rounds, bank, slot>>
  BY DEF TakeRequest, At, Consume, protocolVars
<1>2. Cur \in Thread /\ Cur = Server /\ slot[Server] # "cont"
  BY <1>1, Running
<1>3. /\ Client \subseteq Thread /\ Server \notin Client
      /\ Boxes \in [Thread -> Seq(Envelope)] /\ held \in [Thread -> Seq(Envelope)]
      /\ Noise \cap Client = {} /\ Server \notin Threads
  BY Known
<1>4. /\ pc \in [Thread -> Points]
      /\ Fit(Cur, pc[Cur], held[Cur], got[Cur], count[Cur])
      /\ got' = [got EXCEPT ![Cur] = got[Cur]]
      /\ count' = [count EXCEPT ![Cur] = count[Cur]]
      /\ \A t \in Thread : links[t] = NoThread
  BY <1>1, <1>2, Before
<1>5. /\ UNCHANGED <<Live, links>>
      /\ Boxes[Cur] # <<>> /\ Boxes' = [Boxes EXCEPT ![Cur] = Tail(@)]
      /\ Head(Boxes[Cur]) \in Envelope
      /\ Head(todo).given = <<Head(Boxes[Cur])>>
      /\ GivenOf(todo, done, Cur) = Head(todo).given
      /\ GivenOf(todo', done', Cur) = <<>>
  BY <1>1, ConsumeBoxes
<1>6. Typed'
  BY <1>1 DEF Protocol, Typed
<1> DEFINE b == Boxes[Server]
           e == Head(b)
<1>7. b \in Seq(Envelope) /\ b # <<>> /\ e \in Envelope /\ held'[Server] = <<e>>
  BY <1>1, <1>2, <1>3, <1>5
<1>8. held[Server] = <<>>
  <2>1. Asked # <<>>
    BY <1>2, <1>5 DEF Asked
  <2> QED BY <2>1 DEF Protocol, Serving
<1>9. Boxes'[Server] = Tail(b)
  BY <1>2, <1>3, <1>5
<1>10. Line' = Line
  <2>1. Line' = <<e>> \o Tail(b) /\ Line = <<>> \o b
    BY <1>7, <1>8, <1>9 DEF Line
  <2> HIDE DEF b, e
  <2>2. <<e>> \o Tail(b) = <<>> \o b
    BY <1>7 DEF e
  <2> QED BY <2>1, <2>2
<1> HIDE DEF b, e
<1>11. Roles' /\ Aside' /\ Counted'
  <2>1. pc' = [pc EXCEPT ![Cur] = "answer"] /\ held' = [held EXCEPT ![Cur] = <<e>>]
    BY <1>1, <1>2, <1>4, <1>5 DEF b, e
  <2>2. <<e>> \in Seq(Envelope)
    BY <1>7
  <2>3. Fit(Cur, "answer", <<e>>, got[Cur], count[Cur])
    BY <1>1, <1>2, <1>3, <1>4, <2>2 DEF Fit, Threads, Poller
  <2>4. \A t \in Thread : links'[t] = NoThread
    BY <1>4, <1>5
  <2> QED BY <1>2, <1>4, <1>5, <2>1, <2>3, <2>4, StepKeeps
<1>12. Serving'
  <2>1. held'[Server] \in Given /\ held'[Server] # <<>>
    BY <1>7 DEF Given
  <2>2. Asked' = <<>>
    BY <1>2, <1>5, AskedNext
  <2>3. pc'[Server] = "answer" /\ slot'[Server] # "cont"
    BY <1>1, <1>2
  <2> QED BY <1>10, <2>1, <2>2, <2>3 DEF Protocol, Serving
<1>13. \A c \in Client : Boxes'[c] = Boxes[c]
  BY <1>2, <1>3, <1>5
<1>14. Flows'
  BY <1>1, <1>10, <1>13 DEF Protocol, Flows
<1> QED BY <1>6, <1>11, <1>12, <1>14 DEF Protocol

\* The server answers.
LEMMA AnswerKeeps ==
    ASSUME Inv, Inv', Protocol, Answer, UNCHANGED <<forks, sent, cast>>
    PROVE  Protocol'
<1>1. /\ At("answer") /\ Ready /\ pc[Cur] = "answer"
      /\ Mail(held[Cur][1].from, held[Cur][1].msg)
      /\ held' = [held EXCEPT ![Cur] = <<>>]
      /\ UNCHANGED <<count, got>>
  BY DEF Answer, At
<1>2. PICK cost \in Nat : Calls("receive", cost)
  BY Known DEF Answer
<1>3. PICK e \in Envelope : held[Server] = <<e>> /\ e.from \in Client /\ held[Server][1] = e
  BY <1>1, InHand
<1>4. Cur = Server /\ Cur \in Thread
  BY <1>1, InHand, Known
<1>5. /\ Client \subseteq Thread /\ Server \notin Client
      /\ Boxes \in [Thread -> Seq(Envelope)] /\ held \in [Thread -> Seq(Envelope)]
      /\ Noise \cap Client = {} /\ Server \notin Threads /\ Line \in Seq(Envelope)
  BY Known
<1>6. /\ pc' = [pc EXCEPT ![Cur] = "receive"] /\ pc' \in [Thread -> Points]
      /\ left' \in [Thread -> Nat] /\ bank' \in Nat /\ (bank' = 0 \/ bank' > Reserve)
  BY <1>2, <1>4, CallsTyped DEF Points
<1>7. /\ pc \in [Thread -> Points] /\ got \in [Thread -> Nat] /\ count \in [Thread -> Nat]
      /\ Fit(Cur, pc[Cur], held[Cur], got[Cur], count[Cur])
      /\ got' = [got EXCEPT ![Cur] = got[Cur]]
      /\ count' = [count EXCEPT ![Cur] = count[Cur]]
      /\ \A t \in Thread : links[t] = NoThread
  BY <1>1, <1>4, Before
<1>8. Typed'
  BY <1>1, <1>6 DEF Protocol, Typed
<1> DEFINE env == [from |-> Cur, msg |-> e.msg]
<1>9. /\ e.from \in Thread /\ e.msg \in 0..MaxMail /\ e.from # Server /\ Mail(e.from, e.msg)
  BY <1>1, <1>3, <1>4, <1>5 DEF Envelope
<1>10. /\ env \in Envelope
       /\ UNCHANGED <<Live, links>>
       /\ \A t \in Thread \ {e.from} :
            /\ Boxes'[t] = Boxes[t] /\ slot'[t] = slot[t]
            /\ GivenOf(todo', done', t) = GivenOf(todo, done, t)
       /\ Boxes'[e.from] = Boxes[e.from] \/ Boxes'[e.from] = Append(Boxes[e.from], env)
  BY <1>9, MailEffect
<1>11. env.from = Server /\ env.msg = e.msg
  BY <1>4
<1> HIDE DEF env
<1>12. Roles' /\ Aside' /\ Counted'
  <2>1. <<>> \in Seq(Envelope)
    OBVIOUS
  <2>2. Fit(Cur, "receive", <<>>, got[Cur], count[Cur])
    BY <1>4, <1>5, <1>7, <2>1 DEF Fit, Threads, Poller
  <2>3. \A t \in Thread : links'[t] = NoThread
    BY <1>7, <1>10
  <2> QED BY <1>1, <1>4, <1>6, <1>7, <1>10, <2>2, <2>3, StepKeeps
<1>13. /\ Boxes'[Server] = Boxes[Server] /\ Boxes[Server] \in Seq(Envelope)
       /\ held'[Server] = <<>> /\ slot'[Server] = slot[Server] /\ Asked' = Asked
       /\ pc'[Server] = "receive"
  BY <1>1, <1>4, <1>5, <1>6, <1>7, <1>9, <1>10, AskedNext DEF Asked
<1>14. Line # <<>> /\ Head(Line) = e /\ Line' = Tail(Line)
  <2> DEFINE b == Boxes[Server]
  <2>1. Line = <<e>> \o b /\ Line' = <<>> \o b
    BY <1>3, <1>13 DEF Line
  <2>2. b \in Seq(Envelope)
    BY <1>13
  <2> HIDE DEF b
  <2>3. /\ <<e>> \o b # <<>> /\ Head(<<e>> \o b) = e
        /\ Tail(<<e>> \o b) = b /\ <<>> \o b = b
    <3>1. <<>> \in Seq(Envelope)
      OBVIOUS
    <3> QED BY <2>2, <3>1, SeqFacts
  <2> QED BY <2>1, <2>3
<1>15. Serving'
  <2>1. \A i \in 1..Len(Line') : Line'[i].from \in Client
    <3>1. \A i \in 1..Len(Line) : Line[i].from \in Client
      BY DEF Protocol, Serving
    <3>2. \A i \in 1..Len(Tail(Line)) : i + 1 \in 1..Len(Line) /\ Tail(Line)[i] = Line[i + 1]
      BY <1>5, <1>14
    <3> QED BY <1>14, <3>1, <3>2
  <2>2. <<>> \in Given
    BY DEF Given
  <2> QED BY <1>13, <2>1, <2>2 DEF Serving
<1>16. ASSUME NEW c \in Client PROVE Flow(c, Boxes'[c], Line', got'[c], count'[c])
  <2>1. Flow(c, Boxes[c], Line, got[c], count[c])
    BY DEF Protocol, Flows
  <2>2. /\ Boxes[c] \in Seq(Envelope) /\ got[c] \in Nat /\ count[c] \in Nat
    BY <1>5, <1>7
  <2>3. /\ Flow(c, Boxes[c], Tail(Line), got[c], count[c])
        /\ Head(Line).from = c /\ env.msg = Head(Line).msg
             => Flow(c, Append(Boxes[c], env), Tail(Line), got[c], count[c])
    BY <1>5, <1>10, <1>11, <1>14, <2>1, <2>2, FlowAnswer
  <2>4. CASE c = e.from
    BY <1>1, <1>10, <1>11, <1>14, <2>3, <2>4
  <2>5. CASE c # e.from
    <3>1. Boxes'[c] = Boxes[c]
      BY <1>5, <1>10, <2>5
    <3> QED BY <1>1, <1>14, <2>3, <3>1
  <2> QED BY <2>4, <2>5
<1>17. Flows'
  BY <1>16 DEF Flows
<1> QED BY <1>8, <1>12, <1>15, <1>17 DEF Protocol

\* A thread mails a client something it did not ask for.
LEMMA DisturbKeeps ==
    ASSUME Inv, Inv', Protocol, NEW to \in Client, Disturb(to), UNCHANGED <<forks, sent, cast>>
    PROVE  Protocol'
<1> DEFINE n == count[Cur]
           env == [from |-> Cur, msg |-> n + 1]
<1>1. /\ todo # <<>> /\ pc[Cur] = "work" /\ Cur \in Noise /\ n < MaxAsk
      /\ Mail(to, n + 1)
      /\ count' = [count EXCEPT ![Cur] = n + 1]
      /\ UNCHANGED <<got, held>>
  BY DEF Disturb, At
<1>2. PICK cost \in Nat : Calls("work", cost)
  BY Known DEF Disturb
<1>3. /\ Server \in Thread /\ Client \subseteq Thread /\ Noise \subseteq Thread
      /\ Server \notin Client /\ Server \notin Threads /\ Noise \cap Client = {}
      /\ Spinner \cap (Client \cup Noise) = {}
      /\ Boxes \in [Thread -> Seq(Envelope)] /\ Line \in Seq(Envelope)
  BY Known
<1>4. Cur \in Thread /\ Cur # Server /\ Cur \notin Client /\ to \in Thread /\ to # Server
  BY <1>1, <1>3 DEF Threads
<1>5. /\ pc' = [pc EXCEPT ![Cur] = "work"] /\ pc' \in [Thread -> Points]
      /\ left' \in [Thread -> Nat] /\ bank' \in Nat /\ (bank' = 0 \/ bank' > Reserve)
  BY <1>2, <1>4, CallsTyped DEF Points
<1>6. n \in Nat /\ n + 1 \in 0..MaxMail
  BY <1>1, <1>4, AskNumber
<1>7. /\ pc \in [Thread -> Points] /\ got \in [Thread -> Nat] /\ count \in [Thread -> Nat]
      /\ Fit(Cur, pc[Cur], held[Cur], got[Cur], n)
      /\ got' = [got EXCEPT ![Cur] = got[Cur]]
      /\ held' = [held EXCEPT ![Cur] = held[Cur]]
      /\ \A t \in Thread : links[t] = NoThread
  BY <1>1, <1>4, Before
<1>8. Typed'
  BY <1>1, <1>5, <1>6, <1>7 DEF Protocol, Typed
<1>9. /\ env \in Envelope
      /\ UNCHANGED <<Live, links>>
      /\ \A t \in Thread \ {to} :
           /\ Boxes'[t] = Boxes[t] /\ slot'[t] = slot[t]
           /\ GivenOf(todo', done', t) = GivenOf(todo, done, t)
      /\ Boxes'[to] = Boxes[to] \/ Boxes'[to] = Append(Boxes[to], env)
  BY <1>1, <1>4, <1>6, MailEffect
<1>10. env.from = Cur
  OBVIOUS
<1> HIDE DEF env
<1>11. Roles' /\ Aside' /\ Counted'
  <2>1. Fit(Cur, "work", held[Cur], got[Cur], n + 1)
    BY <1>1, <1>3, <1>4, <1>7 DEF Fit, Poller
  <2>2. \A t \in Thread : links'[t] = NoThread
    BY <1>7, <1>9
  <2> QED BY <1>1, <1>4, <1>5, <1>7, <1>9, <2>1, <2>2, StepKeeps
<1>12. Line' = Line /\ Serving'
  <2>1. /\ pc'[Server] = pc[Server] /\ held'[Server] = held[Server]
        /\ Boxes'[Server] = Boxes[Server] /\ slot'[Server] = slot[Server]
        /\ GivenOf(todo', done', Server) = GivenOf(todo, done, Server)
    BY <1>1, <1>3, <1>4, <1>5, <1>7, <1>9
  <2> QED BY <2>1, ServingSame
<1>13. ASSUME NEW c \in Client PROVE Flow(c, Boxes'[c], Line', got'[c], count'[c])
  <2>1. Flow(c, Boxes[c], Line, got[c], count[c])
    BY DEF Protocol, Flows
  <2>2. /\ got'[c] = got[c] /\ count'[c] = count[c] /\ c \in Thread
        /\ got[c] \in Nat /\ count[c] \in Nat /\ Boxes[c] \in Seq(Envelope)
    BY <1>1, <1>3, <1>4, <1>7
  <2>3. Boxes'[c] = Boxes[c] \/ Boxes'[c] = Append(Boxes[c], env)
    BY <1>9, <2>2
  <2>4. Append(Boxes[c], env) = Boxes[c] \o <<env>>
    <3>1. <<>> \in Seq(Envelope) /\ env \in Envelope
      BY <1>9
    <3> QED BY <2>2, <3>1, SeqFacts
  <2>5. <<env>> \in Seq(Envelope) /\ NoneFrom(<<env>>, Server)
    <3>1. Len(<<env>>) = 1 /\ <<env>>[1] = env /\ <<env>> \in Seq(Envelope)
      BY <1>9
    <3>2. NoneFrom(<<env>>, Server)
      BY <1>4, <1>10, <3>1 DEF NoneFrom
    <3> QED BY <3>1, <3>2
  <2>6. Flow(c, Boxes[c] \o <<env>>, Line, got[c], count[c])
    BY <2>1, <2>2, <2>5, FlowSpam
  <2> QED BY <1>12, <2>1, <2>2, <2>3, <2>4, <2>6
<1>14. Flows'
  BY <1>13 DEF Flows
<1> QED BY <1>8, <1>11, <1>12, <1>14 DEF Protocol

LEMMA InitProtocol == ASSUME InteropInit PROVE Protocol
<1>1. /\ Inv /\ Runnable = Threads /\ Waiting = {Server}
      /\ \A t \in Thread : GivenOf(todo, done, t) = <<>>
      /\ Threads \cup {Server} \subseteq Thread
  BY FirstInv
<1>2. cast \in Casts
  BY DEF InteropInit
<1>3. /\ Server \in Thread /\ Client \subseteq Thread /\ Noise \subseteq Thread
      /\ Spinner \subseteq Thread /\ Server \notin Threads
  BY <1>1, <1>2, Cast DEF Threads
<1>4. /\ \A t \in Thread : pc[t] = IF t = Server THEN "answer" ELSE "work"
      /\ \A t \in Thread : held[t] = <<>> /\ inbox[t] = <<>> /\ links[t] = NoThread
      /\ \A t \in Thread : got[t] = 0 /\ count[t] = 0
  BY DEF InteropInit
<1>5. Typed
  <2>1. pc \in [Thread -> Points]
    BY DEF InteropInit, Points
  <2>2. left \in [Thread -> Nat]
    BY InteropAssumption DEF InteropInit
  <2>3. count \in [Thread -> Nat] /\ got \in [Thread -> Nat] /\ bank \in Nat /\ bank = 0
    BY DEF InteropInit
  <2> QED BY <1>2, <2>1, <2>2, <2>3 DEF Typed
<1>6. Roles
  <2>1. Live = Threads \cup {Server}
    BY <1>1 DEF Live
  <2>2. \A t \in Client \cup Noise \cup Spinner : pc[t] = "work"
    BY <1>3, <1>4 DEF Threads
  <2> QED BY <1>3, <1>4, <2>1, <2>2 DEF Roles
<1>7. Aside
  <2>1. NoneFrom(<<>>, Server)
    BY DEF NoneFrom
  <2> QED BY <1>3, <1>4, <2>1 DEF Aside
<1>8. \A t \in Thread : Boxes[t] = <<>>
  <2>1. ASSUME NEW t \in Thread PROVE Boxes[t] = <<>> \o <<>>
    BY <1>1, <1>4, BoxesAre
  <2> QED BY <2>1
<1>9. Line = <<>>
  <2>1. Line = <<>> \o <<>>
    BY <1>3, <1>4, <1>8 DEF Line
  <2> QED BY <2>1
<1>10. Serving
  <2>1. <<>> \in Given
    BY DEF Given
  <2>2. slot[Server] = "cont"
    BY <1>3 DEF InteropInit
  <2> QED BY <1>3, <1>4, <1>9, <2>1, <2>2 DEF Serving
<1>11. Counted
  <2>1. \A c \in Client : pc[c] = "work" /\ got[c] = count[c]
    BY <1>3, <1>4 DEF Threads
  <2> QED BY <2>1 DEF Counted
<1>12. Flows
  <2>1. ASSUME NEW c \in Client PROVE Flow(c, <<>>, <<>>, 0, 0)
    <3>1. 0 \in 0..0
      OBVIOUS
    <3> QED BY <3>1, RisingNone DEF Flow
  <2> QED BY <1>3, <1>4, <1>8, <1>9, <2>1 DEF Flows
<1> QED BY <1>5, <1>6, <1>7, <1>10, <1>11, <1>12 DEF Protocol

LEMMA StepProtocol == ASSUME Inv, Inv', Protocol, InteropNext PROVE Protocol'
<1>1. UNCHANGED <<forks, sent, cast>>
  BY DEF InteropNext
<1>2. CASE (OutOfTicks \/ Scheduler) /\ UNCHANGED held
  BY <1>1, <1>2, ScheduleKeeps
<1>3. CASE Ask
  BY <1>1, <1>3, AskKeeps
<1>4. CASE AcceptWait \/ Poll
  BY <1>1, <1>4, WaitKeeps
<1>5. CASE Look
  BY <1>1, <1>5, LookKeeps
<1>6. CASE Return
  BY <1>1, <1>6, ReturnKeeps
<1>7. CASE ClientEnds
  BY <1>1, <1>7, ClientEndsKeeps
<1>8. CASE Receive
  BY <1>1, <1>8, ReceiveKeeps
<1>9. CASE TakeRequest
  BY <1>1, <1>9, TakeRequestKeeps
<1>10. CASE Answer
  BY <1>1, <1>10, AnswerKeeps
<1>11. ASSUME NEW c \in Client, Disturb(c) PROVE Protocol'
  BY <1>1, <1>11, DisturbKeeps
<1>12. CASE Spin
  BY <1>1, <1>12, SpinKeeps
<1> QED
  BY <1>2, <1>3, <1>4, <1>5, <1>6, <1>7, <1>8, <1>9, <1>10, <1>11, <1>12 DEF InteropNext

LEMMA StutterProtocol ==
    ASSUME Inv, Protocol, UNCHANGED allVars
    PROVE  Inv' /\ Protocol'
<1>1. /\ UNCHANGED <<todo, done, slot, inbox, links, retval, halted, held, forks, sent>>
      /\ UNCHANGED <<pc, left, count, got, rounds, bank, cast>>
  BY DEF allVars, vars, protocolVars
<1>2. Inv'
  BY <1>1 DEF Inv, TypeOK, RunsOnce, NothingOutlives, Waiting, Runnable, Live
<1>3. UNCHANGED <<Live, Asked, Boxes>>
  BY <1>1, BoxesAre, AskedNext DEF Live, Runnable, Waiting, Asked
<1>4. Line' = Line
  BY <1>1, <1>3 DEF Line
<1>5. UNCHANGED <<Threads, Noise, Spinner, Poller>>
  BY <1>1 DEF Threads, Noise, Spinner, Poller
<1>6. Typed' /\ Roles'
  BY <1>1, <1>3, <1>5 DEF Protocol, Typed, Roles
<1>7. Aside' /\ Serving'
  BY <1>1, <1>3, <1>4, <1>5 DEF Protocol, Aside, Serving
<1>8. Counted' /\ Flows'
  BY <1>1, <1>3, <1>4, <1>5 DEF Protocol, Counted, Flows
<1> QED BY <1>2, <1>6, <1>7, <1>8 DEF Protocol

\* The invariant of the controller and that of the programs on it.
LEMMA Invariants == InteropSpec => [](Inv /\ Protocol)
<1>1. InteropInit => Inv /\ Protocol
  BY FirstInv, InitProtocol
<1>2. Inv /\ Protocol /\ [InteropNext]_allVars => Inv' /\ Protocol'
  BY TurnInv, StepProtocol, StutterProtocol
<1> QED BY <1>1, <1>2, PTL DEF InteropSpec

------------------------------------------------------------------------------
(* What a caller of interact can rely on.                                  *)

\* What interact returns is the answer to the request it was called with, and
\* not an earlier answer or something another thread has mailed.
THEOREM InteractReturnsItsAnswer == InteropSpec => []AnswerMatches
<1>1. Inv /\ Protocol => AnswerMatches
  BY DEF Protocol, Counted, AnswerMatches
<1> QED BY <1>1, Invariants, PTL

\* When interact has returned, nothing is set aside and no answer of the
\* server is left for the next interact to take for its own.
THEOREM InteractLeavesNothing == InteropSpec => []NoStaleAnswer
<1>1. ASSUME Inv, Protocol, NEW t \in Client \ Poller, pc[t] = "work"
      PROVE  /\ held[t] = <<>>
             /\ \A i \in 1..Len(inbox[t]) : inbox[t][i].from # Server
  <2>1. held[t] = <<>>
    BY <1>1 DEF Protocol, Aside
  <2>2. t \in Thread /\ Server \in Thread
    BY <1>1, Known
  <2>3. got[t] = count[t] /\ got[t] \in Nat
    BY <1>1, <2>2 DEF Protocol, Counted, Typed
  <2>4. PICK m \in got[t]..count[t] : Rising(Boxes[t], Server, got[t], m)
    BY <1>1 DEF Protocol, Flows, Flow
  <2>5. m = got[t]
    BY <2>3, <2>4
  <2> DEFINE b == Boxes[t]
             a == GivenOf(todo, done, t)
             q == inbox[t]
  <2>6. b \in Seq(Envelope) /\ q \in Seq(Envelope) /\ b = a \o q
    BY <1>1, <2>2, Known, BoxesAre DEF Inv, TypeOK
  <2>7. a \in Seq(Envelope)
    BY <1>1, InvProper, GivenOfType, GivenType
  <2>8. NoneFrom(b, Server)
    <3>1. \A i \in 1..Len(b) : b[i].msg \in Nat
      BY <2>6, MessageType
    <3> QED BY <2>3, <2>4, <2>5, <3>1 DEF Rising, NoneFrom
  <2> HIDE DEF a, b, q
  <2>9. \A i \in 1..Len(q) : Len(a) + i \in 1..Len(b) /\ b[Len(a) + i] = q[i]
    BY <2>6, <2>7
  <2>10. \A i \in 1..Len(q) : q[i].from # Server
    BY <2>8, <2>9 DEF NoneFrom
  <2> QED BY <2>1, <2>10 DEF q
<1>2. Inv /\ Protocol => NoStaleAnswer
  BY <1>1 DEF NoStaleAnswer
<1> QED BY <1>2, Invariants, PTL

\* No answer is accepted twice, whatever a client that polls has given up on:
\* the answer that a client accepts has a greater number than any it accepted
\* before.
THEOREM AnswersAcceptedOnce == InteropSpec => AcceptedOnce
<1>1. ASSUME Inv, Inv', Protocol, [InteropNext]_allVars, NEW t \in Client,
             pc[t] = "look", pc'[t] = "return"
      PROVE  got'[t] > got[t]
  <2>1. InteropNext
    BY <1>1 DEF allVars, protocolVars
  <2>2. UNCHANGED <<forks, sent, cast>>
    BY <2>1 DEF InteropNext
  <2>3. t \in Thread /\ pc \in [Thread -> Points]
    BY <1>1, Known DEF Protocol, Typed
  <2>4. CASE Look
    <3>1. /\ pc'[Cur] = "return" => got'[Cur] > got[Cur]
          /\ pc' = [pc EXCEPT ![Cur] = pc'[Cur]]
      BY <1>1, <2>2, <2>4, LookKeeps
    <3>2. t = Cur
      BY <1>1, <2>3, <3>1
    <3> QED BY <1>1, <3>1, <3>2
  <2>5. CASE AcceptWait \/ Poll
    <3>1. todo # <<>> /\ pc[Cur] = "wait"
      BY <2>5 DEF AcceptWait, Poll, At
    <3>2. PICK p \in {"look", "wait", "return"} : pc' = [pc EXCEPT ![Cur] = p]
      BY <2>5 DEF AcceptWait, Poll, Calls
    <3> QED BY <1>1, <2>3, <3>1, <3>2
  <2>6. ASSUME NEW p, p # "return", pc' = [pc EXCEPT ![Cur] = p] PROVE FALSE
    BY <1>1, <2>3, <2>6
  <2>7. CASE (OutOfTicks \/ Scheduler) /\ UNCHANGED held
    BY <1>1, <2>7 DEF OutOfTicks, Scheduler, protocolVars
  <2>8. CASE Ask
    BY <2>6, <2>8 DEF Ask, Calls
  <2>9. CASE Return
    BY <2>6, <2>9 DEF Return, Calls
  <2>10. CASE ClientEnds
    BY <2>6, <2>10 DEF ClientEnds, Ends
  <2>11. CASE Receive
    BY <2>6, <2>11 DEF Receive, Calls
  <2>12. CASE TakeRequest
    BY <1>1, <2>12 DEF TakeRequest, protocolVars
  <2>13. CASE Answer
    BY <2>6, <2>13 DEF Answer, Calls
  <2>14. ASSUME NEW c \in Client, Disturb(c) PROVE FALSE
    BY <2>6, <2>14 DEF Disturb, Calls
  <2>15. CASE Spin
    BY <2>6, <2>15 DEF Spin, Calls
  <2> QED
    BY <2>1, <2>4, <2>5, <2>7, <2>8, <2>9, <2>10, <2>11, <2>12, <2>13, <2>14, <2>15
    DEF InteropNext
<1>2. Inv /\ Inv' /\ Protocol /\ [InteropNext]_allVars
        => [\A t \in Client : pc[t] = "look" /\ pc'[t] = "return" => got'[t] > got[t]]_allVars
  BY <1>1
<1> QED BY <1>2, Invariants, PTL DEF InteropSpec, AcceptedOnce

------------------------------------------------------------------------------
(* A client is not cut off between its mail and the moment it waits.       *)

\* A client without a mailbox that is to look for its answer is the one that
\* runs, and its ticks are no more than what every thread is started with.
Cuts ==
    /\ \A t \in Late : pc[t] # "ended" => slot[t] # "none"
    /\ \A t \in Client : pc[t] = "look" => slot[t] # "none"
    /\ \A t \in Client \ Poller : pc[t] = "wait" /\ slot[t] = "none" =>
          todo # <<>> /\ Cur = t /\ left[t] <= Reserve + 1

\* The least number of ticks that a thread is started with.
LEMMA LeastQuantum ==
    ASSUME Inv, Protocol
    PROVE  Quantum \in Nat /\ Reserve + 1 <= Quantum
<1>1. Reserve \in Nat /\ Ticks \in Nat /\ Reserve < Ticks
  BY Known
<1> QED BY <1>1 DEF Quantum, Protocol, Typed

\* A turn of a client makes the invariant true again for itself, and the
\* others keep their places and their mailboxes.
LEMMA TurnCuts ==
    ASSUME Inv, Protocol, Cuts, cast' = cast, todo # <<>>,
           NEW p, pc' = [pc EXCEPT ![Cur] = p],
           \A t \in Thread \ {Cur} : slot'[t] = "none" => slot[t] = "none",
           Cur \in Late /\ p # "ended" => slot'[Cur] # "none",
           Cur \in Client /\ p = "look" => slot'[Cur] # "none",
           Cur \in Client \ Poller /\ p = "wait" /\ slot'[Cur] = "none" =>
              todo' # <<>> /\ Cur' = Cur /\ left'[Cur] <= Reserve + 1
    PROVE  Cuts'
<1>1. /\ Client \subseteq Thread /\ Late \subseteq Client /\ Poller' = Poller
      /\ pc \in [Thread -> Points]
  BY Known, InteropAssumption DEF Poller, Protocol, Typed
<1>2. /\ \A t \in Thread \ {Cur} : pc'[t] = pc[t]
      /\ Cur \in Thread => pc'[Cur] = p
  BY <1>1
<1>3. \A t \in Late : pc'[t] # "ended" => slot'[t] # "none"
  BY <1>1, <1>2 DEF Cuts
<1>4. \A t \in Client : pc'[t] = "look" => slot'[t] # "none"
  BY <1>1, <1>2 DEF Cuts
<1>5. ASSUME NEW t \in Client \ Poller, pc'[t] = "wait", slot'[t] = "none"
      PROVE  todo' # <<>> /\ Cur' = t /\ left'[t] <= Reserve + 1
  <2>1. CASE t = Cur
    BY <1>1, <1>2, <1>5, <2>1
  <2>2. CASE t # Cur
    BY <1>1, <1>2, <1>5, <2>2 DEF Cuts
  <2> QED BY <2>1, <2>2
<1> QED BY <1>1, <1>3, <1>4, <1>5 DEF Cuts

LEMMA InitCuts == ASSUME InteropInit PROVE Cuts
<1>1. \A t \in Client : t \in Thread /\ t # Server
  BY InteropAssumption DEF InteropInit
<1>2. \A t \in Client : pc[t] = "work"
  BY <1>1 DEF InteropInit
<1>3. \A t \in Late : slot[t] # "none"
  BY <1>1, InteropAssumption DEF InteropInit
<1> QED BY <1>2, <1>3 DEF Cuts

LEMMA StepCuts ==
    ASSUME Inv, Protocol, Cuts, InteropNext, AskCost <= Reserve + 1
    PROVE  Cuts'
<1>1. /\ cast' = cast
      /\ slot \in [Thread -> {"none", "inbox", "cont"}] /\ pc \in [Thread -> Points]
  BY DEF InteropNext, Inv, TypeOK, Protocol, Typed
<1>2. /\ Client \subseteq Thread /\ Late \subseteq Client /\ Poller' = Poller
      /\ Server \in Thread /\ Server \notin Client /\ Main \in Thread
      /\ Noise \cap Client = {} /\ Spinner \cap (Client \cup Noise) = {}
  BY <1>1, Known, InteropAssumption DEF Poller
<1>3. CASE (OutOfTicks \/ Scheduler) /\ UNCHANGED held
  <2>1. pc' = pc /\ slot' = slot
    BY <1>3 DEF OutOfTicks, Scheduler, TimeSlice, NewRound, HaltThreadController, protocolVars
  <2>2. ASSUME NEW t \in Client \ Poller, pc[t] = "wait", slot[t] = "none" PROVE FALSE
    <3>1. todo # <<>> /\ Cur = t /\ left[t] <= Reserve + 1
      BY <2>2 DEF Cuts
    <3>2. OutOfTicks
      BY <1>3, <3>1 DEF Scheduler, NewRound, HaltThreadController
    <3>3. left[Cur] > Quantum /\ left[Cur] \in Nat
      BY <1>2, <3>1, <3>2 DEF OutOfTicks, Protocol, Typed
    <3>4. Reserve \in Nat
      BY Known
    <3> QED BY <3>1, <3>3, <3>4, LeastQuantum
  <2> QED BY <1>2, <2>1, <2>2 DEF Cuts
<1>4. CASE Ask
  <2>1. /\ todo # <<>> /\ Cur \in Client /\ Mail(Server, count[Cur] + 1)
        /\ pc[Cur] = "work"
    BY <1>4 DEF Ask, At
  <2>2. PICK cost \in IF Cur \in Late THEN UserCost ELSE {AskCost} : Calls("wait", cost)
    BY <1>4 DEF Ask
  <2>3. /\ pc' = [pc EXCEPT ![Cur] = "wait"] /\ left' = [left EXCEPT ![Cur] = cost]
    BY <2>2 DEF Calls
  <2>4. /\ \A t \in Thread : slot'[t] = "none" => slot[t] = "none"
        /\ todo' # <<>> /\ Cur' = Cur
    BY <1>2, <2>1, MailSlots
  <2>5. Cur \in Late => slot'[Cur] # "none"
    BY <1>2, <2>1, <2>4 DEF Cuts
  <2>6. slot'[Cur] = "none" => left'[Cur] <= Reserve + 1
    <3>1. left'[Cur] = cost
      BY <1>2, <2>1, <2>3 DEF Protocol, Typed
    <3> QED BY <2>2, <2>5, <3>1
  <2> QED BY <1>1, <2>1, <2>3, <2>4, <2>5, <2>6, TurnCuts
<1>5. CASE AcceptWait \/ Poll
  <2>1. todo # <<>> /\ pc[Cur] = "wait" /\ (TakeMail \/ WaitMail \/ NoMail)
    BY <1>5 DEF AcceptWait, Poll, At
  <2>2. Cur \in Thread
    BY <2>1, Running
  <2>3. PICK p \in {"look", "wait", "return"} :
          /\ pc' = [pc EXCEPT ![Cur] = p]
          /\ p = "look" => TakeMail \/ WaitMail
          /\ p = "wait" => Cur \in Poller
    BY <1>5 DEF AcceptWait, Poll, Calls
  <2>4. TakeMail => slot' = slot /\ slot[Cur] # "none"
    BY <2>2 DEF TakeMail, Inv, NothingOutlives
  <2>5. WaitMail => slot' = [slot EXCEPT ![Cur] = "cont"]
    BY DEF WaitMail
  <2>6. NoMail => slot' = slot
    BY DEF NoMail
  <2>7. /\ \A t \in Thread \ {Cur} : slot'[t] = slot[t]
        /\ slot'[Cur] = "none" => slot[Cur] = "none" /\ p # "look"
    BY <1>1, <2>1, <2>2, <2>3, <2>4, <2>5, <2>6
  <2>8. Cur \in Late => slot'[Cur] # "none"
    BY <2>1, <2>7 DEF Cuts
  <2> QED BY <1>1, <2>1, <2>3, <2>7, <2>8, TurnCuts
<1>6. CASE Look
  <2>1. todo # <<>> /\ pc[Cur] = "look" /\ Cur \in Client /\ slot' = slot
    BY <1>6 DEF Look, At, Consume
  <2>2. PICK p \in {"wait", "return"} : pc' = [pc EXCEPT ![Cur] = p]
    BY <1>6 DEF Look
  <2>3. slot'[Cur] # "none"
    BY <2>1 DEF Cuts
  <2> QED BY <1>1, <2>1, <2>2, <2>3, TurnCuts
<1>7. CASE Return
  <2>1. /\ todo # <<>> /\ slot' = [slot EXCEPT ![Cur] = "inbox"]
        /\ pc' = [pc EXCEPT ![Cur] = "work"]
    BY <1>7 DEF Return, At, ReturnMails, Calls
  <2>2. Cur \in Thread
    BY <2>1, Running
  <2>3. slot'[Cur] # "none" /\ \A t \in Thread \ {Cur} : slot'[t] = slot[t]
    BY <1>1, <2>1, <2>2
  <2> QED BY <1>1, <2>1, <2>3, TurnCuts
<1>8. CASE ClientEnds
  <2>1. todo # <<>> /\ Exit /\ pc' = [pc EXCEPT ![Cur] = "ended"]
    BY <1>8 DEF ClientEnds, Ends, At
  <2>2. Cur \in Thread /\ links[Cur] = NoThread
    BY <2>1, Running DEF Protocol, Roles
  <2>3. slot' = [slot EXCEPT ![Cur] = "none"]
    BY <2>1, <2>2 DEF Exit, DropDelivering
  <2>4. \A t \in Thread \ {Cur} : slot'[t] = slot[t]
    BY <1>1, <2>3
  <2> QED BY <1>1, <2>1, <2>4, TurnCuts
<1>9. CASE Receive \/ TakeRequest
  <2>1. /\ todo # <<>> /\ pc[Cur] \in {"receive", "answer"} /\ Cur \in Thread
        /\ TakeMail \/ WaitMail \/ Consume
    BY <1>9, Running DEF Receive, TakeRequest, At
  <2>2. Cur = Server
    BY <2>1, Running
  <2>3. PICK p \in {"answer"} : pc' = [pc EXCEPT ![Cur] = p]
    BY <1>1, <1>9, <2>1 DEF Receive, TakeRequest, Calls, protocolVars, At
  <2>4. \A t \in Thread \ {Cur} : slot'[t] = slot[t]
    BY <1>1, <2>1 DEF TakeMail, WaitMail, Consume
  <2> QED BY <1>1, <1>2, <2>1, <2>2, <2>3, <2>4, TurnCuts
<1>10. CASE Answer
  <2>1. todo # <<>> /\ At("answer") /\ Ready /\ Mail(held[Cur][1].from, held[Cur][1].msg)
        /\ pc' = [pc EXCEPT ![Cur] = "receive"]
    BY <1>10 DEF Answer, At, Calls
  <2>2. PICK e \in Envelope : held[Server][1] = e /\ e.from \in Client
    BY <2>1, InHand
  <2>3. Cur = Server /\ Mail(e.from, e.msg)
    BY <2>1, <2>2, InHand
  <2>4. \A t \in Thread : slot'[t] = "none" => slot[t] = "none"
    BY <1>2, <2>2, <2>3, MailSlots
  <2> QED BY <1>1, <1>2, <2>1, <2>3, <2>4, TurnCuts
<1>11. ASSUME NEW c \in Client, Disturb(c) PROVE Cuts'
  <2>1. /\ todo # <<>> /\ Cur \in Noise /\ Mail(c, count[Cur] + 1)
        /\ pc' = [pc EXCEPT ![Cur] = "work"]
    BY <1>11 DEF Disturb, At, Calls
  <2>2. \A t \in Thread : slot'[t] = "none" => slot[t] = "none"
    BY <1>2, <2>1, MailSlots
  <2> QED BY <1>1, <1>2, <2>1, <2>2, TurnCuts
<1>12. CASE Spin
  <2>1. /\ todo # <<>> /\ Cur \in Spinner /\ Mail(Main, 1)
        /\ pc' = [pc EXCEPT ![Cur] = "work"]
    BY <1>12 DEF Spin, At, Calls
  <2>2. \A t \in Thread : slot'[t] = "none" => slot[t] = "none"
    BY <1>2, <2>1, MailSlots
  <2> QED BY <1>1, <1>2, <2>1, <2>2, TurnCuts
<1> QED
  BY <1>3, <1>4, <1>5, <1>6, <1>7, <1>8, <1>9, <1>10, <1>11, <1>12 DEF InteropNext

\* A client that has mailed its request and has no mailbox waits for the
\* answer before any other thread runs, so that the answer cannot come while
\* there is nowhere to put it, if from mail to wait-mail it makes no more
\* applications than one more than the reserve of the machine: what is left of
\* a quantum is kept for the next run only when it is more than the reserve.
THEOREM RequestNotCutOff ==
    ASSUME AskCost <= Reserve + 1
    PROVE  InteropSpec => []NotCut
<1>1. InteropInit => Cuts
  BY InitCuts
<1>2. Inv /\ Protocol /\ Cuts /\ [InteropNext]_allVars => Cuts'
  <2>1. ASSUME Cuts, UNCHANGED allVars PROVE Cuts'
    BY <2>1 DEF Cuts, Poller, Cur, allVars, vars, protocolVars
  <2> QED BY <2>1, StepCuts
<1>3. ASSUME Inv, Protocol, Cuts PROVE NotCut
  <2>1. todo # <<>> => Cur \in Ids(todo)
    BY <1>3, TailIds DEF Inv, TypeOK, Cur
  <2> QED BY <1>3, <2>1 DEF Cuts, NotCut, Inv, RunsOnce
<1> QED BY <1>1, <1>2, <1>3, Invariants, PTL DEF InteropSpec
==============================================================================
