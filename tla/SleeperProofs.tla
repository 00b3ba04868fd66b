---------------------------- MODULE SleeperProofs ----------------------------
(***************************************************************************)
(* Theorems about the thread that wakes sleepers, for any number of        *)
(* clients, any durations and any bounds.                                  *)
(*                                                                         *)
(* The turns of its threads are turns of the thread controller, and        *)
(* ThreadingProofs.tla and ActorMailProofs.tla say what becomes of the run *)
(* lists and of the mail.  What is added is a clock: the beds of the list  *)
(* store distances, and the sum of the distances up to a bed is when its   *)
(* thread is due.  For everyone who sleeps, what has gone by and what is   *)
(* still to go by stay on the same side of what was asked for.             *)
(***************************************************************************)
EXTENDS Sleeper, ActorMailProofs, NaturalsInduction

------------------------------------------------------------------------------
(* The inductive invariant.                                                *)

Bed == [n : Nat, id : Client]

Post == Boxes[Io]

\* The sleeper had its turn in this round.
Away == IF Io \in Ids(done) THEN 1 ELSE 0

\* The rounds that sleep-for has still to count, and those it has counted.
Left   == IF pc[Io] = "sleep-for" THEN rounds ELSE 0
Passed == IF pc[Io] = "sleep-for" THEN Head(ls).n - rounds ELSE 0

Waits(c) == pc[c] = "asleep" /\ slot[c] = "cont"
Hopes(c) == pc[c] = "asks" \/ Waits(c)

\* Not woken yet from its first sleep.
Young(c) == count[c] = 0 \/ (count[c] = 1 /\ Hopes(c))

\* The beds, and the requests that the sleeper has not used.
BedNo  == 1..Len(ls)
PostNo == 1..Len(Post)

HasBed(c)     == \E i \in BedNo : ls[i].id = c
HasRequest(c) == \E i \in PostNo : Post[i].from = c

SleeperPlace == {"add", "sleeper", "sleep-for", "endless", "ended"}
ClientPlace  == {"awake", "asks", "asleep", "ended"}

Typed ==
    /\ pc \in [Thread -> SleeperPlace \cup ClientPlace]
    /\ pc[Io] \in SleeperPlace /\ \A c \in Client : pc[c] \in ClientPlace
    /\ ls \in Seq(Bed) /\ rounds \in Nat
    /\ count \in [Thread -> Nat] /\ want \in [Thread -> Nat]
    /\ age \in [Thread -> Nat] /\ late \in [Thread -> Nat]
    /\ held = [t \in Thread |-> <<>>]
    /\ links = [t \in Thread |-> NoThread]

\* Where the sleeper is, and who writes to it.
Routine ==
    /\ Serves => Io \in Live /\ slot[Io] # "none"
    /\ slot[Io] = "cont" => pc[Io] = "add" /\ ls = <<>>
    /\ pc[Io] = "sleep-for" => ls # <<>> /\ rounds <= Head(ls).n
    /\ \A i \in PostNo : Post[i].from \in Client

\* Where the clients are.
Turns ==
    \A c \in Client :
        /\ pc[c] = "asks" => todo # <<>> /\ Cur = c /\ age[c] = 0
        /\ pc[c] = "asleep" => c \in Live

\* Before its first sleep has ended nothing is left over from an earlier one.
Fresh ==
    \A c \in Client :
        /\ Young(c) => /\ Boxes[c] = <<>>
                       /\ \A i \in PostNo :
                             Post[i].from = c => Asks(Post[i]) = want[c]
        /\ count[c] = 0 => ~HasRequest(c) /\ ~HasBed(c)
        /\ count[c] = 1 /\ pc[c] = "asks" => ~HasBed(c)

\* Who was woken and has not run yet.
Roused ==
    \A c \in Client :
        pc[c] = "asleep" /\ slot[c] # "cont" =>
            /\ count[c] = 1 => age[c] >= want[c]
            /\ Serves => age[c] <= want[c] + late[c]

\* The sums of the distances.
Dues(beds, f) ==
    /\ f \in [1..Len(beds) -> Nat]
    /\ beds # <<>> => f[1] = beds[1].n
    /\ \A i \in 2..Len(beds) : f[i] = f[i - 1] + beds[i].n

\* A bed in which c has slept as long as it wants when it is due, and one, or
\* a request, that does not keep it longer than that.
Whole(c, f) ==
    \A i \in BedNo : ls[i].id = c => age[c] + f[i] + Away >= want[c] + Passed

InTime(c, f) ==
    \/ \E i \in PostNo :
          /\ Post[i].from = c /\ Asks(Post[i]) = want[c]
          /\ age[c] + Left + Away <= late[c]
    \/ \E i \in BedNo :
          /\ ls[i].id = c
          /\ age[c] + f[i] + Away <= want[c] + late[c] + Passed

Timed(f) ==
    \A c \in Client :
        /\ count[c] = 1 /\ Waits(c) => Whole(c, f)
        /\ Hopes(c) => InTime(c, f)

Clocked == Serves => \E f : Dues(ls, f) /\ Timed(f)

Place == Typed /\ Routine /\ Turns /\ Fresh /\ Roused

------------------------------------------------------------------------------
(* The turns of these programs are turns of the controller.                *)

LEMMA Cast ==
    /\ Io \in Thread /\ Client \subseteq Thread /\ Io \notin Client
    /\ IsFiniteSet(Client) /\ 1 \in 0..MaxMail
    /\ Duration \subseteq 0..MaxMail /\ Fixed \in Nat /\ NotFixnum \in 0..MaxMail
    /\ MaxMail \in Nat /\ NoThread \notin Thread
  BY SleeperAssumption, ThreadAssumption

\* The running thread.
LEMMA Running ==
    ASSUME Inv, todo # <<>>
    PROVE  /\ Cur \in Thread /\ Cur \in Live /\ slot[Cur] # "cont"
           /\ Cur \notin Ids(done) /\ Ids(todo) = {Cur} \cup Ids(Rest)
<1>1. /\ Cur \in Thread /\ Cur \in Runnable /\ Ids(todo) = {Cur} \cup Ids(Rest)
  BY ResumeIds, TailIds DEF Given, Inv, TypeOK, Cur, Rest
<1>2. Cur \in Ids(todo)
  BY <1>1
<1> QED BY <1>1, <1>2 DEF Inv, RunsOnce, Live, Waiting

LEMMA TurnInv == ASSUME Inv, Typed, Routine, SleeperNext PROVE Inv'
<1>1. /\ UNCHANGED <<held, forks, sent>> /\ held = [t \in Thread |-> <<>>]
  BY DEF SleeperNext, Typed
<1>2. Remember
  BY <1>1 DEF Remember, Inv, TypeOK
<1>3. ASSUME TimeSlice \/ NewRound \/ HaltThreadController PROVE Inv'
  BY <1>1, <1>3, ScheduleInv DEF DoSchedule
<1>4. ASSUME TakeMail \/ NoMail \/ WaitMail PROVE Inv'
  BY <1>1, <1>4, LookInv DEF DoLook
<1>5. ASSUME Consume PROVE Inv'
  BY <1>1, <1>5, ConsumeInv DEF DoConsume
<1>6. ASSUME Exit PROVE Inv'
  <2>1. Forget(Cur)
    BY <1>1 DEF Forget
  <2> QED BY <1>1, <1>6, <2>1, EndInv DEF DoEnd
<1>7. ASSUME UNCHANGED mcpVars PROVE Inv'
  <2>1. UNCHANGED vars
    BY <1>1, <1>7 DEF mcpVars, vars
  <2> QED BY <2>1, NextInv
<1>8. ASSUME NEW t \in Thread, NEW msg \in 0..MaxMail, Mail(t, msg) PROVE Inv'
  BY <1>2, <1>8, MailTurn
<1>9. CASE Wake
  <2>1. Mail(Head(ls).id, 1) /\ pc[Io] = "sleep-for"
    BY <1>9 DEF Wake, At
  <2>2. Head(ls) \in Bed
    BY <2>1 DEF Routine, Typed
  <2> QED BY <1>8, <2>1, <2>2, Cast DEF Bed
<1>10. ASSUME NEW n \in Duration, Sleep(n) PROVE Inv'
  BY <1>8, <1>10, Cast DEF Sleep
<1>11. CASE FindForEver
  BY <1>3, <1>6, <1>11 DEF FindForEver
<1>12. CASE SleepFor
  BY <1>3, <1>7, <1>12 DEF SleepFor
<1>13. CASE WaitForFirst \/ CheckMail \/ FallAsleep
  BY <1>4, <1>13 DEF WaitForFirst, CheckMail, FallAsleep
<1>14. CASE Add \/ WakeUp
  BY <1>5, <1>14 DEF Add, WakeUp
<1>15. CASE Cut \/ Work \/ Round \/ Halt
  BY <1>3, <1>15 DEF Cut, Work, Round, Halt
<1>16. CASE ClientEnds
  BY <1>6, <1>16 DEF ClientEnds
<1> QED
  BY <1>9, <1>10, <1>11, <1>12, <1>13, <1>14, <1>15, <1>16 DEF SleeperNext

------------------------------------------------------------------------------
(* What the turns change.                                                  *)

LEMMA Numbers ==
    ASSUME Typed, Routine
    PROVE  Away \in {0, 1} /\ Left \in Nat /\ Passed \in Nat
<1>1. pc[Io] = "sleep-for" => Head(ls).n \in Nat /\ rounds <= Head(ls).n
  <2>1. ls # <<>> => Head(ls) \in Bed
    BY DEF Typed
  <2> QED BY <2>1 DEF Routine, Bed
<1>2. rounds \in Nat
  BY DEF Typed
<1> QED BY <1>1, <1>2 DEF Away, Left, Passed

LEMMA NumbersNext ==
    ASSUME Typed', Routine'
    PROVE  Away' \in {0, 1} /\ Left' \in Nat /\ Passed' \in Nat
<1>1. pc'[Io] = "sleep-for" => Head(ls').n \in Nat /\ rounds' <= Head(ls').n
  <2>1. ls' # <<>> => Head(ls') \in Bed
    BY DEF Typed
  <2> QED BY <2>1 DEF Routine, Bed
<1>2. rounds' \in Nat
  BY DEF Typed
<1> QED BY <1>1, <1>2 DEF Away, Left, Passed

\* A time slice.
LEMMA SliceEffect ==
    ASSUME Inv, Inv', TimeSlice, UNCHANGED <<held, forks, sent>>
    PROVE  /\ UNCHANGED <<Live, Boxes, slot, links>>
           /\ Away' = IF Cur = Io THEN 1 ELSE Away
<1>1. UNCHANGED <<Live, Boxes, slot, links>>
  BY ScheduleEffect DEF DoSchedule
<1>2. Ids(done') = {Cur} \cup Ids(done)
  <2>1. Head(todo) \in Entry /\ done \in Seq(Entry) /\ done' = <<Head(todo)>> \o done
    BY TailIds DEF TimeSlice, Inv, TypeOK
  <2> QED BY <2>1, ConsIds DEF Cur
<1>3. Away = 0 \/ Away = 1
  BY DEF Away
<1> QED BY <1>1, <1>2 DEF Away

\* A new round.
LEMMA RoundEffect ==
    ASSUME Inv, Inv', NewRound, UNCHANGED <<held, forks, sent>>
    PROVE  UNCHANGED <<Live, Boxes, slot, links>> /\ Away' = 0
<1>1. UNCHANGED <<Live, Boxes, slot, links>>
  BY ScheduleEffect DEF DoSchedule
<1>2. Ids(done') = {}
  BY DEF NewRound, Ids
<1> QED BY <1>1, <1>2 DEF Away

\* The machine alone.
LEMMA AloneEffect ==
    ASSUME Inv, Inv', UNCHANGED mcpVars
    PROVE  UNCHANGED <<Live, Boxes, slot, links, Away>>
<1>1. UNCHANGED <<todo, done, slot, inbox, links>>
  BY DEF mcpVars
<1> QED BY <1>1, BoxesAre DEF Live, Runnable, Waiting, Away

------------------------------------------------------------------------------
(* The clock.                                                              *)

\* The three inequalities of a step: what is due stays due in time.
LEMMA StillWhole ==
    \A a, b, w, x, p, q, d, n \in Nat :
        a + d + w >= n + p /\ b + x + p >= a + w + q => b + d + x >= n + q
  OBVIOUS

LEMMA StillPromised ==
    \A a, b, w, x, l, m, k, j \in Nat :
        a + l + w <= k /\ b + x + m + k <= a + w + l + j => b + m + x <= j
  OBVIOUS

LEMMA StillInTime ==
    \A a, b, w, x, p, q, d, n, k, j \in Nat :
        a + d + w <= n + k + p /\ b + x + p + k <= a + w + q + j => b + d + x <= n + j + q
  OBVIOUS

\* What has gone by for c and what is still to go by, before and after a step.
Steady(c) ==
    /\ age'[c] + Away' + Passed >= age[c] + Away + Passed'
    /\ age'[c] + Away' + Passed + late[c] <= age[c] + Away + Passed' + late'[c]
    /\ Post # <<>> => age'[c] + Away' + Left' + late[c] <= age[c] + Away + Left + late'[c]

\* Nothing joins or leaves the list or the requests, and time goes by for
\* those who sleep as it does for the sleeper.
LEMMA ClockGoesOn ==
    ASSUME Typed, Typed', Routine, Routine', NEW f, Dues(ls, f), Timed(f),
           UNCHANGED <<ls, count, want, Post>>,
           \A c \in Client : Hopes(c)' => Hopes(c),
           \A c \in Client : Waits(c)' /\ count[c] = 1 => Waits(c) \/ ~HasBed(c),
           \A c \in Client : Hopes(c)' => Steady(c)
    PROVE  Dues(ls, f)' /\ Timed(f)'
<1>1. Dues(ls, f)'
  BY DEF Dues
<1>2. /\ Away \in Nat /\ Left \in Nat /\ Passed \in Nat
      /\ Away' \in Nat /\ Left' \in Nat /\ Passed' \in Nat
  <2>1. Away \in {0, 1} /\ Left \in Nat /\ Passed \in Nat
    BY Numbers
  <2>2. Away' \in {0, 1} /\ Left' \in Nat /\ Passed' \in Nat
    BY NumbersNext
  <2> QED BY <2>1, <2>2
<1>3. /\ age \in [Thread -> Nat] /\ late \in [Thread -> Nat] /\ want \in [Thread -> Nat]
      /\ age' \in [Thread -> Nat] /\ late' \in [Thread -> Nat]
      /\ \A i \in BedNo : f[i] \in Nat
  BY DEF Typed, Dues, BedNo
<1>3a. BedNo' = BedNo /\ PostNo' = PostNo
  BY DEF BedNo, PostNo
<1>4. ASSUME NEW c \in Client, count'[c] = 1, Waits(c)' PROVE Whole(c, f)'
  <2>1. Hopes(c)'
    BY <1>4 DEF Hopes
  <2>2. CASE Waits(c)
    <3>1. Whole(c, f)
      BY <1>4, <2>2 DEF Timed
    <3>2. c \in Thread
      BY Cast
    <3>3. ASSUME NEW i \in BedNo, ls[i].id = c
          PROVE  age'[c] + f[i] + Away' >= want[c] + Passed'
      <4>1. age[c] + f[i] + Away >= want[c] + Passed
        BY <3>1, <3>3 DEF Whole
      <4>2. age'[c] + Away' + Passed >= age[c] + Away + Passed'
        BY <2>1 DEF Steady
      <4>3. age[c] \in Nat /\ age'[c] \in Nat /\ want[c] \in Nat /\ f[i] \in Nat
        BY <1>3, <3>2
      <4> QED BY <4>1, <4>2, <4>3, <1>2, StillWhole
    <3> QED BY <1>3a, <3>3 DEF Whole
  <2>3. CASE ~HasBed(c)
    BY <1>3a, <2>3 DEF HasBed, Whole
  <2> QED BY <1>4, <2>2, <2>3
<1>5. ASSUME NEW c \in Client, Hopes(c)' PROVE InTime(c, f)'
  <2>1. InTime(c, f)
    BY <1>5 DEF Timed
  <2>2. age[c] \in Nat /\ age'[c] \in Nat /\ want[c] \in Nat /\ late[c] \in Nat /\ late'[c] \in Nat
    BY <1>3, Cast
  <2>3. ASSUME NEW i \in PostNo, Post[i].from = c, Asks(Post[i]) = want[c],
               age[c] + Left + Away <= late[c]
        PROVE  InTime(c, f)'
    <3>1. Post # <<>>
      BY <2>3 DEF PostNo
    <3>2. age'[c] + Away' + Left' + late[c] <= age[c] + Away + Left + late'[c]
      BY <1>5, <3>1 DEF Steady
    <3>3. age'[c] + Left' + Away' <= late'[c]
      BY <2>2, <2>3, <3>2, <1>2, StillPromised
    <3>4. i \in PostNo' /\ Post'[i].from = c /\ Asks(Post'[i]) = want'[c]
      BY <1>3a, <2>3
    <3> QED BY <3>3, <3>4 DEF InTime, Asks
  <2>4. ASSUME NEW i \in BedNo, ls[i].id = c,
               age[c] + f[i] + Away <= want[c] + late[c] + Passed
        PROVE  InTime(c, f)'
    <3>1. age'[c] + Away' + Passed + late[c] <= age[c] + Away + Passed' + late'[c]
      BY <1>5 DEF Steady
    <3>2. f[i] \in Nat
      BY <1>3
    <3>3. age'[c] + f[i] + Away' <= want[c] + late'[c] + Passed'
      BY <2>2, <2>4, <3>1, <3>2, <1>2, StillInTime
    <3> QED BY <1>3a, <2>4, <3>3 DEF InTime
  <2> QED BY <2>1, <2>3, <2>4 DEF InTime
<1> QED BY <1>1, <1>4, <1>5 DEF Timed

\* The same, for a step after which the sleeper still serves.
LEMMA ClockKept ==
    ASSUME Typed, Typed', Routine, Routine', Clocked, Serves' => Serves,
           UNCHANGED <<ls, count, want, Post>>,
           \A c \in Client : Hopes(c)' => Hopes(c),
           \A c \in Client : Waits(c)' /\ count[c] = 1 => Waits(c) \/ ~HasBed(c),
           Serves' => \A c \in Client : Hopes(c)' => Steady(c)
    PROVE  Clocked'
<1> SUFFICES ASSUME Serves' PROVE \E f : (Dues(ls, f) /\ Timed(f))'
  BY DEF Clocked
<1>1. PICK f : Dues(ls, f) /\ Timed(f)
  BY DEF Clocked
<1>2. (Dues(ls, f) /\ Timed(f))'
  BY <1>1, ClockGoesOn
<1> QED BY <1>2

------------------------------------------------------------------------------
(* What most turns leave as it was.                                        *)

LEMMA FreshKept ==
    ASSUME Fresh, UNCHANGED <<count, want>>,
           \A i \in PostNo' : \E j \in PostNo : Post'[i] = Post[j],
           \A c \in Client : HasBed(c)' => HasBed(c) \/ (count[c] # 0 /\ pc'[c] # "asks"),
           \A c \in Client : Young(c)' => Young(c) /\ Boxes'[c] = Boxes[c],
           \A c \in Client : pc'[c] = "asks" => pc[c] = "asks"
    PROVE  Fresh'
<1>1. ASSUME NEW c \in Client, Young(c)'
      PROVE  /\ Boxes'[c] = <<>>
             /\ \A i \in PostNo' : Post'[i].from = c => Asks(Post'[i]) = want'[c]
  BY <1>1 DEF Fresh
<1>2. ASSUME NEW c \in Client, count'[c] = 0 PROVE ~HasRequest(c)' /\ ~HasBed(c)'
  BY <1>2 DEF Fresh, HasRequest
<1>3. ASSUME NEW c \in Client, count'[c] = 1, pc'[c] = "asks" PROVE ~HasBed(c)'
  BY <1>3 DEF Fresh
<1> QED BY <1>1, <1>2, <1>3 DEF Fresh, Asks

LEMMA RousedKept ==
    ASSUME Typed, Typed', Roused, UNCHANGED <<count, want>>, Serves' => Serves,
           \A c \in Client : pc'[c] = "asleep" /\ slot'[c] # "cont" =>
               /\ pc[c] = "asleep" /\ slot[c] # "cont"
               /\ age'[c] = age[c] /\ late'[c] >= late[c]
    PROVE  Roused'
<1>1. ASSUME NEW c \in Client, pc'[c] = "asleep", slot'[c] # "cont"
      PROVE  /\ count'[c] = 1 => age'[c] >= want'[c]
             /\ Serves' => age'[c] <= want'[c] + late'[c]
  <2>1. /\ age[c] \in Nat /\ want[c] \in Nat /\ late[c] \in Nat /\ late'[c] \in Nat
    BY Cast DEF Typed
  <2> QED BY <1>1, <2>1 DEF Roused
<1> QED BY <1>1 DEF Roused

\* The sleeper's own turn.
LEMMA IoTurn ==
    ASSUME Inv, Place, todo # <<>>, Cur = Io
    PROVE  /\ Io \in Live /\ slot[Io] # "cont" /\ Away = 0
           /\ \A c \in Client : pc[c] # "asks"
  BY Running, Cast DEF Place, Turns, Away

\* A turn that moves no client, no bed and no mail: time may go by.
LEMMA TimeGoesBy ==
    ASSUME Inv, Inv', Place, Clocked, Typed', Routine',
           UNCHANGED <<ls, count, want, Live, Boxes>>, Serves' => Serves,
           \A c \in Client : pc'[c] = pc[c] /\ slot'[c] = slot[c] /\ pc[c] # "asks",
           \A c \in Client : ~Waits(c) => age'[c] = age[c],
           \A c \in Client : late'[c] >= late[c],
           \A c \in Client : Serves' /\ Waits(c) => Steady(c)
    PROVE  Place' /\ Clocked'
<1>1. /\ \A c \in Client : Waits(c)' <=> Waits(c)
      /\ \A c \in Client : Hopes(c)' <=> Hopes(c)
      /\ \A c \in Client : Hopes(c) => Waits(c)
      /\ \A c \in Client : Young(c)' <=> Young(c)
      /\ \A c \in Client : HasBed(c)' <=> HasBed(c)
      /\ PostNo' = PostNo /\ Post' = Post
  BY DEF Waits, Hopes, Young, HasBed, BedNo, PostNo, Post
<1>2. Fresh'
  BY <1>1, FreshKept DEF Place
<1>3. Roused'
  BY <1>1, RousedKept DEF Place, Waits
<1>4. Turns'
  BY DEF Place, Turns
<1>5. Clocked'
  BY <1>1, ClockKept DEF Place
<1> QED BY <1>2, <1>3, <1>4, <1>5 DEF Place

\* Time for those who sleep.
LEMMA Advanced ==
    ASSUME NEW f \in [Thread -> Nat], NEW n \in Nat
    PROVE  /\ Advance(f, n) \in [Thread -> Nat]
           /\ \A c \in Client : pc[c] = "asleep" => Advance(f, n)[c] = f[c] + n
           /\ \A c \in Client : pc[c] # "asleep" => Advance(f, n)[c] = f[c]
           /\ \A c \in Client : Advance(f, n)[c] >= f[c]
<1>1. ASSUME NEW t \in Thread PROVE f[t] \in Nat /\ f[t] + n \in Nat /\ f[t] + n >= f[t] /\ f[t] >= f[t]
  OBVIOUS
<1> QED BY <1>1, Cast DEF Advance, Asleep

\* Nothing is younger than itself.
LEMMA Ages ==
    ASSUME Typed
    PROVE  \A c \in Client : /\ age[c] \in Nat /\ want[c] \in Nat /\ late[c] \in Nat
                             /\ late[c] >= late[c] /\ c \in Thread
<1>1. ASSUME NEW c \in Client PROVE age[c] \in Nat /\ want[c] \in Nat /\ late[c] \in Nat /\ c \in Thread
  BY Cast DEF Typed
<1>2. \A n \in Nat : n >= n
  OBVIOUS
<1> QED BY <1>1, <1>2

------------------------------------------------------------------------------
(* The turns of the sleeper.                                               *)

LEMMA CutKeeps ==
    ASSUME Inv, Inv', Place, Clocked, Cut, UNCHANGED <<held, forks, sent>>
    PROVE  Place' /\ Clocked'
<1>1. /\ todo # <<>> /\ Cur = Io /\ Serves /\ TimeSlice
      /\ late' = Advance(late, 1)
      /\ UNCHANGED <<pc, ls, rounds, count, want, age>>
  BY DEF Cut
<1>2. UNCHANGED <<Live, Boxes, slot, links>> /\ Away' = 1 /\ Away = 0
  BY <1>1, SliceEffect, IoTurn
<1>3. /\ late' \in [Thread -> Nat]
      /\ \A c \in Client : pc[c] = "asleep" => late'[c] = late[c] + 1
      /\ \A c \in Client : late'[c] >= late[c]
  BY <1>1, Advanced DEF Place, Typed
<1>4. Typed'
  BY <1>1, <1>2, <1>3 DEF Place, Typed
<1>5. Routine'
  BY <1>1, <1>2 DEF Place, Routine, Serves, Post, PostNo
<1>6. ASSUME NEW c \in Client, Waits(c) PROVE Steady(c)
  <2>1. late'[c] = late[c] + 1
    BY <1>3, <1>6 DEF Waits
  <2>2. age[c] \in Nat /\ late[c] \in Nat
    BY Ages DEF Place
  <2>3. Left' = Left /\ Passed' = Passed /\ Left \in Nat /\ Passed \in Nat
    BY <1>1, Numbers DEF Left, Passed, Place
  <2>4. \A a, l, m, q \in Nat :
           /\ a + 1 + q >= a + 0 + q
           /\ a + 1 + q + l <= a + 0 + q + (l + 1)
           /\ a + 1 + m + l <= a + 0 + m + (l + 1)
    OBVIOUS
  <2>5. age' = age
    BY <1>1
  <2> QED BY <1>2, <2>1, <2>2, <2>3, <2>4, <2>5 DEF Steady
<1> QED BY <1>1, <1>2, <1>3, <1>4, <1>5, <1>6, IoTurn, TimeGoesBy DEF Serves

\* A sleeper that is told that there is no mail has none.
LEMMA NoPost ==
    ASSUME Inv, NoMail, Cur = Io
    PROVE  Post = <<>>
<1>1. todo # <<>> /\ Head(todo).given = <<>> /\ inbox[Io] = <<>>
  BY DEF NoMail, Ready
<1>2. Boxes[Io] = GivenOf(todo, done, Io) \o inbox[Io]
  BY BoxesAre, Cast
<1>3. GivenOf(todo, done, Io) = <<>>
  BY <1>1, HeadGiven
<1>4. Boxes[Io] = <<>> \o <<>>
  BY <1>1, <1>2, <1>3
<1> QED BY <1>4 DEF Post

\* (check-mail), and the mail a sleeper without beds waits for.
LEMMA LookKeeps ==
    ASSUME Inv, Inv', Place, Clocked, WaitForFirst \/ CheckMail, UNCHANGED <<held, forks, sent>>
    PROVE  Place' /\ Clocked'
<1> DEFINE Looks == /\ TakeMail \/ (WaitMail /\ ls = <<>>)
                    /\ pc' = [pc EXCEPT ![Io] = "add"] /\ UNCHANGED rounds
           Counts == /\ NoMail /\ ls # <<>>
                     /\ pc' = [pc EXCEPT ![Io] = "sleep-for"] /\ rounds' = Head(ls).n
<1>1. /\ todo # <<>> /\ Cur = Io /\ pc[Io] = "sleeper" /\ DoLook /\ UNCHANGED done
      /\ UNCHANGED <<ls, count, want, age, late>>
      /\ Looks \/ Counts
  BY DEF WaitForFirst, CheckMail, At, DoLook, TakeMail, NoMail, WaitMail
<1>2. /\ UNCHANGED <<Live, Boxes, links>> /\ Away' = Away /\ Away = 0
      /\ \A t \in Thread \ {Io} : slot'[t] = slot[t]
      /\ TakeMail \/ NoMail => slot' = slot
      /\ WaitMail => slot'[Io] = "cont"
  BY <1>1, LookEffect, IoTurn DEF Away
<1>3. /\ pc' \in [Thread -> SleeperPlace \cup ClientPlace] /\ pc'[Io] \in {"add", "sleep-for"}
      /\ \A c \in Client : pc'[c] = pc[c]
      /\ Looks => pc'[Io] = "add"
      /\ Counts => pc'[Io] = "sleep-for"
  BY <1>1, Cast DEF Place, Typed, SleeperPlace
<1>4. Counts => Head(ls).n \in Nat /\ Head(ls).n <= Head(ls).n /\ Head(ls).n - Head(ls).n = 0
  <2>1. Counts => Head(ls) \in Bed
    BY DEF Place, Typed
  <2>2. \A n \in Nat : n <= n /\ n - n = 0
    OBVIOUS
  <2> QED BY <2>1, <2>2 DEF Bed
<1>5. Typed'
  <2>1. rounds' \in Nat
    BY <1>1, <1>4 DEF Place, Typed
  <2>2. pc'[Io] \in SleeperPlace
    BY <1>3 DEF SleeperPlace
  <2> QED BY <1>1, <1>2, <1>3, <2>1, <2>2 DEF Place, Typed
<1>6. Routine'
  <2>1. Io \in Live' /\ Post' = Post
    BY <1>1, <1>2, IoTurn DEF Post
  <2>2. slot'[Io] = "cont" => pc'[Io] = "add" /\ ls' = <<>>
    BY <1>1, <1>2, <1>3, IoTurn
  <2>3. pc'[Io] = "sleep-for" => ls' # <<>> /\ rounds' <= Head(ls').n
    BY <1>1, <1>3, <1>4
  <2>4. slot'[Io] # "none"
    BY <1>1, <1>2 DEF Place, Routine, Serves
  <2> QED BY <2>1, <2>2, <2>3, <2>4 DEF Place, Routine, PostNo
<1>7. ASSUME NEW c \in Client PROVE Steady(c)
  <2>1. age[c] \in Nat /\ late[c] \in Nat
    BY Ages DEF Place
  <2>2. Left = 0 /\ Passed = 0 /\ Passed' = 0
    BY <1>1, <1>3, <1>4 DEF Left, Passed
  <2>3. CASE Looks
    <3>1. Left' = 0
      BY <1>3, <2>3 DEF Left
    <3> QED BY <1>1, <1>2, <2>1, <2>2, <3>1 DEF Steady
  <2>4. CASE Counts
    <3>1. Post = <<>>
      BY <1>1, <2>4, NoPost
    <3> QED BY <1>1, <1>2, <2>1, <2>2, <3>1 DEF Steady
  <2> QED BY <1>1, <2>3, <2>4
<1>8. Serves
  BY <1>1 DEF Serves
<1>9. \A c \in Client : c # Io /\ c \in Thread
  BY Cast
<1>10. \A c \in Client : late'[c] >= late[c]
  BY <1>1, Ages DEF Place
<1> QED BY <1>1, <1>2, <1>3, <1>5, <1>6, <1>7, <1>8, <1>9, <1>10, IoTurn, TimeGoesBy

LEMMA SleepForKeeps ==
    ASSUME Inv, Inv', Place, Clocked, SleepFor, UNCHANGED <<held, forks, sent>>
    PROVE  Place' /\ Clocked'
<1> DEFINE Through == rounds' = 0 /\ age' = Advance(age, rounds)
           Ends == Through /\ Rest = <<>> /\ done = <<>> /\ TimeSlice /\ late' = Advance(late, 1)
           Goes == Through /\ Rest = <<>> /\ done = <<>> /\ UNCHANGED <<mcpVars, late>>
           One  == rounds' = rounds - 1 /\ TimeSlice /\ UNCHANGED <<age, late>>
<1>1. /\ todo # <<>> /\ Cur = Io /\ pc[Io] = "sleep-for" /\ rounds > 0
      /\ UNCHANGED <<pc, ls, count, want>>
      /\ Ends \/ Goes \/ One
  BY DEF SleepFor, At
<1>2. /\ UNCHANGED <<Live, Boxes, slot, links>> /\ Away = 0
      /\ TimeSlice => Away' = 1
      /\ UNCHANGED mcpVars => Away' = 0
  BY <1>1, SliceEffect, AloneEffect, IoTurn
<1>3. /\ age \in [Thread -> Nat] /\ late \in [Thread -> Nat] /\ rounds \in Nat
      /\ \A c \in Client : age[c] \in Nat /\ late[c] \in Nat
      /\ \A c \in Client : late[c] >= late[c]
  BY Ages DEF Place, Typed
<1>4. /\ Head(ls).n \in Nat /\ rounds <= Head(ls).n /\ ls # <<>>
  <2>1. ls # <<>> /\ rounds <= Head(ls).n
    BY <1>1 DEF Place, Routine
  <2>2. Head(ls) \in Bed
    BY <2>1 DEF Place, Typed
  <2> QED BY <2>1, <2>2 DEF Bed
<1>4a. PICK h \in Nat : h = Head(ls).n /\ rounds <= h
  BY <1>4
<1>5. /\ Passed = h - rounds /\ Left = rounds
      /\ Passed' = h - rounds' /\ Left' = rounds'
  BY <1>1, <1>4a DEF Passed, Left
<1>5a. Away = 0 /\ rounds \in Nat /\ rounds > 0
  BY <1>1, <1>2, <1>3
<1>6. rounds' \in Nat /\ rounds' <= rounds
  <2>1. rounds' = 0 \/ rounds' = rounds - 1
    BY <1>1
  <2> QED BY <1>1, <1>3, <2>1
<1>7. Serves /\ Routine'
  <2>1. rounds' <= Head(ls).n
    BY <1>3, <1>4, <1>6
  <2> QED BY <1>1, <1>2, <1>4, <2>1 DEF Place, Routine, Serves, Post, PostNo
<1>8. ASSUME age' \in [Thread -> Nat], late' \in [Thread -> Nat],
             \A c \in Client : ~Waits(c) => age'[c] = age[c],
             \A c \in Client : late'[c] >= late[c],
             \A c \in Client : Waits(c) => Steady(c)
      PROVE  Place' /\ Clocked'
  <2>1. Typed'
    BY <1>1, <1>2, <1>6, <1>8 DEF Place, Typed
  <2> QED BY <1>1, <1>2, <1>7, <1>8, <2>1, IoTurn, TimeGoesBy
\* Everyone who sleeps waits: no one else is in the run lists.
<1>9. ASSUME Through, Rest = <<>>, done = <<>>
      PROVE  /\ age' \in [Thread -> Nat]
             /\ \A c \in Client : Waits(c) => age'[c] = age[c] + rounds
             /\ \A c \in Client : ~Waits(c) => age'[c] = age[c]
  <2>1. \A c \in Client : pc[c] = "asleep" => slot[c] = "cont"
    <3>0. Ids(<<>>) = {}
      BY DEF Ids
    <3>1. Ids(todo) = {Io} /\ Ids(done) = {}
      BY <1>1, <1>9, <3>0, Running
    <3>2. \A c \in Client : c \notin Runnable
      BY <3>1, Cast DEF Runnable
    <3> QED BY <3>2 DEF Place, Turns, Live, Waiting
  <2>2. age' = Advance(age, rounds)
    BY <1>9
  <2> QED BY <1>3, <2>1, <2>2, Advanced DEF Waits
<1>10. CASE Ends
  <2>1. /\ age' \in [Thread -> Nat]
        /\ \A c \in Client : Waits(c) => age'[c] = age[c] + rounds
        /\ \A c \in Client : ~Waits(c) => age'[c] = age[c]
    BY <1>9, <1>10
  <2>2. /\ late' \in [Thread -> Nat]
        /\ \A c \in Client : pc[c] = "asleep" => late'[c] = late[c] + 1
        /\ \A c \in Client : late'[c] >= late[c]
    BY <1>3, <1>10, Advanced
  <2>3. Away' = 1 /\ rounds' = 0
    BY <1>2, <1>10
  <2>4. ASSUME NEW c \in Client, Waits(c) PROVE Steady(c)
    <3>1. age'[c] = age[c] + rounds /\ late'[c] = late[c] + 1
      BY <2>1, <2>2, <2>4 DEF Waits
    <3>2. age[c] \in Nat /\ late[c] \in Nat
      BY <1>3
    <3>3. Passed' = h - 0 /\ Left' = 0
      BY <1>5, <2>3
    <3>4. \A a, l, r, n \in Nat :
             /\ (a + r) + 1 + (n - r) >= a + 0 + (n - 0)
             /\ (a + r) + 1 + (n - r) + l <= a + 0 + (n - 0) + (l + 1)
             /\ (a + r) + 1 + 0 + l <= a + 0 + r + (l + 1)
      OBVIOUS
    <3> QED BY <1>5, <1>5a, <2>3, <3>1, <3>2, <3>3, <3>4 DEF Steady
  <2> QED BY <1>8, <2>1, <2>2, <2>4
<1>11. CASE Goes
  <2>1. /\ age' \in [Thread -> Nat]
        /\ \A c \in Client : Waits(c) => age'[c] = age[c] + rounds
        /\ \A c \in Client : ~Waits(c) => age'[c] = age[c]
    BY <1>9, <1>11
  <2>2. late' = late /\ Away' = 0 /\ rounds' = 0
    BY <1>2, <1>11
  <2>3. ASSUME NEW c \in Client, Waits(c) PROVE Steady(c)
    <3>1. age'[c] = age[c] + rounds
      BY <2>1, <2>3
    <3>2. age[c] \in Nat /\ late[c] \in Nat
      BY <1>3
    <3>3. Passed' = h - 0 /\ Left' = 0
      BY <1>5, <2>2
    <3>4. \A a, l, r, n \in Nat :
             /\ (a + r) + 0 + (n - r) >= a + 0 + (n - 0)
             /\ (a + r) + 0 + (n - r) + l <= a + 0 + (n - 0) + l
             /\ (a + r) + 0 + 0 + l <= a + 0 + r + l
      OBVIOUS
    <3> HIDE DEF Goes
    <3> QED BY <1>5, <1>5a, <2>2, <3>1, <3>2, <3>3, <3>4 DEF Steady
  <2>4. \A c \in Client : late'[c] >= late[c]
    BY <1>3, <2>2
  <2> QED BY <1>3, <1>8, <2>1, <2>2, <2>3, <2>4
<1>12. CASE One
  <2>1. age' = age /\ late' = late /\ Away' = 1 /\ rounds' = rounds - 1
    BY <1>2, <1>12
  <2>2. ASSUME NEW c \in Client PROVE Steady(c)
    <3>1. age[c] \in Nat /\ late[c] \in Nat
      BY <1>3
    <3>2. \A a, l, r, n \in Nat :
             /\ a + 1 + (n - r) >= a + 0 + (n - (r - 1))
             /\ a + 1 + (n - r) + l <= a + 0 + (n - (r - 1)) + l
             /\ a + 1 + (r - 1) + l <= a + 0 + r + l
      OBVIOUS
    <3> QED BY <1>5, <1>5a, <2>1, <3>1, <3>2 DEF Steady
  <2>3. \A c \in Client : late'[c] >= late[c] /\ age'[c] = age[c]
    BY <1>3, <2>1
  <2> QED BY <1>3, <1>8, <2>1, <2>2, <2>3
<1> QED BY <1>1, <1>10, <1>11, <1>12

\* find-bed does not end; it is gone when the memory is used up.
LEMMA FindForEverKeeps ==
    ASSUME Inv, Inv', Place, Clocked, FindForEver, UNCHANGED <<held, forks, sent>>
    PROVE  Place' /\ Clocked'
<1>1. /\ todo # <<>> /\ Cur = Io /\ pc[Io] = "endless" /\ ~Serves
      /\ UNCHANGED <<ls, rounds, count, want, age, late>>
      /\ (TimeSlice /\ UNCHANGED pc) \/ (Exit /\ pc' = [pc EXCEPT ![Io] = "ended"])
  BY DEF FindForEver, At, Serves
<1>2. \A c \in Client : late'[c] >= late[c] /\ c # Io /\ c \in Thread
  BY <1>1, Ages, Cast DEF Place
<1>3. CASE TimeSlice /\ UNCHANGED pc
  <2>1. UNCHANGED <<Live, Boxes, slot, links>>
    BY <1>3, SliceEffect
  <2>2. Typed'
    BY <1>1, <1>3, <2>1 DEF Place, Typed
  <2>3. Routine'
    BY <1>1, <1>3, <2>1 DEF Place, Routine, Serves, Post, PostNo
  <2>4. ~Serves'
    BY <1>1, <1>3 DEF Serves
  <2> QED BY <1>1, <1>2, <1>3, <2>1, <2>2, <2>3, <2>4, IoTurn, TimeGoesBy
<1>4. CASE Exit /\ pc' = [pc EXCEPT ![Io] = "ended"]
  <2>1. /\ Live' = Live \ {Io} /\ Boxes'[Io] = <<>> /\ links' = [links EXCEPT ![Io] = NoThread]
        /\ \A c \in Client : Boxes'[c] = Boxes[c] /\ slot'[c] = slot[c]
    <3>1. links[Cur] = NoThread
      BY <1>1, Cast DEF Place, Typed
    <3> QED BY <1>1, <1>2, <1>4, <3>1, EndEffect
  <2>2. /\ pc' \in [Thread -> SleeperPlace \cup ClientPlace] /\ pc'[Io] = "ended"
        /\ \A c \in Client : pc'[c] = pc[c]
    BY <1>2, <1>4, Cast DEF Place, Typed, SleeperPlace
  <2>3. ~Serves'
    BY <2>2 DEF Serves
  <2>4. Typed'
    <3>1. links' = links
      BY <2>1, Cast DEF Place, Typed
    <3>2. pc'[Io] \in SleeperPlace
      BY <2>2 DEF SleeperPlace
    <3> QED BY <1>1, <2>2, <3>1, <3>2 DEF Place, Typed
  <2>5. PostNo' = {}
    BY <2>1 DEF PostNo, Post
  <2>6. Routine'
    <3>1. slot'[Io] # "cont"
      BY <1>1, <1>4, IoTurn, Cast DEF Exit, DropDelivering, Place, Typed, Inv, TypeOK
    <3> QED BY <2>2, <2>3, <2>5, <3>1 DEF Routine
  <2>7. /\ \A c \in Client : Young(c)' <=> Young(c)
        /\ \A c \in Client : HasBed(c)' <=> HasBed(c)
    BY <1>1, <2>1, <2>2 DEF Waits, Hopes, Young, HasBed, BedNo
  <2>8. Fresh'
    BY <1>1, <2>1, <2>2, <2>5, <2>7, FreshKept DEF Place
  <2>9. Roused'
    BY <1>1, <1>2, <2>1, <2>2, <2>3, <2>4, RousedKept DEF Place
  <2>10. Turns'
    BY <1>1, <1>2, <2>1, <2>2, IoTurn DEF Place, Turns
  <2> QED BY <2>3, <2>4, <2>6, <2>8, <2>9, <2>10 DEF Place, Clocked
<1> QED BY <1>1, <1>3, <1>4

------------------------------------------------------------------------------
(* The rounds.                                                             *)

\* A sleeper that is in no run list waits for the first request: no one else
\* is waiting for it.
LEMMA NobodyHopes ==
    ASSUME Inv, Place, Clocked, Serves, Io \notin Runnable
    PROVE  \A c \in Client : ~Waits(c)
<1>1. slot[Io] = "cont" /\ Io \in Waiting
  BY DEF Place, Routine, Live, Waiting
<1>2. ls = <<>> /\ Post = <<>>
  BY <1>1, BoxType DEF Place, Routine, Post
<1>3. BedNo = {} /\ PostNo = {}
  BY <1>2 DEF BedNo, PostNo
<1>4. PICK f : Timed(f)
  BY DEF Clocked
<1> QED BY <1>3, <1>4 DEF Timed, InTime, Hopes

LEMMA RoundKeeps ==
    ASSUME Inv, Inv', Place, Clocked, Round, UNCHANGED <<held, forks, sent>>
    PROVE  Place' /\ Clocked'
<1>1. /\ todo = <<>> /\ NewRound
      /\ age' = [t \in Thread |-> IF Serves /\ t \in Asleep \cap Waiting
                                  THEN age[t] + 1 ELSE age[t]]
      /\ UNCHANGED <<pc, ls, rounds, count, want, late>>
  BY DEF Round, NewRound
<1>2. UNCHANGED <<Live, Boxes, slot, links>> /\ Away' = 0
  BY <1>1, RoundEffect
<1>3. /\ age' \in [Thread -> Nat]
      /\ \A c \in Client : ~Waits(c) => age'[c] = age[c]
      /\ \A c \in Client : Serves /\ Waits(c) => age'[c] = age[c] + 1
  BY <1>1, Cast DEF Place, Typed, Asleep, Waiting, Waits
<1>4. Typed'
  BY <1>1, <1>2, <1>3 DEF Place, Typed
<1>5. Routine'
  BY <1>1, <1>2 DEF Place, Routine, Serves, Post, PostNo
<1>6. Serves' = Serves /\ \A c \in Client : pc[c] # "asks" /\ late'[c] >= late[c]
  BY <1>1, Ages DEF Place, Turns, Serves
<1>7. ASSUME NEW c \in Client, Serves, Waits(c) PROVE Steady(c)
  <2>1. Io \in Runnable
    BY <1>7, NobodyHopes
  <2>2. Away = 1
    BY <1>1, <2>1 DEF Runnable, Away, Ids
  <2>3. age[c] \in Nat /\ late[c] \in Nat
    BY Ages DEF Place
  <2>4. Left' = Left /\ Passed' = Passed /\ Left \in Nat /\ Passed \in Nat
    BY <1>1, Numbers DEF Left, Passed, Place
  <2>5. age'[c] = age[c] + 1 /\ late'[c] = late[c]
    BY <1>1, <1>3, <1>7
  <2> QED BY <1>2, <2>2, <2>3, <2>4, <2>5 DEF Steady
<1> QED BY <1>1, <1>2, <1>3, <1>4, <1>5, <1>6, <1>7, TimeGoesBy

\* The end of all threads, and a client that computes.
LEMMA IdleKeeps ==
    ASSUME Inv, Inv', Place, Clocked, Work \/ Halt, UNCHANGED <<held, forks, sent>>
    PROVE  Place' /\ Clocked'
<1>1. /\ DoSchedule /\ UNCHANGED <<pc, ls, rounds, count, want, age, late>>
      /\ \/ TimeSlice /\ todo # <<>> /\ Cur \in Client /\ pc[Cur] = "awake"
         \/ HaltThreadController /\ todo = <<>> /\ UNCHANGED done
  BY DEF Work, Halt, DoSchedule, HaltThreadController, sleeperVars
<1>2. /\ UNCHANGED <<Live, Boxes, slot, links>> /\ Away' = Away
      /\ \A c \in Client : pc[c] # "asks"
  BY <1>1, ScheduleEffect, SliceEffect, Cast DEF Place, Turns, Away
<1>3. Typed'
  BY <1>1, <1>2 DEF Place, Typed
<1>4. Routine'
  BY <1>1, <1>2 DEF Place, Routine, Serves, Post, PostNo
<1>5. ASSUME NEW c \in Client PROVE Steady(c) /\ late'[c] >= late[c]
  <2>1. age[c] \in Nat /\ late[c] \in Nat /\ late[c] >= late[c] /\ Away \in {0, 1}
    BY Ages, Numbers DEF Place
  <2>2. Left' = Left /\ Passed' = Passed /\ Left \in Nat /\ Passed \in Nat
    BY <1>1, Numbers DEF Left, Passed, Place
  <2> QED BY <1>1, <1>2, <2>1, <2>2 DEF Steady
<1> QED BY <1>1, <1>2, <1>3, <1>4, <1>5, TimeGoesBy DEF Serves

------------------------------------------------------------------------------
(* The turns of the clients.                                               *)

\* Nothing of the list, the requests and the clock changes.
LEMMA SameClock ==
    ASSUME Typed, Typed', Routine, Routine', UNCHANGED <<ls, rounds, age, late, Away>>,
           pc'[Io] = pc[Io]
    PROVE  \A c \in Client : Steady(c)
<1> SUFFICES ASSUME NEW c \in Client PROVE Steady(c)
  OBVIOUS
<1>1. age[c] \in Nat /\ late[c] \in Nat
  BY Ages
<1>2. Left' = Left /\ Passed' = Passed /\ Left \in Nat /\ Passed \in Nat /\ Away \in {0, 1}
  BY Numbers DEF Left, Passed
<1> QED BY <1>1, <1>2 DEF Steady

LEMMA FallAsleepKeeps ==
    ASSUME Inv, Inv', Place, Clocked, FallAsleep, UNCHANGED <<held, forks, sent>>
    PROVE  Place' /\ Clocked'
<1>1. /\ todo # <<>> /\ Cur \in Client /\ pc[Cur] = "asks" /\ DoLook /\ UNCHANGED done
      /\ TakeMail \/ WaitMail
      /\ pc' = [pc EXCEPT ![Cur] = "asleep"]
      /\ UNCHANGED <<ls, rounds, count, want, age, late>>
  BY DEF FallAsleep, DoLook, TakeMail, WaitMail
<1>2. PICK me \in Client : me = Cur
  BY <1>1
<1>3. /\ me \in Thread /\ me # Io /\ me \in Live /\ \A c \in Client : c \in Thread /\ c # Io
      /\ Io \in Thread
  BY <1>1, <1>2, Cast, Running
<1>4. /\ UNCHANGED <<Live, Boxes, links>> /\ Away' = Away
      /\ \A t \in Thread \ {me} : slot'[t] = slot[t]
  BY <1>1, <1>2, LookEffect DEF Away
<1>5. /\ pc' \in [Thread -> SleeperPlace \cup ClientPlace]
      /\ pc'[me] = "asleep" /\ pc[me] = "asks"
      /\ \A t \in Thread \ {me} : pc'[t] = pc[t]
      /\ \A c \in Client \ {me} : pc[c] # "asks"
  BY <1>1, <1>2, <1>3 DEF Place, Typed, ClientPlace, Turns
<1>6. Typed'
  <2>1. \A c \in Client : pc'[c] \in ClientPlace
    BY <1>3, <1>5 DEF Place, Typed, ClientPlace
  <2> QED BY <1>1, <1>3, <1>4, <1>5, <2>1 DEF Place, Typed
<1>7. Routine'
  BY <1>1, <1>3, <1>4, <1>5 DEF Place, Routine, Serves, Post, PostNo
<1>8. /\ Serves' = Serves /\ Post' = Post /\ PostNo' = PostNo
      /\ \A c \in Client : Hopes(c)' => Hopes(c)
      /\ \A c \in Client : Young(c)' => Young(c)
      /\ \A c \in Client : HasBed(c)' <=> HasBed(c)
      /\ \A c \in Client : pc'[c] # "asks"
      /\ \A c \in Client : Waits(c)' => Waits(c) \/ c = me
  BY <1>1, <1>3, <1>4, <1>5 DEF Serves, Post, PostNo, Waits, Hopes, Young, HasBed, BedNo
<1>9. Fresh'
  BY <1>1, <1>4, <1>8, FreshKept DEF Place
<1>10. Turns'
  BY <1>3, <1>4, <1>5, <1>8 DEF Place, Turns
<1>11. slot'[me] # "cont" => count[me] # 1
  <2> SUFFICES ASSUME slot'[me] # "cont", count[me] = 1 PROVE FALSE
    OBVIOUS
  <2>1. TakeMail
    BY <1>1, <1>2, <1>3 DEF WaitMail, Inv, TypeOK
  <2>2. inbox[me] # <<>> /\ inbox[me] \in Seq(Envelope)
    BY <1>2, <1>3, <2>1 DEF TakeMail, Inv, TypeOK
  <2>3. Boxes[me] = GivenOf(todo, done, me) \o inbox[me]
    BY <1>3, BoxesAre
  <2>4. GivenOf(todo, done, me) \in Seq(Envelope)
    BY InvProper, GivenOfType, GivenType
  <2>5. Boxes[me] # <<>>
    <3> DEFINE g == GivenOf(todo, done, me)
               b == inbox[me]
    <3>1. g \in Seq(Envelope) /\ b \in Seq(Envelope) /\ b # <<>>
      BY <2>2, <2>4
    <3> HIDE DEF g, b
    <3>2. g \o b # <<>>
      BY <3>1
    <3> QED BY <2>3, <3>2 DEF g, b
  <2> QED BY <1>5, <2>5 DEF Place, Fresh, Young, Hopes
<1>12. Roused'
  <2>1. ASSUME NEW c \in Client, pc'[c] = "asleep", slot'[c] # "cont"
        PROVE  /\ count'[c] = 1 => age'[c] >= want'[c]
               /\ Serves' => age'[c] <= want'[c] + late'[c]
    <3>1. CASE c = me
      <4>1. age[c] = 0 /\ want[c] \in Nat /\ late[c] \in Nat /\ count[c] # 1
        BY <1>5, <1>11, <2>1, <3>1, Ages DEF Place, Turns
      <4>2. 0 <= want[c] + late[c]
        BY <4>1
      <4> QED BY <1>1, <4>1, <4>2
    <3>2. CASE c # me
      BY <1>1, <1>3, <1>4, <1>5, <1>8, <2>1, <3>2 DEF Place, Roused
    <3> QED BY <3>1, <3>2
  <2> QED BY <2>1 DEF Roused
<1>13. \A c \in Client : Steady(c)
  BY <1>1, <1>3, <1>4, <1>5, <1>6, <1>7, SameClock DEF Place
<1>14. \A c \in Client : Waits(c)' /\ count[c] = 1 => Waits(c) \/ ~HasBed(c)
  BY <1>5, <1>8 DEF Place, Fresh
<1>15. Clocked'
  BY <1>1, <1>6, <1>7, <1>8, <1>13, <1>14, ClockKept DEF Place
<1> QED BY <1>6, <1>7, <1>9, <1>10, <1>12, <1>15 DEF Place

LEMMA WakeUpKeeps ==
    ASSUME Inv, Inv', Place, Clocked, WakeUp, UNCHANGED <<held, forks, sent>>
    PROVE  Place' /\ Clocked'
<1>1. /\ todo # <<>> /\ Cur \in Client /\ pc[Cur] = "asleep" /\ Consume
      /\ UNCHANGED <<done, slot>>
      /\ pc' = [pc EXCEPT ![Cur] = "awake"]
      /\ UNCHANGED <<ls, rounds, count, want, age, late>>
  BY DEF WakeUp, Asleep, Consume
<1>2. PICK me \in Client : me = Cur
  BY <1>1
<1>3. /\ me \in Thread /\ me # Io /\ slot[me] # "cont" /\ \A c \in Client : c \in Thread /\ c # Io
      /\ Io \in Thread
  BY <1>1, <1>2, Cast, Running
<1>4. /\ UNCHANGED <<Live, links>> /\ Away' = Away
      /\ \A t \in Thread \ {me} : Boxes'[t] = Boxes[t]
      /\ Boxes[me] # <<>>
  <2>1. /\ UNCHANGED <<Live, links>> /\ Boxes' = [Boxes EXCEPT ![me] = Tail(@)] /\ Boxes[me] # <<>>
    BY <1>1, <1>2, ConsumeBoxes
  <2>2. Boxes \in [Thread -> Seq(Envelope)]
    BY BoxType
  <2> QED BY <1>1, <2>1, <2>2 DEF Away
<1>5. /\ pc' \in [Thread -> SleeperPlace \cup ClientPlace]
      /\ pc'[me] = "awake" /\ pc[me] = "asleep"
      /\ \A t \in Thread \ {me} : pc'[t] = pc[t]
      /\ \A c \in Client : pc[c] # "asks"
  BY <1>1, <1>2, <1>3 DEF Place, Typed, ClientPlace, Turns
<1>6. Typed'
  <2>1. \A c \in Client : pc'[c] \in ClientPlace
    BY <1>3, <1>5 DEF Place, Typed, ClientPlace
  <2> QED BY <1>1, <1>3, <1>4, <1>5, <2>1 DEF Place, Typed
<1>7. Routine'
  BY <1>1, <1>3, <1>4, <1>5 DEF Place, Routine, Serves, Post, PostNo
<1>8. count[me] # 0
  BY <1>4 DEF Place, Fresh, Young
<1>9. /\ Serves' = Serves /\ Post' = Post /\ PostNo' = PostNo
      /\ \A c \in Client : Hopes(c)' => Hopes(c)
      /\ \A c \in Client : Young(c)' => Young(c) /\ c # me
      /\ \A c \in Client : HasBed(c)' <=> HasBed(c)
      /\ \A c \in Client : pc'[c] # "asks"
      /\ \A c \in Client : Waits(c)' => Waits(c)
  BY <1>1, <1>3, <1>4, <1>5, <1>8 DEF Serves, Post, PostNo, Waits, Hopes, Young, HasBed, BedNo
<1>10. Fresh'
  BY <1>1, <1>3, <1>4, <1>9, FreshKept DEF Place
<1>11. Turns'
  BY <1>3, <1>4, <1>5, <1>9 DEF Place, Turns
<1>12. Roused'
  <2>1. \A c \in Client : pc'[c] = "asleep" => pc[c] = "asleep"
    BY <1>3, <1>5
  <2>2. \A c \in Client : late'[c] >= late[c]
    BY <1>1, Ages DEF Place
  <2> QED BY <1>1, <1>6, <1>9, <2>1, <2>2, RousedKept DEF Place
<1>13. \A c \in Client : Steady(c)
  BY <1>1, <1>3, <1>4, <1>5, <1>6, <1>7, SameClock DEF Place
<1>14. Clocked'
  BY <1>1, <1>6, <1>7, <1>9, <1>13, ClockKept DEF Place
<1> QED BY <1>6, <1>7, <1>10, <1>11, <1>12, <1>14 DEF Place

LEMMA ClientEndsKeeps ==
    ASSUME Inv, Inv', Place, Clocked, ClientEnds, UNCHANGED <<held, forks, sent>>
    PROVE  Place' /\ Clocked'
<1>1. /\ todo # <<>> /\ Cur \in Client /\ pc[Cur] = "awake" /\ Exit
      /\ pc' = [pc EXCEPT ![Cur] = "ended"]
      /\ UNCHANGED <<ls, rounds, count, want, age, late>>
  BY DEF ClientEnds
<1>2. PICK me \in Client : me = Cur
  BY <1>1
<1>3. /\ me \in Thread /\ me # Io /\ slot[me] # "cont" /\ \A c \in Client : c \in Thread /\ c # Io
      /\ Io \in Thread /\ links[me] = NoThread
  BY <1>1, <1>2, Cast, Running DEF Place, Typed
<1>4. /\ Live' = Live \ {me} /\ Boxes'[me] = <<>> /\ links' = links /\ Away' = Away
      /\ \A t \in Thread \ {me} : Boxes'[t] = Boxes[t] /\ slot'[t] = slot[t]
  <2>1. /\ Live' = Live \ {me} /\ Boxes'[me] = <<>> /\ links' = [links EXCEPT ![me] = NoThread]
        /\ \A t \in Thread \ {me} : Boxes'[t] = Boxes[t] /\ slot'[t] = slot[t]
    BY <1>1, <1>2, <1>3, EndEffect
  <2>2. done' = done
    BY <1>1, <1>2, <1>3 DEF Exit, DropDelivering
  <2>3. links' = links
    BY <1>3, <2>1 DEF Inv, TypeOK
  <2> QED BY <2>1, <2>2, <2>3 DEF Away
<1>5. /\ pc' \in [Thread -> SleeperPlace \cup ClientPlace]
      /\ pc'[me] = "ended" /\ pc[me] = "awake"
      /\ \A t \in Thread \ {me} : pc'[t] = pc[t]
      /\ \A c \in Client : pc[c] # "asks"
  BY <1>1, <1>2, <1>3 DEF Place, Typed, ClientPlace, Turns
<1>6. Typed'
  <2>1. \A c \in Client : pc'[c] \in ClientPlace
    BY <1>3, <1>5 DEF Place, Typed, ClientPlace
  <2> QED BY <1>1, <1>3, <1>4, <1>5, <2>1 DEF Place, Typed
<1>7. Routine'
  BY <1>1, <1>3, <1>4, <1>5 DEF Place, Routine, Serves, Post, PostNo
<1>8. /\ Serves' = Serves /\ Post' = Post /\ PostNo' = PostNo
      /\ \A c \in Client : Waits(c)' => Waits(c)
      /\ \A c \in Client : Hopes(c)' => Hopes(c)
      /\ \A c \in Client : Young(c)' => Young(c)
      /\ \A c \in Client : HasBed(c)' <=> HasBed(c)
      /\ \A c \in Client : pc'[c] # "asks"
  BY <1>1, <1>3, <1>4, <1>5 DEF Serves, Post, PostNo, Waits, Hopes, Young, HasBed, BedNo
<1>9. Fresh'
  <2>1. Young(me) => Boxes[me] = <<>>
    BY DEF Place, Fresh
  <2> QED BY <1>1, <1>3, <1>4, <1>8, <2>1, FreshKept DEF Place
<1>10. Turns'
  BY <1>3, <1>4, <1>5, <1>8 DEF Place, Turns
<1>11. Roused'
  <2>1. \A c \in Client : pc'[c] = "asleep" => pc[c] = "asleep" /\ slot'[c] = slot[c]
    BY <1>3, <1>4, <1>5
  <2>2. \A c \in Client : late'[c] >= late[c]
    BY <1>1, Ages DEF Place
  <2> QED BY <1>1, <1>6, <1>8, <2>1, <2>2, RousedKept DEF Place
<1>12. \A c \in Client : Steady(c)
  BY <1>1, <1>3, <1>4, <1>5, <1>6, <1>7, SameClock DEF Place
<1>13. Clocked'
  BY <1>1, <1>6, <1>7, <1>8, <1>12, ClockKept DEF Place
<1> QED BY <1>6, <1>7, <1>9, <1>10, <1>11, <1>13 DEF Place

\* The request of (sleep n).
LEMMA SleepKeeps ==
    ASSUME Inv, Inv', Place, Clocked, NEW n \in Duration, Sleep(n), UNCHANGED <<held, forks, sent>>
    PROVE  Place' /\ Clocked'
<1> DEFINE wish == IF n = NotFixnum THEN Fixed ELSE n
<1>1. /\ todo # <<>> /\ Cur \in Client /\ pc[Cur] = "awake" /\ Mail(Io, n)
      /\ pc' = [pc EXCEPT ![Cur] = "asks"]
      /\ count' = [count EXCEPT ![Cur] = @ + 1]
      /\ want' = [want EXCEPT ![Cur] = wish]
      /\ age' = [age EXCEPT ![Cur] = 0]
      /\ late' = [late EXCEPT ![Cur] = Left + Away]
      /\ UNCHANGED <<ls, rounds>>
  BY DEF Sleep, Left, Away
<1>2. PICK me \in Client : me = Cur
  BY <1>1
<1> DEFINE env == [from |-> me, msg |-> n]
<1>3. /\ me \in Thread /\ me # Io /\ me \in Live /\ slot[me] # "cont"
      /\ \A c \in Client : c \in Thread /\ c # Io
      /\ Io \in Thread /\ n \in 0..MaxMail /\ n \in Nat /\ wish \in Nat
      /\ env \in Envelope /\ Asks(env) = wish /\ env.from = me
  BY <1>1, <1>2, Cast, Running DEF Envelope, Asks
<1> HIDE DEF env, wish
<1>4. /\ UNCHANGED <<Live, links>> /\ Away' = Away
      /\ \A t \in Thread \ {Io} : Boxes'[t] = Boxes[t] /\ slot'[t] = slot[t]
      /\ Boxes' = IF Io \in Open THEN [Boxes EXCEPT ![Io] = Append(@, env)] ELSE Boxes
      /\ Boxes \in [Thread -> Seq(Envelope)]
      /\ slot'[Io] # "cont" /\ (slot'[Io] = "none" => slot[Io] = "none")
      /\ todo' # <<>> /\ Cur' = me
  <2>1. UNCHANGED done
    BY <1>1 DEF Mail
  <2>2. slot' = SlotAfter(slot, Io) /\ slot \in [Thread -> {"none", "inbox", "cont"}]
    BY <1>1 DEF Mail, Inv, TypeOK
  <2> QED BY <1>1, <1>2, <1>3, <2>1, <2>2, MailBoxes, MailSlots, MailEffect, BoxType DEF Away, SlotAfter, env
<1>5. /\ pc' \in [Thread -> SleeperPlace \cup ClientPlace]
      /\ pc'[me] = "asks" /\ pc[me] = "awake"
      /\ \A t \in Thread \ {me} : pc'[t] = pc[t]
      /\ \A c \in Client \ {me} : pc'[c] # "asks"
  BY <1>1, <1>2, <1>3 DEF Place, Typed, ClientPlace, Turns
<1>6. /\ Left \in Nat /\ Passed \in Nat /\ Away \in Nat /\ Left + Away \in Nat
      /\ Left' = Left /\ Passed' = Passed
  <2>1. Left \in Nat /\ Passed \in Nat /\ Away \in {0, 1}
    BY Numbers DEF Place
  <2>2. Left' = Left /\ Passed' = Passed
    BY <1>1, <1>3, <1>5 DEF Left, Passed
  <2> QED BY <2>1, <2>2
<1>7. /\ count' \in [Thread -> Nat] /\ want' \in [Thread -> Nat]
      /\ age' \in [Thread -> Nat] /\ late' \in [Thread -> Nat]
      /\ count'[me] = count[me] + 1 /\ want'[me] = wish /\ age'[me] = 0 /\ late'[me] = Left + Away
      /\ \A c \in Client \ {me} : /\ count'[c] = count[c] /\ want'[c] = want[c]
                                /\ age'[c] = age[c] /\ late'[c] = late[c]
  BY <1>1, <1>2, <1>3, <1>6 DEF Place, Typed
<1>8. Typed'
  <2>1. \A c \in Client : pc'[c] \in ClientPlace
    BY <1>3, <1>5 DEF Place, Typed, ClientPlace
  <2> QED BY <1>1, <1>3, <1>4, <1>5, <1>7, <2>1 DEF Place, Typed
<1>9. /\ \A i \in PostNo : i \in PostNo' /\ Post'[i] = Post[i]
      /\ \A i \in PostNo' : (i \in PostNo /\ Post'[i] = Post[i]) \/ Post'[i] = env
      /\ Io \in Open => \E i \in PostNo' : Post'[i] = env
  <2>1. Post \in Seq(Envelope)
    BY <1>3, <1>4 DEF Post
  <2>2. CASE Io \in Open
    <3>1. Post' = Append(Post, env)
      BY <1>3, <1>4, <2>2 DEF Post
    <3>2. Len(Post') = Len(Post) + 1 /\ Len(Post) \in Nat
      BY <2>1, <3>1
    <3> QED BY <2>1, <3>1, <3>2 DEF PostNo
  <2>3. CASE Io \notin Open
    BY <1>4, <2>3 DEF Post, PostNo
  <2> QED BY <2>2, <2>3
<1>10. Serves' = Serves /\ (Serves => Io \in Open)
  BY <1>1, <1>3, <1>5 DEF Serves, Place, Routine, Open
<1>11. Routine'
  <2>1. \A i \in PostNo' : Post'[i].from \in Client
    BY <1>3, <1>9 DEF Place, Routine
  <2>2. Serves' => Io \in Live' /\ slot'[Io] # "none"
    BY <1>4, <1>10 DEF Place, Routine
  <2>3. pc'[Io] = "sleep-for" => ls' # <<>> /\ rounds' <= Head(ls').n
    BY <1>1, <1>3, <1>5 DEF Place, Routine
  <2> QED BY <1>4, <2>1, <2>2, <2>3 DEF Routine
<1>12. Turns'
  <2>1. ASSUME NEW c \in Client
        PROVE  /\ pc'[c] = "asks" => todo' # <<>> /\ Cur' = c /\ age'[c] = 0
               /\ pc'[c] = "asleep" => c \in Live'
    <3>1. CASE c = me
      BY <1>4, <1>5, <1>7, <3>1
    <3>2. CASE c # me
      BY <1>3, <1>4, <1>5, <3>2 DEF Place, Turns
    <3> QED BY <3>1, <3>2
  <2> QED BY <2>1 DEF Turns
<1>13. /\ \A c \in Client \ {me} : Waits(c)' <=> Waits(c)
       /\ \A c \in Client \ {me} : Hopes(c)' <=> Hopes(c)
       /\ \A c \in Client \ {me} : Young(c)' <=> Young(c)
       /\ \A c \in Client : HasBed(c)' <=> HasBed(c)
       /\ ~Waits(me)'
       /\ Young(me)' => count[me] = 0
  <2>1. \A k \in Nat : k + 1 # 0 /\ (k + 1 = 1 => k = 0)
    OBVIOUS
  <2>2. count[me] \in Nat
    BY <1>3 DEF Place, Typed
  <2>3. Young(me)' => count[me] = 0
    BY <1>7, <2>1, <2>2 DEF Young
  <2>4. \A c \in Client \ {me} : Waits(c)' <=> Waits(c)
    BY <1>3, <1>4, <1>5 DEF Waits
  <2>5. \A c \in Client \ {me} : Hopes(c)' <=> Hopes(c)
    BY <1>3, <1>5, <2>4 DEF Hopes
  <2> QED BY <1>1, <1>3, <1>5, <1>7, <2>3, <2>4, <2>5 DEF Waits, Young, HasBed, BedNo
<1>14. Fresh'
  <2>0. \A e : (e = env => Asks(e) = want'[me]) /\ env.from = me
    BY <1>3, <1>7
  <2>1. ASSUME NEW c \in Client, c # me
        PROVE  /\ Young(c)' => /\ Boxes'[c] = <<>>
                               /\ \A i \in PostNo' : Post'[i].from = c => Asks(Post'[i]) = want'[c]
               /\ count'[c] = 0 => ~HasRequest(c)' /\ ~HasBed(c)'
               /\ count'[c] = 1 /\ pc'[c] = "asks" => ~HasBed(c)'
    <3>1. \A i \in PostNo' : Post'[i].from = c => i \in PostNo /\ Post'[i] = Post[i]
      BY <1>9, <2>0, <2>1
    <3>2. HasRequest(c)' => HasRequest(c)
      BY <3>1 DEF HasRequest
    <3>3. Young(c)' => Young(c) /\ Boxes'[c] = <<>>
      BY <1>3, <1>4, <1>13, <2>1 DEF Place, Fresh
    <3>4. want'[c] = want[c] /\ count'[c] = count[c] /\ pc'[c] = pc[c]
      BY <1>3, <1>5, <1>7, <2>1
    <3>5. ASSUME NEW i \in PostNo', Post'[i].from = c, Young(c)' PROVE Asks(Post'[i]) = want'[c]
      BY <3>1, <3>3, <3>4, <3>5 DEF Place, Fresh
    <3> QED BY <1>13, <3>2, <3>3, <3>4, <3>5 DEF Place, Fresh
  <2>2. ASSUME Young(me)'
        PROVE  /\ Boxes'[me] = <<>>
               /\ \A i \in PostNo' : Post'[i].from = me => Asks(Post'[i]) = want'[me]
    <3>1. count[me] = 0
      BY <1>13, <2>2
    <3>2. Boxes'[me] = <<>> /\ ~HasRequest(me)
      BY <1>3, <1>4, <3>1 DEF Place, Fresh, Young
    <3>3. \A i \in PostNo' : Post'[i].from = me => Post'[i] = env
      BY <1>9, <3>2 DEF HasRequest
    <3> QED BY <2>0, <3>2, <3>3
  <2>3a. count[me] \in Nat
    BY <1>3 DEF Place, Typed
  <2>3. count'[me] # 0
    BY <1>7, <2>3a
  <2>4. count'[me] = 1 => ~HasBed(me)'
    <3>1. count'[me] = 1 => count[me] = 0
      BY <1>7, <2>3a
    <3> QED BY <1>13, <3>1 DEF Place, Fresh
  <2> QED BY <2>1, <2>2, <2>3, <2>4 DEF Fresh, Asks
<1>15. Roused'
  BY <1>3, <1>4, <1>5, <1>7, <1>10 DEF Place, Roused
<1>16. Clocked'
  <2> SUFFICES ASSUME Serves' PROVE \E f : (Dues(ls, f) /\ Timed(f))'
    BY DEF Clocked
  <2>1. PICK f : Dues(ls, f) /\ Timed(f)
    BY <1>10 DEF Clocked
  <2>2. Dues(ls, f)' /\ BedNo' = BedNo
    BY <1>1, <2>1 DEF Dues, BedNo
  <2>3. ASSUME NEW c \in Client, count'[c] = 1, Waits(c)' PROVE Whole(c, f)'
    <3>1. c # me /\ Whole(c, f)
      BY <1>7, <1>13, <2>1, <2>3 DEF Timed
    <3> QED BY <1>1, <1>4, <1>6, <1>7, <2>2, <3>1 DEF Whole
  <2>4. ASSUME NEW c \in Client, Hopes(c)' PROVE InTime(c, f)'
    <3>1. CASE c = me
      <4>1. PICK i \in PostNo' : Post'[i] = env
        BY <1>9, <1>10
      <4>2. age'[me] + Left' + Away' <= late'[me]
        BY <1>4, <1>6, <1>7
      <4> QED BY <1>3, <1>7, <3>1, <4>1, <4>2 DEF InTime, Asks
    <3>2. CASE c # me
      <4>1. InTime(c, f)
        BY <1>13, <2>1, <2>4, <3>2 DEF Timed
      <4>2. CASE \E i \in BedNo : /\ ls[i].id = c
                                 /\ age[c] + f[i] + Away <= want[c] + late[c] + Passed
        BY <1>1, <1>4, <1>6, <1>7, <2>2, <3>2, <4>2 DEF InTime
      <4>3. CASE \E i \in PostNo : /\ Post[i].from = c /\ Asks(Post[i]) = want[c]
                                  /\ age[c] + Left + Away <= late[c]
        BY <1>4, <1>6, <1>7, <1>9, <3>2, <4>3 DEF InTime, Asks
      <4> QED BY <4>1, <4>2, <4>3 DEF InTime
    <3> QED BY <3>1, <3>2
  <2> QED BY <2>2, <2>3, <2>4 DEF Timed
<1> QED BY <1>8, <1>11, <1>12, <1>14, <1>15, <1>16 DEF Place

------------------------------------------------------------------------------
(* The beds one by one.                                                    *)

LEMMA BedsAre ==
    ASSUME NEW beds \in Seq(Bed)
    PROVE  \A i \in 1..Len(beds) : /\ beds[i] \in Bed
                                   /\ beds[i].n \in Nat /\ beds[i].id \in Client
<1>1. \A i \in 1..Len(beds) : beds[i] \in Bed
  OBVIOUS
<1> QED BY <1>1 DEF Bed

\* Who is behind the first bed is not due before it.
LEMMA DuesGrow ==
    ASSUME NEW beds \in Seq(Bed), NEW f, Dues(beds, f)
    PROVE  \A i \in 1..Len(beds) : f[i] \in Nat /\ f[i] >= f[1]
<1>1. /\ f \in [1..Len(beds) -> Nat] /\ Len(beds) \in Nat
      /\ \A i \in 1..Len(beds) : beds[i].n \in Nat
      /\ \A i \in 2..Len(beds) : f[i] = f[i - 1] + beds[i].n
  BY BedsAre DEF Dues
<1> DEFINE Early == {i \in Nat : i \in 1..Len(beds) /\ f[i] < f[1]}
<1>2. CASE Early # {}
  <2>1. PICK x \in Early : \A y \in Nat : y \in Early => ~ (y < x)
    <3> DEFINE R == OpToRel(<, Nat)
    <3>1. IsWellFoundedOn(R, Nat)
      BY NatLessThanWellFounded
    <3>2. \A x, y \in Nat : <<x, y>> \in R <=> x < y
      BY DEF OpToRel
    <3>3. Early \subseteq Nat
      OBVIOUS
    <3> HIDE DEF R, Early
    <3>4. PICK x \in Early : \A y \in Early : ~ (<<y, x>> \in R)
      BY <1>2, <3>1, <3>3, WFMin
    <3> QED BY <3>2, <3>3, <3>4
  <2>2. x \in 1..Len(beds) /\ x # 1 /\ f[x] < f[1]
    BY <1>1, <2>1
  <2>3. x \in 2..Len(beds) /\ x - 1 \in 1..Len(beds) /\ 1 \in 1..Len(beds) /\ x - 1 < x
    BY <1>1, <2>2
  <2>4. f[x] = f[x - 1] + beds[x].n /\ beds[x].n \in Nat
    BY <1>1, <2>3
  <2>5. f[x - 1] < f[1]
    <3>1. f[x] \in Nat /\ f[x - 1] \in Nat /\ f[1] \in Nat
      BY <1>1, <2>2, <2>3
    <3> QED BY <2>2, <2>4, <3>1
  <2>6. x - 1 \in Early
    BY <2>3, <2>5
  <2> QED BY <2>1, <2>3, <2>6
<1>3. CASE Early = {}
  <2>1. ASSUME NEW i \in 1..Len(beds) PROVE f[i] \in Nat /\ f[i] >= f[1]
    <3>0. i \in Nat /\ 1 \in 1..Len(beds)
      BY <1>1, <2>1
    <3>1. ~ (f[i] < f[1])
      BY <1>3, <2>1, <3>0
    <3>2. f[i] \in Nat /\ f[1] \in Nat
      BY <1>1, <2>1, <3>0
    <3> QED BY <3>1, <3>2
  <2> QED BY <2>1
<1> QED BY <1>2, <1>3

\* Without the first bed everyone else is due that much earlier.
LEMMA DuesOfTail ==
    ASSUME NEW beds \in Seq(Bed), beds # <<>>, NEW f, Dues(beds, f)
    PROVE  LET g == [i \in 1..Len(Tail(beds)) |-> f[i + 1] - f[1]]
           IN  /\ Tail(beds) \in Seq(Bed) /\ Dues(Tail(beds), g)
               /\ \A i \in 1..Len(Tail(beds)) :
                     /\ i + 1 \in 1..Len(beds) /\ Tail(beds)[i] = beds[i + 1]
                     /\ g[i] + f[1] = f[i + 1] /\ g[i] \in Nat
               /\ \A i \in 1..Len(beds) : i = 1 \/ (i - 1 \in 1..Len(Tail(beds)) /\ (i - 1) + 1 = i)
<1> DEFINE rest == Tail(beds)
           g == [i \in 1..Len(rest) |-> f[i + 1] - f[1]]
<1>1. /\ rest \in Seq(Bed) /\ Len(beds) \in Nat /\ Len(beds) >= 1
      /\ Len(rest) = Len(beds) - 1 /\ \A i \in 1..Len(rest) : rest[i] = beds[i + 1]
  OBVIOUS
<1> HIDE DEF rest
<1>2. \A i \in 1..Len(rest) : i + 1 \in 1..Len(beds) /\ i + 1 \in 2..Len(beds)
  BY <1>1
<1>3. \A i \in 1..Len(beds) : i = 1 \/ (i - 1 \in 1..Len(rest) /\ (i - 1) + 1 = i)
  BY <1>1
<1>4. \A i \in 1..Len(beds) : f[i] \in Nat /\ f[i] >= f[1]
  BY DuesGrow
<1>4a. /\ \A i \in 1..Len(beds) : beds[i].n \in Nat
       /\ \A i \in 2..Len(beds) : f[i] = f[i - 1] + beds[i].n
  BY BedsAre DEF Dues
<1>5. f[1] \in Nat
  BY <1>1, <1>4
<1>6. ASSUME NEW i \in 1..Len(rest) PROVE g[i] \in Nat /\ g[i] + f[1] = f[i + 1]
  <2>1. \A a, b \in Nat : a >= b => a - b \in Nat /\ (a - b) + b = a
    OBVIOUS
  <2> QED BY <1>2, <1>4, <1>5, <2>1
<1>7. Dues(rest, g)
  <2>1. g \in [1..Len(rest) -> Nat]
    BY <1>6
  <2>2. rest # <<>> => g[1] = rest[1].n
    <3>1. SUFFICES ASSUME rest # <<>> PROVE g[1] = rest[1].n
      OBVIOUS
    <3>2. 1 \in 1..Len(rest) /\ 2 \in 2..Len(beds)
      BY <1>1, <3>1
    <3>3. f[2] = f[1] + beds[2].n /\ rest[1] = beds[2] /\ beds[2].n \in Nat
      BY <1>1, <1>2, <1>4a, <3>2
    <3>4. g[1] = f[2] - f[1]
      BY <3>2
    <3> QED BY <1>5, <3>3, <3>4
  <2>3. ASSUME NEW i \in 2..Len(rest) PROVE g[i] = g[i - 1] + rest[i].n
    <3>1. i \in 1..Len(rest) /\ i - 1 \in 1..Len(rest) /\ (i - 1) + 1 = i
      BY <1>1, <2>3
    <3>2. i + 1 \in 2..Len(beds) /\ (i + 1) - 1 = i
      BY <1>2, <3>1
    <3>3. f[i + 1] = f[i] + beds[i + 1].n /\ rest[i] = beds[i + 1] /\ beds[i + 1].n \in Nat
      BY <1>1, <1>2, <1>4a, <3>1, <3>2
    <3>4. g[i] = f[i + 1] - f[1] /\ g[i - 1] = f[(i - 1) + 1] - f[1]
      BY <3>1
    <3>5. \A c, e, n \in Nat : (c + n) - e = (c - e) + n
      OBVIOUS
    <3>6. f[i] \in Nat
      BY <1>4, <1>2, <3>1
    <3>7. (f[i] + beds[i + 1].n) - f[1] = (f[i] - f[1]) + beds[i + 1].n
      BY <1>5, <3>3, <3>5, <3>6
    <3> HIDE DEF g
    <3> QED BY <3>1, <3>3, <3>4, <3>7
  <2> HIDE DEF g
  <2> QED BY <2>1, <2>2, <2>3 DEF Dues
<1> QED BY <1>1, <1>2, <1>3, <1>6, <1>7 DEF rest

\* The mail that wakes the first one.  Its bed was due: it has slept for as
\* long as it asked for, if all its beds were whole.
LEMMA WakeKeeps ==
    ASSUME Inv, Inv', Place, Clocked, Wake, UNCHANGED <<held, forks, sent>>
    PROVE  Place' /\ Clocked'
<1> DEFINE Next0 == ls' # <<>> /\ Head(ls').n = 0
<1>1. /\ todo # <<>> /\ Cur = Io /\ pc[Io] = "sleep-for" /\ rounds = 0
      /\ Mail(Head(ls).id, 1) /\ ls' = Tail(ls)
      /\ pc' = IF Next0 THEN pc ELSE [pc EXCEPT ![Io] = "sleeper"]
      /\ UNCHANGED <<rounds, count, want, age, late>>
  BY DEF Wake, At
<1>2. /\ ls \in Seq(Bed) /\ ls # <<>> /\ Head(ls) = ls[1] /\ ls[1] \in Bed /\ 1 \in BedNo
      /\ ls' \in Seq(Bed)
  BY <1>1 DEF Place, Typed, Routine, BedNo
<1>3. PICK to \in Client : to = Head(ls).id /\ to = ls[1].id
  BY <1>2 DEF Bed
<1>3a. PICK h \in Nat : h = Head(ls).n /\ h = ls[1].n
  BY <1>2 DEF Bed
<1>4. /\ to \in Thread /\ to # Io /\ Io \in Live /\ slot[Io] # "cont" /\ Io \in Thread /\ Away = 0
      /\ \A c \in Client : c \in Thread /\ c # Io
      /\ \A c \in Client : pc[c] # "asks"
      /\ Mail(to, 1)
  BY <1>1, <1>3, Cast, IoTurn
<1>5. /\ UNCHANGED <<Live, links>> /\ Away' = 0
      /\ \A t \in Thread \ {to} : Boxes'[t] = Boxes[t] /\ slot'[t] = slot[t]
      /\ slot'[to] # "cont"
      /\ slot[to] # "cont" => slot'[to] = slot[to]
  <2>1. UNCHANGED done
    BY <1>4 DEF Mail
  <2>2. slot[to] = "cont" => slot'[to] = "inbox"
    BY <1>4, MailEffect, Cast
  <2> QED BY <1>4, <2>1, <2>2, MailEffect, Cast DEF Away
<1>6. /\ pc' \in [Thread -> SleeperPlace \cup ClientPlace] /\ pc'[Io] \in {"sleeper", "sleep-for"}
      /\ \A c \in Client : pc'[c] = pc[c]
      /\ pc'[Io] = "sleep-for" => Next0
  BY <1>1, <1>4 DEF Place, Typed, SleeperPlace
<1>7. Typed'
  BY <1>1, <1>2, <1>5, <1>6 DEF Place, Typed, SleeperPlace
<1>8. Serves /\ Serves' /\ Post' = Post /\ PostNo' = PostNo
  BY <1>1, <1>4, <1>5, <1>6 DEF Serves, Post, PostNo
<1>9. Routine'
  <2>1. slot'[Io] = slot[Io]
    BY <1>4, <1>5
  <2>2. pc'[Io] = "sleep-for" => rounds' <= Head(ls').n
    BY <1>1, <1>6
  <2> QED BY <1>4, <1>5, <1>6, <1>8, <2>1, <2>2 DEF Place, Routine
<1>10. Passed = h /\ Left = 0 /\ Passed' = 0 /\ Left' = 0
  BY <1>1, <1>3a, <1>6 DEF Passed, Left
<1>11. PICK f : Dues(ls, f) /\ Timed(f)
  BY <1>8 DEF Clocked
<1>12. f[1] = h /\ \A i \in BedNo : f[i] \in Nat /\ f[i] >= h
  BY <1>2, <1>3a, <1>11, DuesGrow DEF Dues, BedNo
<1>12a. PICK g : g = [i \in 1..Len(Tail(ls)) |-> f[i + 1] - f[1]]
  OBVIOUS
<1>13. /\ Dues(ls', g)
       /\ \A i \in BedNo' : /\ i + 1 \in BedNo /\ ls'[i] = ls[i + 1]
                            /\ g[i] + h = f[i + 1] /\ g[i] \in Nat
       /\ \A i \in BedNo : i = 1 \/ (i - 1 \in BedNo' /\ (i - 1) + 1 = i)
  <2>1. BedNo' = 1..Len(Tail(ls)) /\ ls' = Tail(ls)
    BY <1>1 DEF BedNo
  <2> QED BY <1>2, <1>11, <1>12, <1>12a, <2>1, DuesOfTail DEF BedNo
<1>14. /\ \A c \in Client \ {to} : Waits(c)' <=> Waits(c)
       /\ \A c \in Client : Hopes(c)' => Waits(c) /\ c # to
       /\ \A c \in Client : Waits(c)' => Waits(c) /\ c # to
       /\ \A c \in Client : HasBed(c)' => HasBed(c)
       /\ \A c \in Client \ {to} : Young(c)' <=> Young(c)
  <2>1. \A c \in Client : HasBed(c)' => HasBed(c)
    BY <1>13 DEF HasBed
  <2> QED BY <1>1, <1>4, <1>5, <1>6, <2>1 DEF Waits, Hopes, Young
<1>15. count[to] # 0
  <2>1. HasBed(to)
    BY <1>2, <1>3 DEF HasBed
  <2> QED BY <2>1 DEF Place, Fresh
<1>16. Fresh'
  <2>1. ~Young(to)'
    BY <1>1, <1>14, <1>15 DEF Young
  <2>2. \A c \in Client : Young(c)' => Young(c) /\ Boxes'[c] = Boxes[c]
    BY <1>4, <1>5, <1>14, <2>1
  <2> QED BY <1>1, <1>4, <1>6, <1>8, <1>14, <2>2, FreshKept DEF Place
<1>17. Turns'
  BY <1>4, <1>5, <1>6 DEF Place, Turns
<1>18. Waits(to) => /\ count[to] = 1 => age[to] >= want[to]
                    /\ age[to] <= want[to] + late[to]
  <2> SUFFICES ASSUME Waits(to)
               PROVE  /\ count[to] = 1 => age[to] >= want[to]
                      /\ age[to] <= want[to] + late[to]
    OBVIOUS
  <2>1. age[to] \in Nat /\ want[to] \in Nat /\ late[to] \in Nat
    BY Ages DEF Place
  <2>2. count[to] = 1 => age[to] >= want[to]
    <3>1. SUFFICES ASSUME count[to] = 1 PROVE age[to] >= want[to]
      OBVIOUS
    <3>2. age[to] + f[1] + Away >= want[to] + Passed
      BY <1>2, <1>3, <1>11, <3>1 DEF Timed, Whole
    <3>3. \A a, w, n \in Nat : a + n + 0 >= w + n => a >= w
      OBVIOUS
    <3> QED BY <1>4, <1>10, <1>12, <2>1, <3>2, <3>3
  <2>3. InTime(to, f)
    BY <1>11 DEF Timed, Hopes
  <2>4. \A a, w, l, n, d \in Nat :
           /\ a + 0 + 0 <= l => a <= w + l
           /\ d >= n /\ a + d + 0 <= w + l + n => a <= w + l
    OBVIOUS
  <2> QED BY <1>4, <1>10, <1>12, <2>1, <2>2, <2>3, <2>4 DEF InTime
<1>19. Roused'
  <2>1. ASSUME NEW c \in Client, pc'[c] = "asleep", slot'[c] # "cont"
        PROVE  /\ count'[c] = 1 => age'[c] >= want'[c]
               /\ Serves' => age'[c] <= want'[c] + late'[c]
    <3>1. CASE Waits(c)
      <4>1. c = to
        BY <1>4, <1>5, <2>1, <3>1 DEF Waits
      <4> QED BY <1>1, <1>18, <3>1, <4>1
    <3>2. CASE ~Waits(c)
      BY <1>1, <1>6, <1>8, <2>1, <3>2 DEF Place, Roused, Waits
    <3> QED BY <3>1, <3>2
  <2> QED BY <2>1 DEF Roused
<1>20. Clocked'
  <2> SUFFICES \E ff : (Dues(ls, ff) /\ Timed(ff))'
    BY DEF Clocked
  <2>1. \A c \in Client : age[c] \in Nat /\ want[c] \in Nat /\ late[c] \in Nat
    BY Ages DEF Place
  <2>2. Dues(ls, g)'
    BY <1>13 DEF Dues
  <2>3. ASSUME NEW c \in Client, count'[c] = 1, Waits(c)' PROVE Whole(c, g)'
    <3>1. Whole(c, f)
      BY <1>1, <1>11, <1>14, <2>3 DEF Timed
    <3>2. ASSUME NEW i \in BedNo', ls'[i].id = c PROVE age[c] + g[i] + 0 >= want[c] + 0
      <4>1. age[c] + f[i + 1] + 0 >= want[c] + h
        BY <1>4, <1>10, <1>13, <3>1, <3>2 DEF Whole
      <4>2. \A a, w, n, d, e \in Nat : d + n = e /\ a + e + 0 >= w + n => a + d + 0 >= w + 0
        OBVIOUS
      <4> QED BY <1>12, <1>13, <2>1, <3>2, <4>1, <4>2
    <3> QED BY <1>1, <1>5, <1>10, <3>2 DEF Whole
  <2>4. ASSUME NEW c \in Client, Hopes(c)' PROVE InTime(c, g)'
    <3>1. InTime(c, f) /\ c # to
      BY <1>11, <1>14, <2>4 DEF Timed, Hopes
    <3>2. CASE \E i \in PostNo : /\ Post[i].from = c /\ Asks(Post[i]) = want[c]
                                /\ age[c] + Left + Away <= late[c]
      BY <1>1, <1>4, <1>5, <1>8, <1>10, <3>2 DEF InTime, Asks
    <3>3. ASSUME NEW k \in BedNo, ls[k].id = c,
                 age[c] + f[k] + Away <= want[c] + late[c] + Passed
          PROVE  InTime(c, g)'
      <4>1. PICK i \in BedNo' : i + 1 = k
        BY <1>3, <1>13, <3>1, <3>3
      <4>2. ls'[i].id = c /\ g[i] + h = f[k] /\ g[i] \in Nat /\ f[k] \in Nat
        BY <1>12, <1>13, <3>3, <4>1
      <4>3. \A a, w, l, n, d, e \in Nat : d + n = e /\ a + e + 0 <= w + l + n => a + d + 0 <= w + l + 0
        OBVIOUS
      <4>4. age[c] + g[i] + 0 <= want[c] + late[c] + 0
        BY <1>4, <1>10, <2>1, <3>3, <4>2, <4>3
      <4> QED BY <1>1, <1>5, <1>10, <4>2, <4>4 DEF InTime
    <3> QED BY <3>1, <3>2, <3>3 DEF InTime
  <2>5. Timed(g)'
    BY <2>3, <2>4 DEF Timed
  <2> QED BY <2>2, <2>5
<1> QED BY <1>7, <1>9, <1>16, <1>17, <1>19, <1>20 DEF Place

LEMMA Division ==
    ASSUME NEW n \in Nat, NEW h \in Nat, h > 0
    PROVE  /\ n \div h \in Nat /\ n % h \in Nat /\ n % h < h
           /\ n = h * (n \div h) + (n % h)
  OBVIOUS

LEMMA Joined ==
    ASSUME NEW S, NEW s \in Seq(S), NEW t \in Seq(S)
    PROVE  /\ s \o t \in Seq(S) /\ Len(s \o t) = Len(s) + Len(t)
           /\ \A j \in 1..(Len(s) + Len(t)) :
                 (s \o t)[j] = IF j <= Len(s) THEN s[j] ELSE t[j - Len(s)]
  OBVIOUS

\* Where find-bed puts the beds.
LEMMA BedsLaid ==
    ASSUME NEW beds \in Seq(Bed), beds # <<>>, beds[1].n > 0, NEW id \in Client, NEW n \in Nat
    PROVE  LET new == FindBed(beds, id, n)
               h   == beds[1].n
               q   == n \div h
           IN  /\ new \in Seq(Bed) /\ Len(new) = q + 1 + Len(beds)
               /\ \A j \in 1..q : new[j] = beds[1]
               /\ new[q + 1] = [n |-> n % h, id |-> id]
               /\ new[q + 2] = [n |-> h - (n % h), id |-> beds[1].id]
               /\ \A i \in 2..Len(beds) : new[q + 1 + i] = beds[i]
<1> DEFINE h == beds[1].n
           q == n \div h
           first  == beds[1]
           copies == [i \in 1..q |-> first]
           a == [n |-> n % h, id |-> id]
           b == [n |-> h - (n % h), id |-> first.id]
           front == copies \o <<a, b>>
           back  == Tail(beds)
           new   == FindBed(beds, id, n)
<1>1. h \in Nat /\ h > 0 /\ first \in Bed /\ first.id \in Client /\ Head(beds) = first
      /\ Len(beds) \in Nat /\ Len(beds) >= 1
  <2>1. 1 \in 1..Len(beds) /\ Len(beds) \in Nat /\ Len(beds) >= 1 /\ Head(beds) = first
    OBVIOUS
  <2> QED BY <2>1, BedsAre
<1>2. q \in Nat /\ n % h \in Nat /\ h - (n % h) \in Nat
  <2>1. q \in Nat /\ n % h \in Nat /\ n % h < h
    BY <1>1, Division
  <2> HIDE DEF q
  <2> QED BY <1>1, <2>1
<1>3. a \in Bed /\ b \in Bed
  BY <1>1, <1>2 DEF Bed
<1>4. new = front \o back
  <2>1. new = copies \o <<a, b>> \o back
    BY <1>1 DEF FindBed
  <2> QED BY <2>1
<1> HIDE DEF a, b, q, h, first, new
<1>5. copies \in Seq(Bed) /\ Len(copies) = q /\ \A j \in 1..q : copies[j] = first
  BY <1>1, <1>2
<1> HIDE DEF copies
<1>6. <<a, b>> \in Seq(Bed) /\ Len(<<a, b>>) = 2 /\ <<a, b>>[1] = a /\ <<a, b>>[2] = b
  BY <1>3
<1>7. /\ front \in Seq(Bed) /\ Len(front) = q + 2
      /\ \A j \in 1..q : front[j] = first
      /\ front[q + 1] = a /\ front[q + 2] = b
  <2>1. /\ front \in Seq(Bed) /\ Len(front) = q + 2
        /\ \A j \in 1..(q + 2) : front[j] = IF j <= q THEN copies[j] ELSE <<a, b>>[j - q]
    BY <1>2, <1>5, <1>6
  <2>2. \A j \in 1..q : j \in 1..(q + 2) /\ j <= q
    BY <1>2
  <2>3. /\ q + 1 \in 1..(q + 2) /\ ~ (q + 1 <= q) /\ (q + 1) - q = 1
        /\ q + 2 \in 1..(q + 2) /\ ~ (q + 2 <= q) /\ (q + 2) - q = 2
    BY <1>2
  <2> HIDE DEF front
  <2> QED BY <1>5, <1>6, <2>1, <2>2, <2>3
<1>8. /\ back \in Seq(Bed) /\ Len(back) = Len(beds) - 1
      /\ \A i \in 1..(Len(beds) - 1) : back[i] = beds[i + 1]
  BY <1>1
<1> HIDE DEF front, back
<1> DEFINE m == Len(beds)
<1>9. m \in Nat /\ m >= 1
  BY <1>1
<1>9a. Len(front) = q + 2 /\ Len(back) = m - 1
  BY <1>7, <1>8
<1> HIDE DEF m
<1>10. /\ front \o back \in Seq(Bed) /\ Len(front \o back) = (q + 2) + (m - 1)
       /\ \A j \in 1..((q + 2) + (m - 1)) :
             (front \o back)[j] = IF j <= q + 2 THEN front[j] ELSE back[j - (q + 2)]
  <2>1. front \in Seq(Bed) /\ back \in Seq(Bed)
    BY <1>7, <1>8
  <2>2. /\ front \o back \in Seq(Bed) /\ Len(front \o back) = Len(front) + Len(back)
        /\ \A j \in 1..(Len(front) + Len(back)) :
              (front \o back)[j] = IF j <= Len(front) THEN front[j] ELSE back[j - Len(front)]
    BY <2>1, Joined
  <2> QED BY ONLY <1>9a, <2>2, Zenon
<1>11. /\ (q + 2) + (m - 1) = q + 1 + m
       /\ \A j \in 1..q : j \in 1..((q + 2) + (m - 1)) /\ j <= q + 2
       /\ q + 1 \in 1..((q + 2) + (m - 1)) /\ q + 1 <= q + 2
       /\ q + 2 \in 1..((q + 2) + (m - 1)) /\ q + 2 <= q + 2
       /\ \A i \in 2..m : /\ q + 1 + i \in 1..((q + 2) + (m - 1)) /\ ~ (q + 1 + i <= q + 2)
                          /\ q + 1 + i - (q + 2) = i - 1
                          /\ i - 1 \in 1..(m - 1) /\ (i - 1) + 1 = i
  BY <1>2, <1>9
<1>12. \A i \in 2..m : back[i - 1] = beds[i]
  BY <1>8, <1>11 DEF m
<1>13. new \in Seq(Bed) /\ Len(new) = q + 1 + m
  BY <1>4, <1>10, <1>11
<1>14. /\ \A j \in 1..q : new[j] = first
       /\ new[q + 1] = a /\ new[q + 2] = b
  BY <1>4, <1>7, <1>10, <1>11
<1>15. \A i \in 2..m : new[q + 1 + i] = beds[i]
  <2>1. ASSUME NEW i \in 2..m PROVE new[q + 1 + i] = beds[i]
    <3> DEFINE k == q + 1 + i
    <3>1. k \in 1..((q + 2) + (m - 1)) /\ ~ (k <= q + 2) /\ k - (q + 2) = i - 1
      BY <1>11
    <3> HIDE DEF k
    <3>2. new[k] = back[i - 1]
      BY <1>4, <1>10, <3>1
    <3> QED BY <1>12, <3>2 DEF k
  <2> QED BY <2>1
<1> QED BY <1>13, <1>14, <1>15 DEF m, a, b, q, h, first, new

\* When they are due: the new one after n rounds, the others when they were
\* or later, and the thread of the first bed also when it was.
Follows(beds, new, id, n, f, g) ==
    /\ Dues(new, g)
    /\ \A j \in 1..Len(new) :
          \/ new[j].id = id /\ g[j] = n
          \/ \E i \in 1..Len(beds) : new[j].id = beds[i].id /\ g[j] >= f[i]
    /\ \E j \in 1..Len(new) : new[j].id = id /\ g[j] = n
    /\ beds # <<>> => \E j \in 1..Len(new) : new[j].id = beds[1].id /\ g[j] <= f[1]
    /\ \A i \in 1..Len(beds) :
          \E j \in 1..Len(new) :
             /\ new[j].id = beds[i].id
             /\ g[j] = f[i] + (n - (n % beds[1].n))

LEMMA BedsFound ==
    ASSUME NEW beds \in Seq(Bed), NEW id \in Client, NEW n \in Nat, ~Endless(beds),
           NEW f, Dues(beds, f)
    PROVE  /\ FindBed(beds, id, n) \in Seq(Bed)
           /\ \E g : Follows(beds, FindBed(beds, id, n), id, n, f, g)
<1> DEFINE new == FindBed(beds, id, n)
<1>1. CASE beds = <<>>
  <2>1. new = <<[n |-> n, id |-> id]>>
    BY <1>1 DEF FindBed
  <2> DEFINE g == [j \in 1..1 |-> n]
             a == [n |-> n, id |-> id]
  <2>2. a \in Bed /\ a.n = n /\ a.id = id
    BY DEF Bed
  <2> HIDE DEF a
  <2>3. new \in Seq(Bed) /\ Len(new) = 1 /\ new[1] = a
    BY <2>1, <2>2 DEF a
  <2>4. g \in [1..1 -> Nat] /\ g[1] = n
    OBVIOUS
  <2> HIDE DEF g, new
  <2>5. Dues(new, g)
    BY <2>2, <2>3, <2>4 DEF Dues
  <2>6. \A j \in 1..1 : new[j].id = id /\ g[j] = n
    BY <2>2, <2>3, <2>4
  <2>7. 1 \in 1..1 /\ 1..Len(beds) = {}
    BY <1>1
  <2>8. Follows(beds, new, id, n, f, g)
    BY <1>1, <2>3, <2>5, <2>6, <2>7 DEF Follows
  <2> QED BY <2>3, <2>8 DEF new
<1>2. CASE beds # <<>>
  <2> DEFINE h == beds[1].n
             q == n \div h
             d == n % h
             p == n - d
             m == Len(beds)
  <2>1. /\ m \in Nat /\ m >= 1 /\ 1 \in 1..m
        /\ h \in Nat /\ h > 0
        /\ \A i \in 1..m : beds[i].n \in Nat /\ beds[i].id \in Client
    <3>1. Len(beds) \in Nat /\ Len(beds) >= 1 /\ 1 \in 1..Len(beds) /\ Head(beds) = beds[1]
      BY <1>2
    <3>2. beds[1].n \in Nat /\ beds[1].n # 0
      BY <1>2, <3>1, BedsAre DEF Endless
    <3>3. beds[1].n > 0
      BY <3>2
    <3> QED BY <3>1, <3>2, <3>3, BedsAre
  <2>2. /\ q \in Nat /\ d \in Nat /\ d < h /\ n = h * q + d /\ p \in Nat /\ p = h * q /\ p + d = n
        /\ h - d \in Nat
    <3>1. q \in Nat /\ d \in Nat /\ d < h /\ n = h * q + d
      BY <2>1, Division
    <3> HIDE DEF q, d
    <3>2. h * q \in Nat
      BY <2>1, <3>1
    <3> QED BY <2>1, <3>1, <3>2
  <2>3. /\ new \in Seq(Bed) /\ Len(new) = q + 1 + m
        /\ \A j \in 1..q : new[j] = beds[1]
        /\ new[q + 1] = [n |-> d, id |-> id]
        /\ new[q + 2] = [n |-> h - d, id |-> beds[1].id]
        /\ \A i \in 2..m : new[q + 1 + i] = beds[i]
    BY <1>2, <2>1, BedsLaid
  <2> DEFINE g == [j \in 1..(q + 1 + m) |->
                     IF j <= q THEN h * j ELSE IF j = q + 1 THEN n ELSE f[j - (q + 1)] + p]
  <2>4. /\ f \in [1..m -> Nat] /\ f[1] = h /\ \A i \in 2..m : f[i] = f[i - 1] + beds[i].n
    BY <1>2 DEF Dues
  <2> HIDE DEF new, p, q, d, m, h
  <2>5. /\ \A j \in 1..q : j \in 1..(q + 1 + m) /\ j <= q
        /\ q + 1 \in 1..(q + 1 + m) /\ ~ (q + 1 <= q)
        /\ \A k \in 1..m : /\ q + 1 + k \in 1..(q + 1 + m) /\ ~ (q + 1 + k <= q) /\ q + 1 + k # q + 1
                           /\ (q + 1 + k) - (q + 1) = k
        /\ \A j \in 1..(q + 1 + m) :
              j \in 1..q \/ j = q + 1 \/ \E k \in 1..m : j = q + 1 + k
    <3>1. ASSUME NEW j \in 1..(q + 1 + m), j \notin 1..q, j # q + 1
          PROVE  j - (q + 1) \in 1..m /\ j = q + 1 + (j - (q + 1))
      BY <2>1, <2>2, <3>1
    <3>2. \A j \in 1..(q + 1 + m) : j \in 1..q \/ j = q + 1 \/ \E k \in 1..m : j = q + 1 + k
      BY <3>1
    <3> QED BY <2>1, <2>2, <3>2
  <2>6. /\ \A j \in 1..q : g[j] = h * j
        /\ g[q + 1] = n
        /\ \A k \in 1..m : g[q + 1 + k] = f[k] + p
    BY <2>5
  <2> HIDE DEF g
  <2>7. /\ \A j \in 1..q : h * j \in Nat /\ h * j >= h
        /\ \A k \in 1..m : f[k] \in Nat /\ f[k] + p \in Nat /\ f[k] + p >= f[k]
    <3>1. ASSUME NEW j \in 1..q PROVE h * j \in Nat /\ h * j >= h
      <4>1. \A i, x \in Nat : i >= 1 => x * i >= x /\ x * i \in Nat
        OBVIOUS
      <4> QED BY <2>1, <2>2, <4>1
    <3>2. ASSUME NEW k \in 1..m PROVE f[k] \in Nat /\ f[k] + p \in Nat /\ f[k] + p >= f[k]
      <4>1. f[k] \in Nat
        BY <2>4
      <4>2. \A a, b \in Nat : a + b \in Nat /\ a + b >= a
        OBVIOUS
      <4> QED BY <2>2, <4>1, <4>2
    <3> QED BY <3>1, <3>2
  <2>8. \A k \in 1..m : new[q + 1 + k].id = beds[k].id
    <3>1. \A k \in 1..m : k = 1 \/ k \in 2..m
      BY <2>1
    <3>2. q + 1 + 1 = q + 2
      BY <2>2
    <3> QED BY <2>3, <3>1, <3>2
  <2>9. Dues(new, g)
    <3>1. ASSUME NEW j \in 1..(q + 1 + m) PROVE g[j] \in Nat
      <4>1. CASE j \in 1..q
        BY <2>6, <2>7, <4>1
      <4>2. CASE j = q + 1
        BY <2>6, <4>2
      <4>3. CASE \E k \in 1..m : j = q + 1 + k
        BY <2>6, <2>7, <4>3
      <4> QED BY <2>5, <4>1, <4>2, <4>3
    <3>2. g \in [1..Len(new) -> Nat]
      BY <2>3, <3>1 DEF g
    <3>3. g[1] = new[1].n
      <4>1. CASE q = 0
        <5>1. n = d
          BY <2>1, <2>2, <4>1
        <5> QED BY <2>3, <2>6, <4>1, <5>1
      <4>2. CASE q # 0
        <5>1. 1 \in 1..q /\ h * 1 = h
          BY <2>1, <2>2, <4>2
        <5> QED BY <2>3, <2>6, <5>1 DEF h
      <4> QED BY <4>1, <4>2
    <3>4. ASSUME NEW j \in 2..(q + 1 + m) PROVE g[j] = g[j - 1] + new[j].n
      <4>1. CASE j \in 1..q
        <5>1. j - 1 \in 1..q /\ j \in Nat /\ j >= 1
          BY <2>2, <4>1
        <5>2. \A i, x \in Nat : i >= 1 => x * i = x * (i - 1) + x
          OBVIOUS
        <5>3. h * j = h * (j - 1) + h
          BY <2>1, <5>1, <5>2
        <5> QED BY <2>3, <2>6, <4>1, <5>1, <5>3 DEF h
      <4>2. CASE j = q + 1
        <5>1. q \in 1..q /\ j - 1 = q
          BY <2>2, <4>2
        <5> QED BY <2>2, <2>3, <2>6, <4>2, <5>1
      <4>3. CASE j = q + 1 + 1
        <5>1. j - 1 = q + 1 /\ j = q + 2
          BY <2>2, <4>3
        <5>2. g[j] = h + p
          BY <2>1, <2>4, <2>6, <4>3
        <5>3. h + p = n + (h - d)
          BY <2>1, <2>2
        <5> QED BY <2>3, <2>6, <5>1, <5>2, <5>3
      <4>4. ASSUME NEW k \in 1..m, k # 1, j = q + 1 + k PROVE g[j] = g[j - 1] + new[j].n
        <5>1. k \in 2..m /\ k - 1 \in 1..m /\ j - 1 = q + 1 + (k - 1)
          BY <2>1, <2>2, <4>4
        <5>2. g[j] = f[k] + p /\ g[j - 1] = f[k - 1] + p /\ new[j].n = beds[k].n
          BY <2>3, <2>6, <4>4, <5>1
        <5>3. f[k] = f[k - 1] + beds[k].n /\ f[k - 1] \in Nat /\ beds[k].n \in Nat
          BY <2>1, <2>4, <5>1
        <5>4. \A a, b, c \in Nat : (a + b) + c = (a + c) + b
          OBVIOUS
        <5>5. (f[k - 1] + beds[k].n) + p = (f[k - 1] + p) + beds[k].n
          <6>1. p \in Nat
            BY <2>2
          <6> QED BY <5>3, <5>4, <6>1
        <5> QED BY <5>2, <5>3, <5>5
      <4>5. j \in 1..(q + 1 + m)
        BY <2>2
      <4> QED BY <2>5, <4>1, <4>2, <4>3, <4>4, <4>5
    <3>5. new # <<>> => g[1] = new[1].n
      BY <3>3
    <3> QED BY <2>3, <3>2, <3>4, <3>5 DEF Dues
  <2>10. ASSUME NEW j \in 1..(q + 1 + m)
         PROVE  \/ new[j].id = id /\ g[j] = n
                \/ \E i \in 1..m : new[j].id = beds[i].id /\ g[j] >= f[i]
    <3>1. CASE j \in 1..q
      <4>1. new[j].id = beds[1].id /\ g[j] >= f[1]
        BY <2>3, <2>4, <2>6, <2>7, <3>1
      <4> QED BY <2>1, <4>1
    <3>2. CASE j = q + 1
      BY <2>3, <2>6, <3>2
    <3>3. ASSUME NEW k \in 1..m, j = q + 1 + k
          PROVE  new[j].id = beds[k].id /\ g[j] >= f[k]
      BY <2>6, <2>7, <2>8, <3>3
    <3> QED BY <2>5, <3>1, <3>2, <3>3
  <2>11. \E j \in 1..(q + 1 + m) : new[j].id = id /\ g[j] = n
    BY <2>3, <2>5, <2>6
  <2>12. \E j \in 1..(q + 1 + m) : new[j].id = beds[1].id /\ g[j] <= f[1]
    <3>1. CASE q = 0
      <4>1. g[q + 1 + 1] = h + p /\ p = 0 /\ q + 1 + 1 \in 1..(q + 1 + m) /\ h + 0 <= h
        BY <2>1, <2>2, <2>4, <2>5, <2>6, <3>1
      <4> QED BY <2>1, <2>4, <2>8, <4>1
    <3>2. CASE q # 0
      <4>1. 1 \in 1..q /\ h * 1 = h /\ h <= h
        BY <2>1, <2>2, <3>2
      <4> QED BY <2>3, <2>4, <2>5, <2>6, <4>1
    <3> QED BY <3>1, <3>2
  <2>13. \A i \in 1..m : \E j \in 1..(q + 1 + m) : new[j].id = beds[i].id /\ g[j] = f[i] + p
    BY <2>5, <2>6, <2>8
  <2>14. Follows(beds, new, id, n, f, g)
    BY <2>3, <2>9, <2>10, <2>11, <2>12, <2>13 DEF Follows, p, d, m, h
  <2> QED BY <2>3, <2>14 DEF new
<1> QED BY <1>1, <1>2

\* The request that the sleeper uses.  Who asks for it sleeps as long as it
\* wants in its new bed; no one else is due earlier, and later only by what
\* the request puts it off.
LEMMA AddKeeps ==
    ASSUME Inv, Inv', Place, Clocked, Add, UNCHANGED <<held, forks, sent>>
    PROVE  Place' /\ Clocked'
<1> DEFINE used == Head(todo).given[1]
           Laid == /\ ~Endless(ls) /\ ls' = AddSleeper(ls, used)
                   /\ pc' = [pc EXCEPT ![Io] = "sleeper"]
                   /\ late' = [t \in Thread |-> late[t] + PutOff(t, Asks(used))]
           Lost == Endless(ls) /\ pc' = [pc EXCEPT ![Io] = "endless"] /\ UNCHANGED <<ls, late>>
<1>1. /\ todo # <<>> /\ Cur = Io /\ pc[Io] = "add" /\ Consume /\ UNCHANGED <<done, slot>>
      /\ Laid \/ Lost
      /\ UNCHANGED <<rounds, count, want, age>>
  BY DEF Add, At, Consume
<1>2. PICK env \in Envelope : env = used /\ env = Head(Post) /\ Post # <<>>
  <2>1. /\ Boxes[Io] # <<>> /\ Head(Boxes[Io]) \in Envelope
        /\ Head(todo).given = <<Head(Boxes[Io])>>
    BY <1>1, ConsumeBoxes
  <2> QED BY <2>1 DEF Post
<1>3. /\ Io \in Live /\ slot[Io] # "cont" /\ Io \in Thread /\ Away = 0 /\ Away' = 0
      /\ \A c \in Client : c \in Thread /\ c # Io
      /\ \A c \in Client : pc[c] # "asks"
  BY <1>1, Cast, IoTurn DEF Away
<1>4. /\ UNCHANGED <<Live, links, slot>>
      /\ \A t \in Thread \ {Io} : Boxes'[t] = Boxes[t]
      /\ Post' = Tail(Post) /\ Post \in Seq(Envelope)
  <2>1. /\ UNCHANGED <<Live, links>> /\ Boxes' = [Boxes EXCEPT ![Io] = Tail(@)]
    BY <1>1, ConsumeBoxes
  <2>2. Boxes \in [Thread -> Seq(Envelope)]
    BY BoxType
  <2> QED BY <1>1, <1>3, <2>1, <2>2 DEF Post
<1>5. /\ 1 \in PostNo /\ Post[1] = env
      /\ \A i \in PostNo' : i + 1 \in PostNo /\ Post'[i] = Post[i + 1]
      /\ \A i \in PostNo : i = 1 \/ (i - 1 \in PostNo' /\ Post'[i - 1] = Post[i])
  <2>1. /\ Len(Post) \in Nat /\ Len(Post) >= 1 /\ Post[1] = Head(Post)
        /\ Len(Post') = Len(Post) - 1
        /\ \A i \in 1..(Len(Post) - 1) : Post'[i] = Post[i + 1]
    BY <1>2, <1>4
  <2>2. \A i \in 1..Len(Post) : i = 1 \/ (i - 1 \in 1..(Len(Post) - 1) /\ (i - 1) + 1 = i)
    BY <2>1
  <2>3. \A i \in 1..(Len(Post) - 1) : i + 1 \in 1..Len(Post)
    BY <2>1
  <2>4. 1 \in 1..Len(Post)
    BY <2>1
  <2> QED BY <1>2, <2>1, <2>2, <2>3, <2>4 DEF PostNo
<1>6. PICK id \in Client, n \in Nat : id = env.from /\ n = Asks(env)
  <2>1. env.from \in Client
    BY <1>5 DEF Place, Routine
  <2>2. Asks(env) \in Nat
    BY Cast DEF Envelope, Asks
  <2> QED BY <2>1, <2>2
<1>7. /\ Left = 0 /\ Passed = 0 /\ Left' = 0 /\ Passed' = 0
      /\ pc' \in [Thread -> SleeperPlace \cup ClientPlace]
      /\ \A c \in Client : pc'[c] = pc[c]
      /\ Laid => pc'[Io] = "sleeper"
      /\ Lost => pc'[Io] = "endless"
      /\ pc'[Io] \in {"sleeper", "endless"}
  <2>1. /\ pc' \in [Thread -> SleeperPlace \cup ClientPlace]
        /\ \A c \in Client : pc'[c] = pc[c]
        /\ Laid => pc'[Io] = "sleeper"
        /\ Lost => pc'[Io] = "endless"
    BY <1>1, <1>3 DEF Place, Typed, SleeperPlace
  <2> QED BY <1>1, <2>1 DEF Left, Passed
<1>8. \A c \in Client : age[c] \in Nat /\ want[c] \in Nat /\ late[c] \in Nat
  BY Ages DEF Place
<1>9. /\ \A c \in Client : Waits(c)' <=> Waits(c)
      /\ \A c \in Client : Hopes(c)' <=> Waits(c)
      /\ \A c \in Client : Young(c)' <=> Young(c)
  BY <1>1, <1>3, <1>4, <1>7 DEF Waits, Hopes, Young
<1>10. Turns'
  BY <1>3, <1>4, <1>7 DEF Place, Turns
<1>11. Routine'
  <2>1. \A i \in PostNo' : Post'[i].from \in Client
    BY <1>5 DEF Place, Routine
  <2>2. slot'[Io] # "none"
    BY <1>1, <1>4 DEF Place, Routine, Serves
  <2> QED BY <1>3, <1>4, <1>7, <2>1, <2>2 DEF Routine
\* What is left to show of the list.
<1>12. ASSUME ls' \in Seq(Bed), late' \in [Thread -> Nat],
              \A c \in Client : late'[c] >= late[c],
              \A c \in Client : HasBed(c)' => HasBed(c) \/ c = id,
              Clocked'
       PROVE  Place' /\ Clocked'
  <2>1. Typed'
    <3>1. pc'[Io] \in SleeperPlace
      BY <1>7 DEF SleeperPlace
    <3> QED BY <1>1, <1>4, <1>7, <1>12, <3>1 DEF Place, Typed
  <2>2. Fresh'
    <3>1. count[id] # 0
      <4>1. HasRequest(id)
        BY <1>5, <1>6 DEF HasRequest
      <4> QED BY <4>1 DEF Place, Fresh
    <3>2. \A i \in PostNo' : \E j \in PostNo : Post'[i] = Post[j]
      BY <1>5
    <3> QED BY <1>1, <1>3, <1>4, <1>7, <1>9, <1>12, <3>1, <3>2, FreshKept DEF Place
  <2>3. Roused'
    <3>1. Serves
      BY <1>1 DEF Serves
    <3> QED BY <1>1, <1>4, <1>7, <1>12, <2>1, <3>1, RousedKept DEF Place
  <2> QED BY <1>10, <1>11, <1>12, <2>1, <2>2, <2>3 DEF Place
<1>13. CASE Lost
  <2>1. ls' \in Seq(Bed) /\ late' \in [Thread -> Nat]
    BY <1>13 DEF Place, Typed
  <2>2. \A c \in Client : HasBed(c)' => HasBed(c)
    BY <1>13 DEF HasBed, BedNo
  <2>3. \A c \in Client : late'[c] >= late[c]
    BY <1>13, Ages DEF Place
  <2>4. Clocked'
    BY <1>7, <1>13 DEF Clocked, Serves
  <2> QED BY <1>12, <2>1, <2>2, <2>3, <2>4
<1>14. CASE Laid
  <2>1. PICK f : Dues(ls, f) /\ Timed(f)
    BY <1>1 DEF Clocked, Serves
  <2>2. ls \in Seq(Bed) /\ ls' = FindBed(ls, id, n) /\ ~Endless(ls)
    BY <1>2, <1>6, <1>14 DEF Place, Typed, AddSleeper
  <2>3. PICK g :
          /\ Dues(ls', g)
          /\ \A j \in BedNo' : \/ ls'[j].id = id /\ g[j] = n
                               \/ \E i \in BedNo : ls'[j].id = ls[i].id /\ g[j] >= f[i]
          /\ \E j \in BedNo' : ls'[j].id = id /\ g[j] = n
          /\ ls # <<>> => \E j \in BedNo' : ls'[j].id = ls[1].id /\ g[j] <= f[1]
          /\ \A i \in BedNo : \E j \in BedNo' :
                /\ ls'[j].id = ls[i].id /\ g[j] = f[i] + (n - (n % ls[1].n))
    <3>1. PICK g : Follows(ls, ls', id, n, f, g)
      BY <2>1, <2>2, BedsFound
    <3> QED BY <3>1 DEF Follows, BedNo
  <2>4. ls' \in Seq(Bed)
    BY <2>1, <2>2, BedsFound
  <2>5. /\ \A i \in BedNo : f[i] \in Nat /\ f[i] >= f[1]
        /\ \A j \in BedNo' : g[j] \in Nat
        /\ \A i \in BedNo : ls # <<>> /\ f[1] \in Nat
        /\ ls # <<>> => ls[1] = Head(ls)
    <3>1. \A i \in BedNo : f[i] \in Nat /\ f[i] >= f[1]
      BY <2>1, <2>2, DuesGrow DEF BedNo
    <3>2. \A j \in BedNo' : g[j] \in Nat
      BY <2>3 DEF Dues, BedNo
    <3>3. BedNo # {} => ls # <<>> /\ 1 \in BedNo
      BY <2>2 DEF BedNo
    <3>4. ls # <<>> => ls[1] = Head(ls)
      BY <2>2
    <3> QED BY <3>1, <3>2, <3>3, <3>4
\* What the request puts off.
  <2>6. \A t \in Thread : PutOff(t, n) \in Nat
    <3>1. ls # <<>> => Head(ls).n \in Nat /\ Head(ls).n > 0
      <4>1. SUFFICES ASSUME ls # <<>> PROVE Head(ls).n \in Nat /\ Head(ls).n > 0
        OBVIOUS
      <4>2. Head(ls) = ls[1] /\ 1 \in 1..Len(ls)
        BY <2>2, <4>1
      <4>3. Head(ls).n \in Nat /\ Head(ls).n # 0
        BY <2>2, <4>1, <4>2, BedsAre DEF Endless
      <4> QED BY <4>3
    <3>2. ls # <<>> => n - (n % Head(ls).n) \in Nat
      <4>1. \A a, b \in Nat : b > 0 => a - (a % b) \in Nat
        <5>1. ASSUME NEW a \in Nat, NEW b \in Nat, b > 0 PROVE a - (a % b) \in Nat
          <6>1. a \div b \in Nat /\ a % b \in Nat /\ a = b * (a \div b) + (a % b)
            BY <5>1, Division
          <6>2. b * (a \div b) \in Nat
            BY <6>1
          <6> QED BY <6>1, <6>2
        <5> QED BY <5>1
      <4> QED BY <3>1, <4>1
    <3> QED BY <3>2 DEF PutOff
  <2>7. /\ late' \in [Thread -> Nat]
        /\ \A c \in Client : late'[c] = late[c] + PutOff(c, n) /\ late'[c] >= late[c]
    <3>1. late' = [t \in Thread |-> late[t] + PutOff(t, n)]
      BY <1>2, <1>6, <1>14
    <3>2. late \in [Thread -> Nat]
      BY DEF Place, Typed
    <3>3. \A a, b \in Nat : a + b \in Nat /\ a + b >= a
      OBVIOUS
    <3> QED BY <1>3, <2>6, <3>1, <3>2, <3>3
  <2>8. \A c \in Client : HasBed(c)' => HasBed(c) \/ c = id
    BY <2>3 DEF HasBed
  <2>9. \A i \in PostNo : Post[i].from = id /\ Young(id) => Asks(Post[i]) = want[id]
    BY DEF Place, Fresh
  <2>10. ASSUME NEW c \in Client, count'[c] = 1, Waits(c)' PROVE Whole(c, g)'
    <3>1. Whole(c, f) /\ Young(c)
      BY <1>1, <1>9, <2>1, <2>10 DEF Timed, Young, Hopes
    <3>2. ASSUME NEW j \in BedNo', ls'[j].id = c PROVE age[c] + g[j] + 0 >= want[c] + 0
      <4>1. CASE ls'[j].id = id /\ g[j] = n
        <5>1. want[c] = n
          BY <1>5, <1>6, <2>9, <3>1, <3>2, <4>1
        <5> QED BY <1>8, <4>1, <5>1
      <4>2. ASSUME NEW i \in BedNo, ls'[j].id = ls[i].id, g[j] >= f[i]
            PROVE  age[c] + g[j] + 0 >= want[c] + 0
        <5>1. age[c] + f[i] + 0 >= want[c] + 0
          BY <1>3, <1>7, <3>1, <3>2, <4>2 DEF Whole
        <5>2. \A a, x, y, w \in Nat : a + x + 0 >= w + 0 /\ y >= x => a + y + 0 >= w + 0
          OBVIOUS
        <5> QED BY <1>8, <2>5, <4>2, <5>1, <5>2
      <4> QED BY <2>3, <4>1, <4>2
    <3> QED BY <1>1, <1>3, <1>7, <3>2 DEF Whole
  <2>11. ASSUME NEW c \in Client, Hopes(c)' PROVE InTime(c, g)'
    <3>1. InTime(c, f)
      BY <1>9, <2>1, <2>11 DEF Timed, Hopes
    <3>2. ASSUME NEW j \in BedNo', ls'[j].id = c, age[c] + g[j] + 0 <= want[c] + late'[c] + 0
          PROVE  InTime(c, g)'
      BY <1>1, <1>3, <1>7, <3>2 DEF InTime
    <3>3. late'[c] \in Nat /\ PutOff(c, n) \in Nat
      BY <1>3, <2>6, <2>7
    <3>4. ASSUME NEW i \in PostNo, Post[i].from = c, Asks(Post[i]) = want[c],
                 age[c] + 0 + 0 <= late[c]
          PROVE  InTime(c, g)'
      <4>1. age[c] + 0 + 0 <= late'[c]
        <5>1. \A a, l, k \in Nat : a + 0 + 0 <= l /\ k >= l => a + 0 + 0 <= k
          OBVIOUS
        <5> QED BY <1>8, <2>7, <3>3, <3>4, <5>1
      <4>2. CASE i = 1
        <5>1. c = id /\ want[c] = n
          BY <1>5, <1>6, <3>4, <4>2
        <5>2. PICK j \in BedNo' : ls'[j].id = id /\ g[j] = n
          BY <2>3
        <5>3. age[c] + g[j] + 0 <= want[c] + late'[c] + 0
          <6>1. \A a, l, k \in Nat : a + 0 + 0 <= l => a + k + 0 <= k + l + 0
            OBVIOUS
          <6> QED BY <1>8, <3>3, <4>1, <5>1, <5>2, <6>1
        <5> QED BY <3>2, <5>1, <5>2, <5>3
      <4>3. CASE i # 1
        <5>1. i - 1 \in PostNo' /\ Post'[i - 1] = Post[i]
          BY <1>5, <4>3
        <5>2. Post'[i - 1].from = c /\ Asks(Post'[i - 1]) = want[c]
          BY <3>4, <5>1
        <5> QED BY <1>1, <1>3, <1>7, <4>1, <5>1, <5>2 DEF InTime, Asks
      <4> QED BY <4>2, <4>3
    <3>5. ASSUME NEW i \in BedNo, ls[i].id = c, age[c] + f[i] + 0 <= want[c] + late[c] + 0
          PROVE  InTime(c, g)'
      <4>1. CASE ls[1].id = c
        <5>1. PICK j \in BedNo' : ls'[j].id = c /\ g[j] <= f[1]
          BY <2>3, <2>5, <3>5, <4>1
        <5>2. \A a, x, y, z, w, l, k \in Nat :
                 a + x + 0 <= w + l + 0 /\ x >= y /\ z <= y /\ k >= l => a + z + 0 <= w + k + 0
          OBVIOUS
        <5>3. f[1] \in Nat /\ f[i] \in Nat /\ f[i] >= f[1] /\ g[j] \in Nat
          BY <2>5, <3>5
        <5>4. age[c] + g[j] + 0 <= want[c] + late'[c] + 0
          BY <1>8, <2>7, <3>3, <3>5, <5>1, <5>2, <5>3
        <5> QED BY <3>2, <5>1, <5>4
      <4>2. CASE ls[1].id # c
        <5>1. PICK j \in BedNo' : ls'[j].id = c /\ g[j] = f[i] + (n - (n % ls[1].n))
          BY <2>3, <3>5
        <5>2. PutOff(c, n) = n - (n % ls[1].n)
          <6>1. i # 1 /\ ls # <<>> /\ ls[1] = Head(ls)
            BY <2>5, <3>5, <4>2
          <6>2. i \in 2..Len(ls)
            BY <6>1 DEF BedNo
          <6> QED BY <3>5, <4>2, <6>1, <6>2 DEF PutOff
        <5>3. \A a, x, w, l, r \in Nat :
                 a + x + 0 <= w + l + 0 => a + (x + r) + 0 <= w + (l + r) + 0
          OBVIOUS
        <5>4. age[c] + g[j] + 0 <= want[c] + late'[c] + 0
          BY <1>8, <2>5, <2>7, <3>3, <3>5, <5>1, <5>2, <5>3
        <5> QED BY <3>2, <5>1, <5>4
      <4> QED BY <4>1, <4>2
    <3> QED BY <1>3, <1>7, <3>1, <3>4, <3>5 DEF InTime
  <2>12. Clocked'
    <3>1. Dues(ls, g)' /\ Timed(g)'
      BY <2>3, <2>10, <2>11 DEF Dues, Timed
    <3> QED BY <3>1 DEF Clocked
  <2> QED BY <1>12, <2>4, <2>7, <2>8, <2>12
<1> QED BY <1>1, <1>13, <1>14

------------------------------------------------------------------------------
(* The whole.                                                              *)

\* The clients are in the first run list; the sleeper waits for its mail.
LEMMA FirstInv ==
    ASSUME SleeperInit
    PROVE  /\ Inv /\ Runnable = Client /\ Waiting = {Io}
           /\ \A t \in Thread : Boxes[t] = <<>>
<1>1. Client \cup {Io} \subseteq Thread /\ IsFiniteSet(Client) /\ Io \notin Client
  BY Cast
<1>2. PICK order \in SetToSeqs(Client) :
        todo = [i \in 1..Len(order) |-> [id |-> order[i], given |-> <<>>]]
  BY DEF SleeperInit
<1>3. /\ order \in Seq(Client) /\ Len(order) \in Nat
      /\ \A i, j \in 1..Len(order) : order[i] = order[j] => i = j
      /\ \A x \in Client : \E i \in 1..Len(order) : order[i] = x
  <2>1. IsFiniteSet(Client)
    BY <1>1
  <2> QED BY <2>1, ListOfAll
<1>4. /\ todo \in Seq(Entry) /\ Len(todo) = Len(order)
      /\ \A i \in 1..Len(order) : todo[i].id = order[i] /\ todo[i].given = <<>>
  <2>1. \A i \in 1..Len(order) : [id |-> order[i], given |-> <<>>] \in Entry
    BY <1>1, <1>3, GivenType DEF Entry
  <2>2. todo \in [1..Len(order) -> Entry]
    BY <1>2, <2>1
  <2>3. todo \in Seq(Entry) /\ Len(todo) = Len(order)
    BY <1>3, <2>2, IsASeq
  <2> QED BY <1>2, <2>3
<1>5. Ids(todo) = Client /\ Distinct(todo)
  <2>1. Ids(todo) \subseteq Client
    BY <1>3, <1>4 DEF Ids
  <2>2. Client \subseteq Ids(todo)
    BY <1>3, <1>4 DEF Ids
  <2>3. ASSUME NEW i \in 1..Len(todo), NEW j \in 1..Len(todo), todo[i].id = todo[j].id
        PROVE  i = j
    <3>1. order[i] = order[j] /\ i \in 1..Len(order) /\ j \in 1..Len(order)
      BY <1>4, <2>3
    <3> QED BY <1>3, <3>1
  <2> QED BY <2>1, <2>2, <2>3 DEF Distinct
<1>6. done = <<>> /\ done \in Seq(Entry) /\ Ids(done) = {} /\ Distinct(done)
  BY DEF SleeperInit, Ids, Distinct
<1>7. Runnable = Client
  BY <1>5, <1>6 DEF Runnable
<1>8. Waiting = {Io}
  BY <1>1 DEF Waiting, SleeperInit
<1>9. TypeOK
  <2>1. /\ inbox \in [Thread -> Seq(Envelope)] /\ held \in [Thread -> Seq(Envelope)]
        /\ slot \in [Thread -> {"none", "inbox", "cont"}]
    BY DEF SleeperInit
  <2>2. links \in [Thread -> Thread \cup {NoThread}]
    BY DEF SleeperInit
  <2>3. retval \in Nat /\ forks \in 0..MaxFork /\ sent \in 0..MaxMail
    BY ThreadAssumption DEF SleeperInit
  <2> QED BY <1>4, <1>6, <2>1, <2>2, <2>3 DEF TypeOK, SleeperInit
<1>10. RunsOnce
  BY <1>1, <1>5, <1>6, <1>7, <1>8 DEF RunsOnce
<1>11. NothingOutlives
  BY DEF NothingOutlives, SleeperInit
<1>12. Inv
  BY <1>9, <1>10, <1>11 DEF Inv
<1>13. ASSUME NEW t \in Thread PROVE Boxes[t] = <<>>
  <2>1. GivenOf(todo, done, t) = <<>>
    <3>1. CASE t \in Ids(todo) \cup Ids(done)
      <4>1. PICK e \in Both(todo, done) : e.id = t
        BY <1>12, <3>1, InvProper, GivenEntry
      <4>2. e.given = <<>>
        BY <1>4, <1>6, <4>1 DEF Both, ToSet
      <4> QED BY <1>12, <4>1, <4>2, InvProper, GivenIs
    <3>2. CASE t \notin Ids(todo) \cup Ids(done)
      BY <3>2 DEF GivenOf
    <3> QED BY <3>1, <3>2
  <2>2. inbox[t] = <<>>
    BY DEF SleeperInit
  <2>3. Boxes[t] = <<>> \o <<>>
    BY <2>1, <2>2, BoxesAre
  <2> QED BY <2>3
<1> QED BY <1>7, <1>8, <1>12, <1>13

LEMMA InitKeeps ==
    ASSUME SleeperInit
    PROVE  Inv /\ Place /\ Clocked
<1>1. /\ Inv /\ Runnable = Client /\ Waiting = {Io} /\ Post = <<>>
      /\ \A c \in Client : c \in Thread /\ c # Io /\ Boxes[c] = <<>>
      /\ Io \in Thread
  BY FirstInv, Cast DEF Post
<1>2. /\ pc[Io] = "add" /\ slot[Io] = "cont" /\ ls = <<>> /\ rounds = 0
      /\ \A c \in Client : pc[c] = "awake" /\ count[c] = 0
  BY <1>1 DEF SleeperInit
<1>3. PostNo = {} /\ BedNo = {}
  BY <1>1, <1>2 DEF PostNo, BedNo
<1>4. Typed
  <2>1. pc \in [Thread -> SleeperPlace \cup ClientPlace]
    BY DEF SleeperInit, SleeperPlace, ClientPlace
  <2>2. /\ count \in [Thread -> Nat] /\ want \in [Thread -> Nat]
        /\ age \in [Thread -> Nat] /\ late \in [Thread -> Nat]
        /\ held = [t \in Thread |-> <<>>] /\ links = [t \in Thread |-> NoThread]
    BY DEF SleeperInit
  <2>3. ls \in Seq(Bed)
    BY <1>2
  <2> QED BY <1>2, <2>1, <2>2, <2>3 DEF Typed, SleeperPlace, ClientPlace
<1>5. Routine
  BY <1>1, <1>2, <1>3 DEF Routine, Live
<1>6. Turns
  BY <1>2 DEF Turns
<1>7. Fresh
  BY <1>1, <1>2, <1>3 DEF Fresh, HasRequest, HasBed
<1>8. Roused
  BY <1>2 DEF Roused
<1>9. Clocked
  <2>1. \A c \in Client : ~Hopes(c) /\ ~Waits(c)
    BY <1>2 DEF Hopes, Waits
  <2>2. Dues(ls, [i \in 1..Len(ls) |-> 0])
    BY <1>2 DEF Dues
  <2> QED BY <2>1, <2>2 DEF Clocked, Timed
<1> QED BY <1>1, <1>4, <1>5, <1>6, <1>7, <1>8, <1>9 DEF Place

LEMMA NothingKeeps ==
    ASSUME Inv, Place, Clocked, UNCHANGED allVars
    PROVE  Inv' /\ Place' /\ Clocked'
<1>1. /\ UNCHANGED vars
      /\ UNCHANGED <<pc, ls, rounds, count, want, age, late, held, links, slot, todo, done, inbox>>
  BY DEF allVars, sleeperVars, vars
<1>2. Inv'
  BY <1>1, NextInv
<1>3. UNCHANGED <<Boxes, Live, Away>>
  BY <1>1, BoxesAre DEF Live, Runnable, Waiting, Away
<1>4. Typed' /\ Routine' /\ Turns'
  BY <1>1, <1>3 DEF Place, Typed, Routine, Turns, Serves, Post, PostNo, Cur
<1>5. /\ \A c \in Client : Waits(c)' <=> Waits(c)
      /\ \A c \in Client : Hopes(c)' <=> Hopes(c)
      /\ \A c \in Client : Young(c)' <=> Young(c)
      /\ \A c \in Client : HasBed(c)' <=> HasBed(c)
      /\ PostNo' = PostNo /\ Post' = Post
  BY <1>1, <1>3 DEF Waits, Hopes, Young, HasBed, BedNo, PostNo, Post
<1>6. Fresh'
  BY <1>1, <1>3, <1>5, FreshKept DEF Place
<1>7. Roused'
  BY <1>1 DEF Place, Roused, Serves
<1>8. \A c \in Client : Steady(c)
  BY <1>1, <1>3, <1>4, SameClock DEF Place
<1>9. Clocked'
  BY <1>1, <1>4, <1>5, <1>8, ClockKept DEF Place, Serves
<1> QED BY <1>2, <1>4, <1>6, <1>7, <1>9 DEF Place

LEMMA StepKeeps ==
    ASSUME Inv, Place, Clocked, [SleeperNext]_allVars
    PROVE  Inv' /\ Place' /\ Clocked'
<1>1. CASE UNCHANGED allVars
  BY <1>1, NothingKeeps
<1>2. CASE SleeperNext
  <2>1. Inv'
    BY <1>2, TurnInv DEF Place
  <2>2. UNCHANGED <<held, forks, sent>>
    BY <1>2 DEF SleeperNext
  <2>3. CASE WaitForFirst \/ CheckMail
    BY <2>1, <2>2, <2>3, LookKeeps
  <2>4. CASE Add
    BY <2>1, <2>2, <2>4, AddKeeps
  <2>5. CASE FindForEver
    BY <2>1, <2>2, <2>5, FindForEverKeeps
  <2>6. CASE SleepFor
    BY <2>1, <2>2, <2>6, SleepForKeeps
  <2>7. CASE Wake
    BY <2>1, <2>2, <2>7, WakeKeeps
  <2>8. CASE Cut
    BY <2>1, <2>2, <2>8, CutKeeps
  <2>9. CASE \E n \in Duration : Sleep(n)
    BY <2>1, <2>2, <2>9, SleepKeeps
  <2>10. CASE FallAsleep
    BY <2>1, <2>2, <2>10, FallAsleepKeeps
  <2>11. CASE WakeUp
    BY <2>1, <2>2, <2>11, WakeUpKeeps
  <2>12. CASE Work \/ Halt
    BY <2>1, <2>2, <2>12, IdleKeeps
  <2>13. CASE ClientEnds
    BY <2>1, <2>2, <2>13, ClientEndsKeeps
  <2>14. CASE Round
    BY <2>1, <2>2, <2>14, RoundKeeps
  <2> QED
    BY <1>2, <2>3, <2>4, <2>5, <2>6, <2>7, <2>8, <2>9, <2>10, <2>11, <2>12, <2>13, <2>14
       DEF SleeperNext
<1> QED BY <1>1, <1>2

\* In every state the sleeper, its clients and the clock are as they should be.
THEOREM SleepersClock == SleeperSpec => [](Inv /\ Place /\ Clocked)
  BY InitKeeps, StepKeeps, PTL DEF SleeperSpec

\* Who sleeps for the first time is not woken before the rounds it asked for
\* have gone by, whatever beds find-bed doubles for others.
THEOREM FirstSleepIsWhole == SleeperSpec => []FirstSleepWhole
<1>1. ASSUME Inv, Place PROVE FirstSleepWhole
  <2>1. \A t \in Runnable : t \in Thread => slot[t] # "cont"
    BY <1>1 DEF Inv, RunsOnce, Waiting
  <2> QED BY <1>1, <2>1, Cast DEF Place, Roused, FirstSleepWhole, Woken, Asleep
<1> QED BY <1>1, SleepersClock, PTL

\* No one sleeps on past the rounds it asked for, the rounds the sleeper was not
\* there for it, and those by which others have put it off.
THEOREM SleepersAreNotLate == SleeperSpec => []NotLate
<1>1. ASSUME Inv, Place, Clocked PROVE NotLate
  <2> SUFFICES ASSUME Serves, NEW c \in Client, pc[c] = "asleep"
               PROVE  age[c] <= want[c] + late[c]
    BY DEF NotLate, Asleep
  <2>1. age[c] \in Nat /\ want[c] \in Nat /\ late[c] \in Nat
    BY <1>1, Ages DEF Place
  <2>2. CASE slot[c] # "cont"
    BY <1>1, <2>2 DEF Place, Roused
  <2>3. CASE slot[c] = "cont"
    <3>1. PICK f : Dues(ls, f) /\ Timed(f)
      BY <1>1 DEF Clocked
    <3>2. InTime(c, f)
      BY <2>3, <3>1 DEF Timed, Hopes, Waits
    <3>3. Left \in Nat /\ Passed \in Nat /\ Away \in {0, 1}
      BY <1>1, Numbers DEF Place
    <3>4. ASSUME age[c] + Left + Away <= late[c] PROVE age[c] <= want[c] + late[c]
      <4>1. \A a, w, l, m, x \in Nat : a + m + x <= l => a <= w + l
        OBVIOUS
      <4> QED BY <2>1, <3>3, <3>4, <4>1
    <3>5. ASSUME NEW i \in BedNo, age[c] + f[i] + Away <= want[c] + late[c] + Passed
          PROVE  age[c] <= want[c] + late[c]
      <4>1. ls \in Seq(Bed) /\ ls # <<>> /\ Head(ls) = ls[1] /\ 1 \in 1..Len(ls)
        BY <1>1, <3>5 DEF Place, Typed, BedNo
      <4>2. f[1] = ls[1].n /\ f[i] \in Nat /\ f[i] >= f[1] /\ f[1] \in Nat
        BY <3>1, <4>1, DuesGrow DEF Dues, BedNo
      <4>3. Passed <= f[1]
        <5>1. rounds \in Nat /\ \A a, b \in Nat : a - b <= a
          BY <1>1 DEF Place, Typed
        <5>2. ls[1].n - rounds <= ls[1].n /\ 0 <= ls[1].n
          BY <4>2, <5>1
        <5> QED BY <4>1, <4>2, <5>2 DEF Passed
      <4>4. \A a, w, l, x, d, e, q \in Nat :
               a + d + x <= w + l + q /\ d >= e /\ q <= e => a <= w + l
        OBVIOUS
      <4>5. Away \in Nat
        BY <3>3
      <4> QED BY <2>1, <3>3, <3>5, <4>2, <4>3, <4>4, <4>5
    <3> QED BY <3>2, <3>4, <3>5 DEF InTime
  <2> QED BY <2>2, <2>3
<1> QED BY <1>1, SleepersClock, PTL

\* While the sleeper serves, it has a bed or a request of everyone who waits to
\* be woken: no one sleeps for ever for having been dropped from the list.
THEOREM NoSleeperForgotten == SleeperSpec => []NoneForgotten
<1>1. ASSUME Inv, Place, Clocked PROVE NoneForgotten
  <2> SUFFICES ASSUME Serves, NEW c \in Client, pc[c] = "asleep", c \notin Runnable
               PROVE  HasBed(c) \/ HasRequest(c)
    BY Cast DEF NoneForgotten, Asleep, HasBed, HasRequest, BedNo, PostNo, Post, Boxes
  <2>1. c \in Live
    BY <1>1 DEF Place, Turns
  <2>2. Waits(c)
    BY <2>1 DEF Live, Waiting, Waits
  <2>3. PICK f : Timed(f)
    BY <1>1 DEF Clocked
  <2> QED BY <2>2, <2>3 DEF Timed, Hopes, InTime, HasBed, HasRequest
<1> QED BY <1>1, SleepersClock, PTL
==============================================================================
