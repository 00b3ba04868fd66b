------------------------------- MODULE Sleeper -------------------------------
(***************************************************************************)
(* The thread 'io of libraries/owl/io.scm, which wakes threads that sleep. *)
(* Time is counted in rounds of the thread controller: the sleeper keeps   *)
(* the sleepers in a list, each with the rounds that lie between it and    *)
(* the one before, lets that many rounds go by, and looks for new requests *)
(* only in between.  When no other thread is left to run it makes the      *)
(* machine sleep instead (ten milliseconds for a round).  A request may    *)
(* double the first bed of the list: see FindBed.                          *)
(*                                                                         *)
(* A client asks with (interact 'io n): it is not switched between its     *)
(* mail and its wait-mail (NotCut of Interop.tla), so the two follow each  *)
(* other here.                                                             *)
(***************************************************************************)
EXTENDS Threading

CONSTANTS Io, Client,
          Duration,  \* arguments of sleep: rounds, or NotFixnum
          NotFixnum, \* any other value, as a number that is no duration
          Fixed,     \* rounds slept for NotFixnum ("silent fix")
          MaxSleep,  \* bound: sleeps of one client
          MaxCut     \* bound: time slices that end a turn of the sleeper

ASSUME SleeperAssumption ==
    /\ Client \cup {Io} \subseteq Thread /\ Io \notin Client
    /\ IsFiniteSet(Client) /\ MaxMail >= 1
    /\ Duration \subseteq 0..MaxMail /\ NotFixnum \in 0..MaxMail
    /\ Fixed \in Nat /\ MaxSleep \in Nat /\ MaxCut \in Nat

VARIABLES pc,      \* where a thread is in its program
          ls,      \* ((rounds . id) ...), as records
          rounds,  \* the argument of sleep-for
          count,   \* sleeps of each client so far
          cuts     \* time slices that ended a turn of the sleeper

\* Kept for the model only, for each client that sleeps:
VARIABLES want,    \* the rounds it asked for
          age,     \* the rounds since
          late     \* rounds the sleeper was not there for it

sleeperVars == <<pc, ls, rounds, count, cuts, want, age, late>>
allVars == <<vars, sleeperVars>>

At(t, p) == todo # <<>> /\ Cur = t /\ pc[t] = p
Asleep == {t \in Client : pc[t] = "asleep"}

\* The sleeper has not lost itself in find-bed.
Serves == pc[Io] \notin {"endless", "ended"}

------------------------------------------------------------------------------
(* The list of sleepers.                                                   *)

\* Mutant: the first bed keeps its distance, though the new one lies before it.
FindBedUnadjusted(beds, id, n) ==
    LET first  == Head(beds)
        copies == [i \in 1..(n \div first.n) |-> first]
    IN  IF beds = <<>> THEN <<[n |-> n, id |-> id]>>
        ELSE copies \o <<[n |-> n % first.n, id |-> id], first>> \o Tail(beds)

\* Mutant: only what is left of n after the first bed is counted.
FindBedOnce(beds, id, n) ==
    IF beds = <<>> THEN <<[n |-> n, id |-> id]>>
    ELSE <<[n |-> n % Head(beds).n, id |-> id]>> \o
         <<[Head(beds) EXCEPT !.n = @ - (n % Head(beds).n)]>> \o Tail(beds)

\* Mutant: the new bed takes the place of the first one.
FindBedTaken(beds, id, n) ==
    IF beds = <<>> THEN <<[n |-> n, id |-> id]>>
    ELSE <<[n |-> n % Head(beds).n, id |-> id]>> \o Tail(beds)

\* find-bed.  It goes on with the list it was called with, not with the rest
\* of it: as often as the distance n goes beyond the first bed, that bed is put
\* in front once more, and the new one comes before the bed that was the first.
FindBed(beds, id, n) ==
    LET first  == Head(beds)
        copies == [i \in 1..(n \div first.n) |-> first]
        d      == n % first.n
    IN  IF beds = <<>> THEN <<[n |-> n, id |-> id]>>
        ELSE copies \o <<[n |-> d, id |-> id], [n |-> first.n - d, id |-> first.id]>>
                    \o Tail(beds)

\* For the same reason it never ends when the first bed is due at once.
Endless(beds) == beds # <<>> /\ Head(beds).n = 0

\* How many rounds an envelope asks for.
Asks(env) == IF env.msg = NotFixnum THEN Fixed ELSE env.msg

\* add-sleeper
AddSleeper(beds, env) ==
    FindBed(beds, env.from, Asks(env))

------------------------------------------------------------------------------
(* The sleeper.                                                            *)

\* The list is empty: wait for the first one.
WaitForFirst ==
    /\ At(Io, "sleeper") /\ ls = <<>>
    /\ TakeMail \/ WaitMail
    /\ pc' = [pc EXCEPT ![Io] = "add"]
    /\ UNCHANGED <<ls, rounds, count, cuts, want, age, late>>

\* (check-mail); without mail, sleep-for the first bed's rounds.
CheckMail ==
    /\ At(Io, "sleeper") /\ ls # <<>>
    /\ \/ TakeMail /\ pc' = [pc EXCEPT ![Io] = "add"] /\ UNCHANGED rounds
       \/ NoMail /\ pc' = [pc EXCEPT ![Io] = "sleep-for"] /\ rounds' = Head(ls).n
    /\ UNCHANGED <<ls, count, cuts, want, age, late>>

\* The rounds by which a request puts off who has a bed behind the first one.
PutOff(t, n) ==
    IF /\ ls # <<>> /\ t # Head(ls).id
       /\ \E i \in 2..Len(ls) : ls[i].id = t
    THEN n - (n % Head(ls).n) ELSE 0

Add ==
    /\ At(Io, "add")
    /\ Consume
    /\ LET env == Head(todo).given[1]
       IN  \/ /\ ~Endless(ls)
              /\ ls' = AddSleeper(ls, env)
              /\ pc' = [pc EXCEPT ![Io] = "sleeper"]
              /\ late' = [t \in Thread |-> late[t] + PutOff(t, Asks(env))]
           \/ /\ Endless(ls)
              /\ pc' = [pc EXCEPT ![Io] = "endless"]
              /\ UNCHANGED <<ls, late>>
    /\ UNCHANGED <<rounds, count, cuts, want, age>>

\* find-bed conses the same bed on and on, until the memory is used up.
FindForEver ==
    /\ At(Io, "endless")
    /\ \/ TimeSlice /\ UNCHANGED pc
       \/ Exit /\ pc' = [pc EXCEPT ![Io] = "ended"]
    /\ UNCHANGED <<ls, rounds, count, cuts, want, age, late>>

\* The function f, advanced by n for every client that sleeps.
Advance(f, n) == [t \in Thread |-> IF t \in Asleep THEN f[t] + n ELSE f[t]]

\* sleep-for: (single-thread?), and the turn is given up.  A machine that is
\* alone sleeps through all rounds at once, and gives up its turn after that
\* if it was not interrupted.
SleepFor ==
    /\ At(Io, "sleep-for") /\ rounds > 0
    /\ \/ /\ Rest = <<>> /\ done = <<>>
          /\ rounds' = 0
          /\ age' = Advance(age, rounds)
          /\ \/ TimeSlice /\ late' = Advance(late, 1)
             \/ UNCHANGED <<mcpVars, late>>
       \/ /\ Rest # <<>> \/ done # <<>>
          /\ rounds' = rounds - 1
          /\ TimeSlice
          /\ UNCHANGED <<age, late>>
    /\ UNCHANGED <<pc, ls, count, cuts, want>>

\* The mail that wakes the first one, and wake-neighbours: all that are due at
\* the same time.
Wake ==
    /\ At(Io, "sleep-for") /\ rounds = 0
    /\ Mail(Head(ls).id, 1)
    /\ ls' = Tail(ls)
    /\ pc' = IF ls' # <<>> /\ Head(ls').n = 0 THEN pc
             ELSE [pc EXCEPT ![Io] = "sleeper"]
    /\ UNCHANGED <<rounds, count, cuts, want, age, late>>

\* The machine ends a turn of the sleeper on its own account.
Cut ==
    /\ todo # <<>> /\ Cur = Io /\ Serves /\ cuts < MaxCut
    /\ TimeSlice
    /\ cuts' = cuts + 1
    /\ late' = Advance(late, 1)
    /\ UNCHANGED <<pc, ls, rounds, count, want, age>>

------------------------------------------------------------------------------
(* The clients.                                                            *)

\* (sleep n), the first half: the mail.  A request that comes while the
\* sleeper counts rounds is not looked at before it has counted them all, and
\* one that comes after its turn not in this round.
Sleep(n) ==
    /\ todo # <<>> /\ Cur \in Client /\ pc[Cur] = "awake" /\ count[Cur] < MaxSleep
    /\ Mail(Io, n)
    /\ pc' = [pc EXCEPT ![Cur] = "asks"]
    /\ count' = [count EXCEPT ![Cur] = @ + 1]
    /\ want' = [want EXCEPT ![Cur] = IF n = NotFixnum THEN Fixed ELSE n]
    /\ age' = [age EXCEPT ![Cur] = 0]
    /\ late' = [late EXCEPT ![Cur] = (IF pc[Io] = "sleep-for" THEN rounds ELSE 0)
                                   + (IF Io \in Ids(done) THEN 1 ELSE 0)]
    /\ UNCHANGED <<ls, rounds, cuts>>

\* The second half.  The sleeper has not run in between; what it mailed before
\* is taken for its answer.
FallAsleep ==
    /\ todo # <<>> /\ Cur \in Client /\ pc[Cur] = "asks"
    /\ TakeMail \/ WaitMail
    /\ pc' = [pc EXCEPT ![Cur] = "asleep"]
    /\ UNCHANGED <<ls, rounds, count, cuts, want, age, late>>

WakeUp ==
    /\ todo # <<>> /\ Cur \in Asleep
    /\ Consume
    /\ pc' = [pc EXCEPT ![Cur] = "awake"]
    /\ UNCHANGED <<ls, rounds, count, cuts, want, age, late>>

\* A thread that computes.
Work ==
    /\ todo # <<>> /\ Cur \in Client /\ pc[Cur] = "awake" /\ count[Cur] < MaxSleep
    /\ TimeSlice
    /\ UNCHANGED sleeperVars

ClientEnds ==
    /\ todo # <<>> /\ Cur \in Client /\ pc[Cur] = "awake"
    /\ Exit
    /\ pc' = [pc EXCEPT ![Cur] = "ended"]
    /\ UNCHANGED <<ls, rounds, count, cuts, want, age, late>>

\* A round has gone by for everyone who sleeps and has not been woken (it is
\* not counted any more when no one will be).
Round ==
    /\ NewRound
    /\ age' = [t \in Thread |-> IF Serves /\ t \in Asleep \cap Waiting
                                THEN age[t] + 1 ELSE age[t]]
    /\ UNCHANGED <<pc, ls, rounds, count, cuts, want, late>>

Halt == HaltThreadController /\ UNCHANGED sleeperVars

------------------------------------------------------------------------------
\* start-io has forked the sleeper, which waits for mail.
SleeperInit ==
    /\ \E order \in SetToSeqs(Client) :
          todo = [i \in 1..Len(order) |-> [id |-> order[i], given |-> <<>>]]
    /\ done = <<>>
    /\ slot = [t \in Thread |-> IF t = Io THEN "cont" ELSE "none"]
    /\ inbox = [t \in Thread |-> <<>>]
    /\ links = [t \in Thread |-> NoThread]
    /\ retval = 0 /\ halted = FALSE
    /\ held = [t \in Thread |-> <<>>]
    /\ forks = 0 /\ sent = 0
    /\ pc = [t \in Thread |-> IF t = Io THEN "add" ELSE "awake"]
    /\ ls = <<>> /\ rounds = 0 /\ cuts = 0
    /\ count = [t \in Thread |-> 0]
    /\ want = [t \in Thread |-> 0]
    /\ age = [t \in Thread |-> 0]
    /\ late = [t \in Thread |-> 0]

SleeperNext ==
    /\ \/ WaitForFirst \/ CheckMail \/ Add \/ FindForEver \/ SleepFor \/ Wake \/ Cut
       \/ \E n \in Duration : Sleep(n)
       \/ FallAsleep \/ WakeUp \/ Work \/ ClientEnds
       \/ Round \/ Halt
    /\ UNCHANGED <<held, forks, sent>>

SleeperSpec == SleeperInit /\ [][SleeperNext]_allVars

\* The machine goes on, and no thread computes for ever.
SleeperFairSpec == SleeperSpec /\ WF_allVars(SleeperNext)

------------------------------------------------------------------------------
(* Correctness.                                                            *)

Woken(t) == t \in Asleep /\ t \in Runnable

\* "sleep a thread n rounds" (io.scm:9): no one is woken before the rounds it
\* asked for have gone by.
NotEarly == \A t \in Client : Woken(t) => age[t] >= want[t]

\* The first time, that is so: the beds that find-bed doubles wake a thread
\* too often, and the mail that is left over ends a later sleep, but whatever
\* others ask for, the new bed itself and all copies are not due too early.
FirstSleepWhole ==
    \A t \in Client : Woken(t) /\ count[t] = 1 => age[t] >= want[t]

\* No one sleeps longer than it asked for, and the rounds for which the sleeper
\* did not look at its mail or did not get its turn, and the rounds by which
\* find-bed put it off for others.
NotLate ==
    Serves => \A t \in Asleep : age[t] <= want[t] + late[t]

\* Everyone who sleeps has a bed, or a request on its way to the sleeper.
NoneForgotten ==
    Serves => \A t \in Asleep \ Runnable :
                 \/ \E i \in 1..Len(ls) : ls[i].id = t
                 \/ \E i \in 1..Len(Box(Io)) : Box(Io)[i].from = t

\* Everyone wakes up, unless the sleeper gets lost.
WakesUp ==
    \A t \in Client : pc[t] = "asleep" ~> pc[t] = "awake" \/ ~Serves
==============================================================================
