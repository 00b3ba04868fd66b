------------------------------- MODULE Interop -------------------------------
(***************************************************************************)
(* Request and answer between threads (owl/interop.scm) on top of the      *)
(* thread controller, with the quanta of the virtual machine (SYS, RUN and *)
(* apply of src/olvm.c).                                                   *)
(*                                                                         *)
(* Client threads call (interact Server n), that is mail followed by       *)
(* accept-mail; those in Late compute something between the two, and those *)
(* in Poller use poll-mail-from for the second.  The server is the loop of *)
(* fork-intern-interner; Noise threads mail the clients things they did    *)
(* not ask for; Spinner threads mail a thread that is gone, for ever, once   *)
(* every `pace' ticks.  Who is a Poller, a Noise or a Spinner is chosen in   *)
(* the first state.                                                        *)
(* Late clients have a mailbox (fork-server), the others have none, as     *)
(* threads made by (fork thunk) have none.                                 *)
(*                                                                         *)
(* Time is counted in ticks, one for every application of a procedure.     *)
(* left[t] is how many of them thread t makes before its next interop.     *)
(* `bank' is what the machine keeps of the quantum between two turns, so a *)
(* turn of the head of todo is a comparison of the two.                    *)
(***************************************************************************)
EXTENDS Threading

CONSTANTS Client, Late, Server,
          Casts,     \* [poller, noise, spinner: sets of threads, rounds, pace],
                     \* where rounds is that argument of poll-mail-from and
                     \* pace the ticks from one interop of a spinner to the next
          MaxAsk,    \* bound: requests per client, mails per Noise thread
          Ticks,     \* TICKS and thread-quantum
          Reserve,   \* ticks too few to be deposited
          UserCost,  \* ticks a program may make between two calls of these
          AskCost,   \* from the interop of mail to the one of wait-mail
          LookCost   \* from an answer of interop 13 to the next interop

ASSUME InteropAssumption ==
    /\ Late \subseteq Client /\ MaxAsk \in 1..MaxMail
    /\ IsFiniteSet(Thread) /\ Server \notin Client
    /\ \A c \in Casts :
         /\ Client \cup c.noise \cup c.spinner \cup {Server} \subseteq Thread \ {Main}
         /\ c.noise \cap (Client \cup {Server}) = {}
         /\ c.spinner \cap (Client \cup c.noise \cup {Server}) = {}
         /\ c.poller \subseteq Client /\ c.rounds \in Nat /\ c.pace \in Nat \ {0}
    /\ {Ticks, Reserve, AskCost, LookCost} \cup UserCost \subseteq Nat
    /\ Reserve < Ticks

VARIABLES cast,   \* who does what
          pc,     \* where each thread is in its program
          left,   \* ticks to its next interop
          count,  \* requests or mails made so far
          got,    \* the last answer accepted
          rounds, \* polls left
          bank    \* ticks deposited at interop

protocolVars == <<pc, left, count, got, rounds>>
allVars == <<vars, protocolVars, bank, cast>>

Poller  == cast.poller
Noise   == cast.noise
Spinner == cast.spinner

------------------------------------------------------------------------------
(* The machine.                                                            *)

\* RUN: what the thread at the head of todo is started with.
Quantum == IF bank # 0 THEN bank ELSE Ticks

\* Mutant: everything that is left is deposited.
DepositAll(ticker) == ticker

\* SYS: ticks kept for the next RUN.
Deposit(ticker) == IF ticker > Reserve THEN ticker ELSE 0

\* The running thread makes its interop in time, to go on at place p, with its
\* next interop `cost' ticks after the answer.
Calls(p, cost) ==
    /\ Ready /\ left[Cur] <= Quantum
    /\ bank' = Deposit(Quantum - left[Cur])
    /\ pc' = [pc EXCEPT ![Cur] = p]
    /\ left' = [left EXCEPT ![Cur] = cost]

\* apply: the ticks run out first.  The application that finds it out is saved
\* and made without a tick when the thread is run again.
OutOfTicks ==
    /\ todo # <<>> /\ left[Cur] > Quantum
    /\ TimeSlice
    /\ left' = [left EXCEPT ![Cur] = @ - (Quantum + 1)]
    /\ bank' = 0
    /\ UNCHANGED <<pc, count, got, rounds>>

\* A thread returns from its thunk; the machine forgets the deposit.
Ends ==
    /\ Exit
    /\ bank' = 0
    /\ pc' = [pc EXCEPT ![Cur] = "ended"]
    /\ UNCHANGED <<left, count, got, rounds>>

Scheduler ==
    /\ NewRound \/ HaltThreadController
    /\ UNCHANGED <<protocolVars, bank>>

------------------------------------------------------------------------------
(* The client.                                                             *)

At(p) == todo # <<>> /\ pc[Cur] = p

\* (mail whom message)
Ask ==
    /\ At("work") /\ Cur \in Client /\ count[Cur] < MaxAsk
    /\ Mail(Server, count[Cur] + 1)
    /\ \E cost \in IF Cur \in Late THEN UserCost ELSE {AskCost} : Calls("wait", cost)
    /\ count' = [count EXCEPT ![Cur] = @ + 1]
    /\ rounds' = [rounds EXCEPT ![Cur] = cast.rounds]
    /\ UNCHANGED <<got, held>>

\* Mutant: (check-mail) for (wait-mail), and no mail taken for an answer.
AcceptCheck ==
    /\ At("wait") /\ Cur \notin Poller
    /\ \/ TakeMail /\ Calls("look", LookCost)
       \/ NoMail /\ Calls("return", LookCost)
    /\ UNCHANGED <<count, got, rounds, held>>

\* accept-mail: (wait-mail)
AcceptWait ==
    /\ At("wait") /\ Cur \notin Poller
    /\ TakeMail \/ WaitMail
    /\ Calls("look", LookCost)
    /\ UNCHANGED <<count, got, rounds, held>>

\* poll-mail-from: (check-mail), and what is done when there is none: one
\* round less, or give up with the default.
Poll ==
    /\ At("wait") /\ Cur \in Poller
    /\ \/ /\ TakeMail
          /\ Calls("look", LookCost)
          /\ UNCHANGED rounds
       \/ /\ NoMail
          /\ IF rounds[Cur] = 0
             THEN Calls("return", LookCost) /\ UNCHANGED rounds
             ELSE /\ Calls("wait", LookCost)
                  /\ rounds' = [rounds EXCEPT ![Cur] = @ - 1]
    /\ UNCHANGED <<count, got, held>>

\* Mutant: the first envelope is taken for the answer.
LookAtAny ==
    /\ At("look") /\ Cur \in Client
    /\ Consume
    /\ got' = [got EXCEPT ![Cur] = Head(todo).given[1].msg]
    /\ pc' = [pc EXCEPT ![Cur] = "return"]
    /\ UNCHANGED <<left, count, rounds, bank, held>>

\* Mutant: what was accepted is put with the spam, too.
LookAndKeep ==
    /\ At("look") /\ Cur \in Client
    /\ Consume
    /\ LET env == Head(todo).given[1]
       IN  /\ held' = [held EXCEPT ![Cur] = <<env>> \o @]
           /\ IF env.from = Server
              THEN /\ got' = [got EXCEPT ![Cur] = env.msg]
                   /\ pc' = [pc EXCEPT ![Cur] = "return"]
              ELSE /\ pc' = [pc EXCEPT ![Cur] = "wait"]
                   /\ UNCHANGED got
    /\ UNCHANGED <<left, count, rounds, bank>>

\* Is it from whom we asked?  If not, it is spam to be put back later.
Look ==
    /\ At("look") /\ Cur \in Client
    /\ Consume
    /\ LET env == Head(todo).given[1]
       IN  IF env.from = Server
           THEN /\ got' = [got EXCEPT ![Cur] = env.msg]
                /\ pc' = [pc EXCEPT ![Cur] = "return"]
                /\ UNCHANGED held
           ELSE /\ held' = [held EXCEPT ![Cur] = <<env>> \o @]
                /\ pc' = [pc EXCEPT ![Cur] = "wait"]
                /\ UNCHANGED got
    /\ UNCHANGED <<left, count, rounds, bank>>

\* (return-mails rev-spam); poll-mail-from leaves it out when there is none.
Return ==
    /\ At("return") /\ Ready
    /\ ReturnMails(held[Cur])
    /\ held' = [held EXCEPT ![Cur] = <<>>]
    /\ \E cost \in UserCost : Calls("work", cost)
    /\ UNCHANGED <<count, got, rounds>>

ClientEnds ==
    /\ At("work") /\ Cur \in Client \cup Noise /\ count[Cur] = MaxAsk
    /\ Ends
    /\ UNCHANGED held

------------------------------------------------------------------------------
(* The server: (loop) of fork-intern-interner.                             *)

Receive ==
    /\ At("receive")
    /\ TakeMail \/ WaitMail
    /\ \E cost \in UserCost : Calls("answer", cost)
    /\ UNCHANGED <<count, got, rounds, held>>

TakeRequest ==
    /\ At("answer")
    /\ Consume
    /\ held' = [held EXCEPT ![Cur] = Head(todo).given]
    /\ UNCHANGED <<protocolVars, bank>>

Answer ==
    /\ At("answer") /\ Ready
    /\ Mail(held[Cur][1].from, held[Cur][1].msg)
    /\ held' = [held EXCEPT ![Cur] = <<>>]
    /\ \E cost \in UserCost : Calls("receive", cost)
    /\ UNCHANGED <<count, got, rounds>>

------------------------------------------------------------------------------
(* Other programs.                                                         *)

Disturb(c) ==
    /\ At("work") /\ Cur \in Noise /\ count[Cur] < MaxAsk
    /\ Mail(c, count[Cur] + 1)
    /\ \E cost \in UserCost : Calls("work", cost)
    /\ count' = [count EXCEPT ![Cur] = @ + 1]
    /\ UNCHANGED <<got, rounds, held>>

Spin ==
    /\ At("work") /\ Cur \in Spinner
    /\ Mail(Main, 1)
    /\ Calls("work", cast.pace)
    /\ UNCHANGED <<count, got, rounds, held>>

------------------------------------------------------------------------------
Threads == Client \cup Noise \cup Spinner

\* 'init has forked everyone and ended, the server waits for mail.
InteropInit ==
    /\ cast \in Casts
    /\ \E order \in SetToSeqs(Threads) :
          todo = [i \in 1..Len(order) |-> [id |-> order[i], given |-> <<>>]]
    /\ done = <<>>
    /\ slot = [t \in Thread |-> IF t = Server THEN "cont"
                               ELSE IF t \in Late THEN "inbox" ELSE "none"]
    /\ inbox = [t \in Thread |-> <<>>]
    /\ links = [t \in Thread |-> NoThread]
    /\ retval = 0 /\ halted = FALSE
    /\ held = [t \in Thread |-> <<>>]
    /\ forks = 0 /\ sent = 0
    /\ pc = [t \in Thread |-> IF t = Server THEN "answer" ELSE "work"]
    /\ left \in {f \in [Thread -> UserCost \cup {0}] :
                    \A t \in Thread : f[t] = 0 <=> t \notin Threads \cup {Server}}
    /\ count = [t \in Thread |-> 0]
    /\ got = [t \in Thread |-> 0]
    /\ rounds = [t \in Thread |-> 0]
    /\ bank = 0

InteropNext ==
    /\ \/ (OutOfTicks \/ Scheduler) /\ UNCHANGED held
       \/ Ask \/ AcceptWait \/ Poll \/ Look \/ Return \/ ClientEnds
       \/ Receive \/ TakeRequest \/ Answer
       \/ \E c \in Client : Disturb(c)
       \/ Spin
    /\ UNCHANGED <<forks, sent, cast>>

InteropSpec == InteropInit /\ [][InteropNext]_allVars

\* The machine goes on.
InteropFairSpec == InteropSpec /\ WF_allVars(InteropNext)

------------------------------------------------------------------------------
(* Correctness.                                                            *)

\* A client that has mailed its request is waiting for the answer before any
\* other thread runs.  It has no mailbox, so an answer that came in between
\* would be dropped and the client would wait for ever.  Nothing in interact
\* says so: it holds because a thread comes back from an interop with more
\* ticks than the machine's reserve.
NotCut ==
    \A t \in Client \ Poller : slot[t] = "none" /\ t \in Ids(done) => pc[t] # "wait"

\* What interact returns is the answer to the request it was called with.
AnswerMatches ==
    \A t \in Client \ Poller : pc[t] = "return" => got[t] = count[t]

\* When a client has finished an interact it keeps nothing, and no answer of
\* the server is left in its inbox, where the next interact would take it for
\* its own.  (A client of poll-mail-from that gave up has no such promise.)
NoStaleAnswer ==
    \A t \in Client \ Poller : pc[t] = "work" =>
        /\ held[t] = <<>>
        /\ \A i \in 1..Len(inbox[t]) : inbox[t][i].from # Server

\* Each answer is accepted once, also by a thread that polls, gives up and
\* finds the late answer when it polls for the next one.
AcceptedOnce ==
    [][\A t \in Client : pc[t] = "look" /\ pc'[t] = "return" => got'[t] > got[t]]_allVars

\* A thread that makes an interop every `pace' ticks for ever is cut off now and
\* then, exactly if the last interop of a quantum leaves so much that SYS deposits
\* it, and too little for the next one.  Otherwise RUN gives it a whole quantum
\* once it gets to the reserve, again and again.
CutOff(pace) == Ticks % pace > Reserve

\* The processor is shared: no thread keeps it for ever.
Shared == Spinner # {} => CutOff(cast.pace)

\* Every thread that is in the run lists comes to the head of them, or ends
\* before: wakings, new rounds, which reverse the order of the threads, and the
\* ticks that are left to the next thread do not make one wait for ever.
TurnComes ==
    \A t \in Thread :
        t \in Runnable /\ Shared ~> t \notin Runnable \/ (todo # <<>> /\ Cur = t)

\* interact returns: the server answers every request, and no client waits
\* for ever, where the processor is shared.
Answered == \A t \in Client : pc[t] = "wait" /\ Shared ~> pc[t] = "work"

\* "at least in a one-core environment order-preserving" (interop.scm:142):
\* mails of one thread lie in the inbox of another in the order of sending.
OrderPreserving ==
    \A t \in Client : \A i, j \in 1..Len(inbox[t]) :
        /\ i < j
        /\ inbox[t][i].from = inbox[t][j].from
        => inbox[t][i].msg <= inbox[t][j].msg
==============================================================================
