------------------------------ MODULE Threading ------------------------------
(***************************************************************************)
(* The thread controller ("mcp") of lang/threading.scm.  It is one         *)
(* sequential function, (thread-controller todo done state), that runs the *)
(* threads of the Lisp in rounds: it pops the first thread of todo, lets   *)
(* the virtual machine run it for a quantum, and acts on the reason the    *)
(* machine gives for coming back, which is the end of the quantum or one   *)
(* of the numbered interops of owl/interop.scm.                            *)
(*                                                                         *)
(* One step of this module is one turn of that function: the quantum of    *)
(* the thread at the head of todo and the whole handler of the interop     *)
(* that ended it.  What a thread computes is left open, so a thread may    *)
(* ask for any interop at any turn.                                        *)
(*                                                                         *)
(* The association `state' of the code is split by the kind of its keys:   *)
(*   slot, inbox   what is stored under a thread's id: nothing ("none"), a *)
(*                 queue of envelopes ("inbox", the queue in inbox), or    *)
(*                 the continuation of a thread that waits for mail        *)
(*                 ("cont");                                               *)
(*   links         what is stored under link-tag: the thread to be told of *)
(*                 the end of another one;                                 *)
(*   retval        what is stored under return-value-tag.                  *)
(***************************************************************************)
EXTENDS Naturals, SequencesExt

CONSTANTS Thread,    \* the names threads may be given
          Main,      \* the thread the controller is started with ('init)
          NoThread,  \* "no entry" in links
          MaxMail,   \* bound: how many messages are sent by mail
          MaxFork,   \* bound: how many threads are forked
          ExitValue  \* the exit values programs propose

ASSUME ThreadAssumption == /\ Main \in Thread
                           /\ NoThread \notin Thread
                           /\ MaxMail \in Nat
                           /\ MaxFork \in Nat
                           /\ ExitValue \subseteq Nat

VARIABLES todo,    \* threads still to run in this round, first one first
          done,    \* threads that had their turn, last one first
          slot, inbox, links, retval,
          halted   \* thread-controller has returned

mcpVars == <<todo, done, slot, inbox, links, retval, halted>>

\* Kept for the model only: what the programs of the threads remember.
VARIABLES held,    \* envelopes a thread took and set aside, newest first
          forks,   \* number of threads forked so far
          sent     \* number of messages mailed so far

vars == <<todo, done, slot, inbox, links, retval, halted, held, forks, sent>>

\* An envelope is #(sender message).  Message 0 stands for the report that
\* the sender has ended: #(id #(finished ..)), #(id #(crashed ..)), ...
Envelope == [from : Thread, msg : 0..MaxMail]
Obituary(t) == [from |-> t, msg |-> 0]

\* #(id state): a runnable thread.  `given' is what its continuation will be
\* called with, as far as it matters here: an envelope or nothing.
Given == {<<>>} \cup {<<e>> : e \in Envelope}
Entry == [id : Thread, given : Given]

Ids(lst) == {lst[i].id : i \in 1..Len(lst)}

Cur == Head(todo).id
Rest == Tail(todo)

\* The running thread is past the point where it looked at what it was given.
Ready == todo # <<>> /\ Head(todo).given = <<>>

\* (cons (tuple id (lambda () (cont answer))) todo)
Resume(answer) == <<[id |-> Cur, given |-> answer]>>

------------------------------------------------------------------------------
(* Helpers of the controller.                                              *)

\* Mutant: the woken continuation gets the envelope twice, as if it took the
\* value and the rest of the queue.
WakedWithTwo(sl, to, env) ==
    IF sl[to] = "cont" THEN <<[id |-> to, given |-> <<env, env>>]>> ELSE <<>>

\* Mutant: the state is updated, and the list is returned as it was.
WakedNever(sl, to, env) == <<>>

\* Mutant: (fupd state to qnull) forgotten.
SlotAfterStale(sl, to) == sl

\* Mutant: the case of the missing inbox forgotten.
InboxAfterAny(sl, ib, to, env) == [ib EXCEPT ![to] = Append(@, env)]

\* Mutant: a waiting thread is woken with the envelope and finds it in its
\* new inbox too.
InboxAfterWake(sl, ib, to, env) ==
    IF sl[to] # "none" THEN [ib EXCEPT ![to] = Append(@, env)] ELSE ib

\* deliver-mail: the three cases of what is found under the addressee's id.
Waked(sl, to, env) ==
    IF sl[to] = "cont" THEN <<[id |-> to, given |-> <<env>>]>> ELSE <<>>

SlotAfter(sl, to) ==
    IF sl[to] = "cont" THEN [sl EXCEPT ![to] = "inbox"] ELSE sl

InboxAfter(sl, ib, to, env) ==
    IF sl[to] = "inbox" THEN [ib EXCEPT ![to] = Append(@, env)] ELSE ib

\* drop-from-list: the list without its first thread of that name.
DropFromList(lst, t) == RemoveFirstMatch(lst, LAMBDA e : e.id = t)

\* drop-delivering, with deliver-messages: forget the thread and its link, and
\* mail the report to the linked thread.  Links are only ever made with a
\* one-element list of subscribers, so there is at most one addressee.
DropDelivering(td, dn, t) ==
    LET who == links[t]
        sl  == [slot EXCEPT ![t] = "none"]
        ib  == [inbox EXCEPT ![t] = <<>>]
    IN  /\ done' = dn
        /\ links' = [links EXCEPT ![t] = NoThread]
        /\ IF who = NoThread
           THEN todo' = td /\ slot' = sl /\ inbox' = ib
           ELSE /\ todo' = Waked(sl, who, Obituary(t)) \o td
                /\ slot' = SlotAfter(sl, who)
                /\ inbox' = InboxAfter(sl, ib, who, Obituary(t))

------------------------------------------------------------------------------
(* The turns of thread-controller.  Only the variables of the controller   *)
(* are constrained here; Next adds what the programs remember.             *)

\* todo is exhausted: a new round runs the list done, in the order it has.
NewRound ==
    /\ todo = <<>> /\ done # <<>>
    /\ todo' = done /\ done' = <<>>
    /\ UNCHANGED <<slot, inbox, links, retval, halted>>

\* Nothing is left to run, whoever may still be waiting for mail.
HaltThreadController ==
    /\ todo = <<>> /\ done = <<>> /\ ~halted
    /\ halted' = TRUE
    /\ UNCHANGED <<todo, done, slot, inbox, links, retval>>

\* Mutant: the thread is put back where it came from.
TimeSliceInPlace ==
    /\ todo # <<>>
    /\ UNCHANGED <<todo, done, slot, inbox, links, retval, halted>>

\* 1: the quantum is over.
TimeSlice ==
    /\ todo # <<>>
    /\ done' = <<Head(todo)>> \o done
    /\ todo' = Rest
    /\ UNCHANGED <<slot, inbox, links, retval, halted>>

\* 2, 5, 14: finished, error raised by the program, memory limit.
Exit ==
    /\ Ready
    /\ DropDelivering(Rest, done, Cur)
    /\ UNCHANGED <<retval, halted>>

\* 3: error of the virtual machine; proposes the exit value 127.
Crash ==
    /\ Ready
    /\ retval' = 127
    /\ DropDelivering(Rest, done, Cur)
    /\ UNCHANGED halted

\* 4: fork.  The new thread runs first, then its parent.
Fork(t, link, mailbox) ==
    /\ Ready
    /\ todo' = <<[id |-> t, given |-> <<>>]>> \o (Resume(<<>>) \o Rest)
    /\ links' = IF link THEN [links EXCEPT ![t] = Cur] ELSE links
    /\ slot' = IF mailbox THEN [slot EXCEPT ![t] = "inbox"] ELSE slot
    /\ inbox' = IF mailbox THEN [inbox EXCEPT ![t] = <<>>] ELSE inbox
    /\ UNCHANGED <<done, retval, halted>>

\* Mutant: a left fold puts the newest envelope first.
ReturnMailsNewestFirst(rmails) ==
    /\ Ready
    /\ todo' = Resume(<<>>) \o Rest
    /\ slot' = [slot EXCEPT ![Cur] = "inbox"]
    /\ inbox' = [inbox EXCEPT ![Cur] = @ \o rmails]
    /\ UNCHANGED <<done, links, retval, halted>>

\* 6: put envelopes back into the own inbox.  rmails has the newest on top
\* and the fold adds from its far end, each one to the tail of the queue.
ReturnMails(rmails) ==
    /\ Ready
    /\ todo' = Resume(<<>>) \o Rest
    /\ slot' = [slot EXCEPT ![Cur] = "inbox"]
    /\ inbox' = [inbox EXCEPT ![Cur] = @ \o Reverse(rmails)]
    /\ UNCHANGED <<done, links, retval, halted>>

\* 9: mail.  A thread that waits is run right after the sender.
Mail(to, msg) ==
    LET env == [from |-> Cur, msg |-> msg]
    IN  /\ Ready
        /\ todo' = Resume(<<>>) \o (Waked(slot, to, env) \o Rest)
        /\ slot' = SlotAfter(slot, to)
        /\ inbox' = InboxAfter(slot, inbox, to, env)
        /\ UNCHANGED <<done, links, retval, halted>>

\* 13: the first envelope of the inbox.
TakeMail ==
    /\ Ready
    /\ inbox[Cur] # <<>>
    /\ todo' = Resume(<<Head(inbox[Cur])>>) \o Rest
    /\ inbox' = [inbox EXCEPT ![Cur] = Tail(@)]
    /\ UNCHANGED <<done, slot, links, retval, halted>>

\* 13, empty inbox and the caller does not want to wait: #false.
NoMail ==
    /\ Ready
    /\ inbox[Cur] = <<>>
    /\ todo' = Resume(<<>>) \o Rest
    /\ UNCHANGED <<done, slot, inbox, links, retval, halted>>

\* 13, empty inbox (or none): leave the continuation under the thread's id.
WaitMail ==
    /\ Ready
    /\ inbox[Cur] = <<>>
    /\ todo' = Rest
    /\ slot' = [slot EXCEPT ![Cur] = "cont"]
    /\ UNCHANGED <<done, inbox, links, retval, halted>>

\* 15: kill a thread, the caller itself included.
Kill(t) ==
    /\ Ready
    /\ DropDelivering(DropFromList(Resume(<<>>) \o Rest, t),
                      DropFromList(done, t), t)
    /\ UNCHANGED <<retval, halted>>

\* 19: propose the exit value (shutdown).
ProposeReturnValue(v) ==
    /\ Ready
    /\ todo' = Resume(<<>>) \o Rest
    /\ retval' = v
    /\ UNCHANGED <<done, slot, inbox, links, halted>>

\* Not an interop: the program uses the envelope it was given.
Consume ==
    /\ todo # <<>> /\ Head(todo).given # <<>>
    /\ todo' = Resume(<<>>) \o Rest
    /\ UNCHANGED <<done, slot, inbox, links, retval, halted>>

------------------------------------------------------------------------------
(* The controller with arbitrary programs.  A thread may fork a thread     *)
(* under a name that no thread has at the time (fork makes a fresh name, a *)
(* server has a name of its own, and the repl uses 'repl-eval again once   *)
(* the last thread of that name is gone), mail anyone, and set envelopes   *)
(* aside to return them later, the way accept-mail and poll-mail-from do.  *)

Runnable == Ids(todo) \cup Ids(done)
Waiting == {t \in Thread : slot[t] = "cont"}
Live == Runnable \cup Waiting

Init ==
    /\ todo = <<[id |-> Main, given |-> <<>>]>>
    /\ done = <<>>
    /\ slot = [t \in Thread |-> "none"]
    /\ inbox = [t \in Thread |-> <<>>]
    /\ links = [t \in Thread |-> NoThread]
    /\ retval = 0
    /\ halted = FALSE
    /\ held = [t \in Thread |-> <<>>]
    /\ forks = 0
    /\ sent = 0

Forget(t) == held' = [held EXCEPT ![t] = <<>>]

DoSchedule ==
    /\ NewRound \/ HaltThreadController \/ TimeSlice
    /\ UNCHANGED <<held, forks, sent>>

DoEnd ==
    /\ Exit \/ Crash
    /\ Forget(Cur)
    /\ UNCHANGED <<forks, sent>>

DoFork(t, link, mailbox) ==
    /\ forks < MaxFork /\ t \notin Live
    /\ Fork(t, link, mailbox)
    /\ forks' = forks + 1
    /\ UNCHANGED <<held, sent>>

DoReturnMails ==
    /\ Ready /\ ReturnMails(held[Cur])
    /\ Forget(Cur)
    /\ UNCHANGED <<forks, sent>>

DoMail(to) ==
    /\ sent < MaxMail
    /\ Mail(to, sent + 1)
    /\ sent' = sent + 1
    /\ UNCHANGED <<held, forks>>

DoLook ==
    /\ TakeMail \/ NoMail \/ WaitMail
    /\ UNCHANGED <<held, forks, sent>>

DoKill(t) ==
    /\ Kill(t)
    /\ Forget(t)
    /\ UNCHANGED <<forks, sent>>

DoPropose(v) ==
    /\ ProposeReturnValue(v)
    /\ UNCHANGED <<held, forks, sent>>

\* The envelope is used up, or set aside on top of the others.
DoConsume(keep) ==
    /\ Consume
    /\ held' = IF keep THEN [held EXCEPT ![Cur] = Head(todo).given \o @]
                       ELSE held
    /\ UNCHANGED <<forks, sent>>

Next ==
    \/ DoSchedule
    \/ DoEnd
    \/ \E t \in Thread, link, mailbox \in BOOLEAN : DoFork(t, link, mailbox)
    \/ DoReturnMails
    \/ \E to \in Thread : DoMail(to)
    \/ DoLook
    \/ \E t \in Thread : DoKill(t)
    \/ \E v \in ExitValue : DoPropose(v)
    \/ \E keep \in BOOLEAN : DoConsume(keep)

Spec == Init /\ [][Next]_vars

------------------------------------------------------------------------------
(* Correctness.                                                            *)

\* The type of every variable of the controller and of the programs.
TypeOK ==
    /\ todo \in Seq(Entry) /\ done \in Seq(Entry)
    /\ slot \in [Thread -> {"none", "inbox", "cont"}]
    /\ inbox \in [Thread -> Seq(Envelope)]
    /\ links \in [Thread -> Thread \cup {NoThread}]
    /\ retval \in Nat
    /\ halted \in BOOLEAN
    /\ held \in [Thread -> Seq(Envelope)]
    /\ forks \in 0..MaxFork
    /\ sent \in 0..MaxMail

Distinct(lst) == \A i, j \in 1..Len(lst) : lst[i].id = lst[j].id => i = j

\* A thread is in one place.  It is in the run lists at most once, and a
\* thread whose continuation lies under its id, waiting for mail, is in
\* neither of them: waking, killing and time slices never leave a second copy
\* of a thread that would run its continuation twice.
RunsOnce ==
    /\ Distinct(todo) /\ Distinct(done)
    /\ Ids(todo) \cap Ids(done) = {}
    /\ Waiting \cap Runnable = {}

\* Nothing in the state of the controller outlives the thread it belongs to:
\* a mailbox, a link or mail is kept only for a thread that is still there.
\* A mailbox left behind would swallow mail and be found by the next thread
\* of that name; a link left behind would report that thread's end.
NothingOutlives ==
    /\ \A t \in Thread : slot[t] = "inbox" => t \in Runnable
    /\ \A t \in Thread : links[t] # NoThread => t \in Live
    /\ \A t \in Thread : slot[t] # "inbox" => inbox[t] = <<>>

\* The mail of a thread: what it was given and has not used, then its inbox.
EntryOf(t) == CHOOSE e \in ToSet(todo) \cup ToSet(done) : e.id = t
Box(t) == (IF t \in Runnable THEN EntryOf(t).given ELSE <<>>) \o inbox[t]

Abstract == INSTANCE ActorMail WITH
    live <- Live,
    open <- {t \in Thread : slot[t] # "none"},
    box <- [t \in Thread |-> Box(t)],
    kept <- [t \in Thread |-> Reverse(held[t])],
    watcher <- links

\* The controller does what ActorMail.tla promises to the threads: an
\* envelope is queued behind the earlier ones whether its addressee runs,
\* waits, or has been woken in this round and not run yet, and the end of a
\* thread takes its mail, its mailbox and its link away at once.
ImplementsActorMail == Abstract!Spec

\* No message is doubled while it moves between the sender's turn, the inbox,
\* the woken continuation and the envelopes a thread returns: it is in one of
\* these places at most, and in none once its owner has ended.  (That none is
\* lost on the way is ImplementsActorMail: there an envelope for a thread that
\* listens joins the thread's box, and leaves box and pile by being used, or
\* with the end of the thread.)
OnlyOnce == Abstract!OnlyOnce
==============================================================================
