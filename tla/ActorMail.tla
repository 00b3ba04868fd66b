----------------------------- MODULE ActorMail ------------------------------
(***************************************************************************)
(* What the threads of the Lisp may rely on, without run lists, mailboxes  *)
(* that turn into continuations, or turns (owl/interop.scm, lines 142-149, *)
(* and the interops it is built on): threads come and go, each one owns a  *)
(* queue of envelopes, an envelope for a thread that listens joins that    *)
(* queue at the end, whatever the thread is doing, and is used once; the   *)
(* end of a linked thread is mailed to the thread it is linked to.         *)
(*                                                                         *)
(* Threading.tla is shown to implement this.                               *)
(***************************************************************************)
EXTENDS Naturals, Sequences

CONSTANTS Thread, Main, NoThread, MaxMail

VARIABLES live,     \* threads that exist
          open,     \* those that listen: mail to any other is thrown away
          box,      \* envelopes that have arrived, oldest first
          kept,     \* envelopes the thread looked at and kept, oldest first
          watcher   \* who is told of the end of a thread

mailVars == <<live, open, box, kept, watcher>>

Message == 0..MaxMail
Envelope == [from : Thread, msg : Message]
Obituary(t) == [from |-> t, msg |-> 0]

\* The boxes after env has been sent to thread t of the listeners ls.
Arrive(b, ls, t, env) == IF t \in ls THEN [b EXCEPT ![t] = Append(@, env)] ELSE b

Init ==
    /\ live = {Main} /\ open = {}
    /\ box = [t \in Thread |-> <<>>]
    /\ kept = [t \in Thread |-> <<>>]
    /\ watcher = [t \in Thread |-> NoThread]

Spawn(t) ==
    /\ t \notin live
    /\ live' = live \cup {t}
    /\ open' \in {open, open \cup {t}}
    /\ \E parent \in live \cup {NoThread} :
          watcher' = [watcher EXCEPT ![t] = parent]
    /\ UNCHANGED <<box, kept>>

\* Mail to a thread that does not listen is thrown away: no step at all.
Send(to) ==
    /\ to \in open
    /\ UNCHANGED <<live, open, kept, watcher>>
    /\ \E from \in live, msg \in Message :
          box' = Arrive(box, open, to, [from |-> from, msg |-> msg])

\* A thread without a mailbox gets one when it first waits.
Listen(t) ==
    /\ t \in live
    /\ open' = open \cup {t}
    /\ UNCHANGED <<live, box, kept, watcher>>

Use(t, keep) ==
    /\ box[t] # <<>>
    /\ box' = [box EXCEPT ![t] = Tail(@)]
    /\ kept' = IF keep THEN [kept EXCEPT ![t] = Append(@, Head(box[t]))] ELSE kept
    /\ UNCHANGED <<live, open, watcher>>

PutBack(t) ==
    /\ t \in live
    /\ open' = open \cup {t}
    /\ box' = [box EXCEPT ![t] = @ \o kept[t]]
    /\ kept' = [kept EXCEPT ![t] = <<>>]
    /\ UNCHANGED <<live, watcher>>

End(t) ==
    /\ t \in live
    /\ live' = live \ {t}
    /\ open' = open \ {t}
    /\ box' = Arrive([box EXCEPT ![t] = <<>>], open', watcher[t], Obituary(t))
    /\ kept' = [kept EXCEPT ![t] = <<>>]
    /\ watcher' = [watcher EXCEPT ![t] = NoThread]

Next ==
    \/ \E t \in Thread : Spawn(t) \/ Send(t) \/ Listen(t) \/ PutBack(t) \/ End(t)
    \/ \E t \in Thread, keep \in BOOLEAN : Use(t, keep)

Spec == Init /\ [][Next]_mailVars

------------------------------------------------------------------------------
Holds(seq, m) == {i \in DOMAIN seq : seq[i].msg = m}

\* Given that no message is sent twice, each one is in at most one place: once
\* in one thread's box, or kept by one thread; and a dead thread has none.
OnlyOnce ==
    /\ \A m \in Message \ {0} :
          \A t, u \in Thread :
             /\ \A i, j \in Holds(box[t] \o kept[t], m) : i = j
             /\ t # u /\ Holds(box[t] \o kept[t], m) # {}
                  => Holds(box[u] \o kept[u], m) = {}
    /\ \A t \in Thread \ live : box[t] = <<>> /\ kept[t] = <<>>
==============================================================================
