-------------------------------- MODULE Ports --------------------------------
(***************************************************************************)
(* What a program does to the world outside: the calls of the instruction  *)
(* SYSCALL (src/olvm.c) that go to the operating system, the descriptors   *)
(* they make and the sandbox that closes most of them.  The system and the *)
(* other processes are external: a call has any of the outcomes they can   *)
(* give it.  What is read and written is counted, in bytes.                *)
(***************************************************************************)
EXTENDS Integers, FiniteSets

CONSTANTS MaxFd,    \* bound: the highest descriptor
          Sizes,    \* the numbers of bytes a program asks for; -1 for all
          Room,     \* bytes a descriptor holds, and the length of a buffer
          Numbers,  \* numbers of calls a program tries
          MaxCalls  \* bound: system calls of a program

ASSUME PortsAssumption ==
    /\ MaxFd \in Nat /\ MaxFd > 2 /\ Room \in Nat
    /\ Sizes \subseteq Int /\ Numbers \subseteq Nat

VARIABLES io,     \* the process, as the machine and the system see it
          reply,  \* what the last call answered
          calls

portsVars == <<io, reply, calls>>

Fd == 0..MaxFd
NoDesc == [kind |-> "none", blocks |-> TRUE, bytes |-> 0, peer |-> 0]
Desc(k, blocks) == [NoDesc EXCEPT !.kind = k, !.blocks = blocks]
Idle == [size |-> 0, to |-> 0, from |-> 0]
IsOpen(f) == io.fds[f].kind # "none"
Is(f, kinds) == io.fds[f].kind \in kinds
Least(a, b) == IF a < b THEN a ELSE b

\* The system gives the lowest number that is free.
Fresh == {f \in Fd : ~ IsOpen(f) /\ \A g \in 0..(f - 1) : IsOpen(g)}

\* Ports 0, 1 and 2 of read, write and ioctl are redirected.
Redirected(p) == IF p < 3 THEN io.std[p] ELSE p

\* Mutant: calls are moved to where those of the machine itself begin.
NearCase(op, inside) == IF inside THEN op + 1000 ELSE op

\* The case of the switch that a call gets to: in the sandbox calls are moved
\* to where there are cases for a few of them only.
CaseOf(op, inside) == IF inside THEN op + 10000 ELSE op

\* A call is made, and this is what it does.
SysCall(new, answer) ==
    /\ io.sending = Idle
    /\ calls < MaxCalls /\ calls' = calls + 1
    /\ io' = new /\ reply' = answer

Error(e) == [io EXCEPT !.errno = e]

------------------------------------------------------------------------------
\* read: a port that has nothing yet, and does not block, answers #true.
ReadPort(p, n) ==
    LET f    == Redirected(p)
        size == IF n < 0 THEN Room ELSE n
        over == Is(f, {"in"}) => ~ IsOpen(io.fds[f].peer)
    IN  IF ~ IsOpen(f) \/ Is(f, {"out", "listening"})
        THEN SysCall(Error("other"), <<"#false">>)
        ELSE \/ \E k \in 1..Least(size, io.fds[f].bytes) :
                  SysCall([io EXCEPT !.fds[f].bytes = @ - k], <<"bytes", f, k>>)
             \/ /\ size = 0 \/ (io.fds[f].bytes = 0 /\ over)
                /\ SysCall(io, <<"#eof">>)
             \/ /\ size > 0 /\ io.fds[f].bytes = 0 /\ ~ io.fds[f].blocks
                /\ ~ Is(f, {"file"}) /\ (Is(f, {"in"}) => ~ over)
                /\ SysCall(Error("again"), <<"#true">>)

\* Mutant: the size that was asked for is answered.
CountAsked(size, wrote) == size

\* What write answers of the sizes asked for and written.
Count(size, wrote) == wrote

\* Where that goes what is written to f: pipes have two ends.
Target(f) == IF Is(f, {"out"}) THEN io.fds[f].peer ELSE f

\* write: no more than the buffer has.  When nothing was written the answer is
\* 0 if the last error, which may be that of an earlier call, was that a port
\* was not ready.
WritePort(p, n) ==
    LET f       == Redirected(p)
        size    == IF n < 0 \/ n > Room THEN Room ELSE n
        none(e) == SysCall(Error(e), IF e = "again" THEN <<"count", 0, 0>> ELSE <<"#false">>)
    IN  IF ~ IsOpen(f) \/ Is(f, {"in", "listening"}) \/ ~ IsOpen(Target(f))
        THEN none("other")
        ELSE \/ \E k \in 1..Least(size, Room - io.fds[Target(f)].bytes) :
                  SysCall([io EXCEPT !.fds[Target(f)].bytes = @ + k],
                       <<"count", Target(f), Count(size, k)>>)
             \/ size = 0 /\ none(io.errno)
             \/ size > 0 /\ ~ io.fds[f].blocks /\ io.fds[Target(f)].bytes = Room /\ none("again")

\* A new descriptor, which the program gets as a port.
With(f, d) == [io EXCEPT !.fds[f] = d, !.held = @ \cup {f}]

\* Mutant: what open has found to be a directory stays open.
KeepDirectory(f) == [io EXCEPT !.fds[f] = Desc("dir", TRUE)]

\* open, of a directory: it is closed again.
DropDirectory(f) == io

\* open: the file does not block from then on.
Open ==
    \/ SysCall(Error("other"), <<"#false">>)
    \/ \E f \in Fresh :
         \/ SysCall(With(f, [Desc("file", FALSE) EXCEPT !.bytes = Room]), <<"port", f>>)
         \/ SysCall(DropDirectory(f), <<"#false">>)

\* close: the number as it is, never redirected.
Close(p) ==
    IF IsOpen(p)
    THEN SysCall([io EXCEPT !.fds[p] = NoDesc, !.held = @ \ {p}], <<"#true">>)
    ELSE SysCall(Error("other"), <<"#false">>)

\* What only asks, or changes what this model does not have.  The answer is
\* something, or, when the system can refuse it, #false.
Answers == SysCall(io, <<"some">>)
MayFail == Answers \/ SysCall(Error("other"), <<"#false">>)

\* stat, unlink.
AskFile == MayFail

\* readdir, which comes to an end, and chdir.
AskDirectory ==
    \/ MayFail
    \/ SysCall(io, <<"#eof">>)

\* connect, shutdown, bind: a socket stays one that blocks.
AskSocket == MayFail

\* select, of one descriptor and for a limited time, and getpeername.
AskPeer == MayFail \/ SysCall(io, <<"#false">>)

\* yield and nanosleep always answer, the latter with what is left of the time.
AskToYield == Answers
AskToSleep == Answers

\* The clock, and a time as a text.
AskTime == MayFail

\* uname, getrlimit, getrusage, sysinfo.
AskSystem == MayFail

\* Questions to the machine itself, the environment, and commands.
AskSelf ==
    \/ Answers
    \/ SysCall(io, <<"#false">>)

\* The memory limit, asked for and perhaps set.
Limit(new) == SysCall([io EXCEPT !.limit = new], <<"limit", io.limit>>)

\* ioctl: is it a terminal?  In the sandbox the first three are taken for one.
Ioctl(p) ==
    LET f == Redirected(p) IN
    SysCall(io,
         IF IF io.sandbox THEN f \in 0..2 ELSE Is(f, {"tty"}) THEN <<"#true">> ELSE <<"#false">>)

\* sendfile: a loop until everything is sent, or the file ends, or an error;
\* while the receiver is full the machine does nothing else.
SendFile(p, q, size) ==
    IF size > 0
    THEN SysCall([io EXCEPT !.sending = [size |-> size, to |-> p, from |-> q]], <<"sending">>)
    ELSE SysCall(io, <<"#true">>)

SendSome ==
    LET s    == io.sending
        done == [io EXCEPT !.sending = Idle]
    IN  /\ s # Idle /\ calls' = calls
        /\ IF ~ IsOpen(Target(s.to)) \/ ~ Is(s.from, {"file"})
           THEN io' = [done EXCEPT !.errno = "other"] /\ reply' = <<"#false">>
           ELSE \/ io' = done /\ reply' = <<"#true">>
                \/ \E k \in 1..Least(s.size, Room - io.fds[Target(s.to)].bytes) :
                     LET more == [io EXCEPT !.fds[Target(s.to)].bytes = @ + k] IN
                     IF k = s.size
                     THEN io' = [more EXCEPT !.sending = Idle] /\ reply' = <<"#true">>
                     ELSE io' = [more EXCEPT !.sending.size = @ - k] /\ reply' = <<"sending">>

\* opendir.  closedir (1013) is not modelled: it takes the port for an object.
OpenDirectory ==
    \/ SysCall([io EXCEPT !.dirs = @ + 1], <<"dir">>)
    \/ SysCall(Error("other"), <<"#false">>)

\* Whether an end of a pipe blocks: both are told not to.
EndBlocks(end) == FALSE

\* pipe: two descriptors at once.
Pipe ==
    \/ SysCall(Error("other"), <<"#false">>)
    \/ \E f \in Fresh, g \in Fd :
         /\ g > f /\ ~ IsOpen(g) /\ \A h \in (f + 1)..(g - 1) : IsOpen(h)
         /\ SysCall([io EXCEPT !.held = @ \cup {f, g},
                             !.fds[f] = [Desc("in", EndBlocks("in")) EXCEPT !.peer = g],
                             !.fds[g] = [Desc("out", EndBlocks("out")) EXCEPT !.peer = f]],
                 <<"ports", f, g>>)

\* socket: it blocks, until it is closed.
Socket ==
    \/ SysCall(Error("other"), <<"#false">>)
    \/ \E f \in Fresh : SysCall(With(f, Desc("socket", TRUE)), <<"port", f>>)

\* listen.
Listen(p) ==
    IF Is(p, {"socket", "listening"})
    THEN SysCall([io EXCEPT !.fds[p].kind = "listening"], <<"#true">>)
    ELSE SysCall(Error("other"), <<"#false">>)

\* accept: what it gives does not block.
Accept(p) ==
    \/ SysCall(Error("other"), <<"#false">>)
    \/ /\ Is(p, {"listening"})
       /\ \E f \in Fresh : SysCall(With(f, Desc("connected", FALSE)), <<"port", f>>)

\* prctl.
EnterStrict ==
    \/ SysCall([io EXCEPT !.sandbox = TRUE], <<"#true">>)
    \/ SysCall(io, <<"#false">>)

\* A number that has no case, or, in the sandbox, none of the four.
NoCall == SysCall(io, <<"#false">>)

\* OL_setstd, by the host.
SetStd(id, fd) ==
    /\ calls < MaxCalls /\ calls' = calls + 1
    /\ io' = [io EXCEPT !.std[id] = fd] /\ reply' = <<"none">>

\* The others: somebody writes to a descriptor, or takes what is there.
Outside(f, k) ==
    /\ f = 0 \/ Is(f, {"connected"})
    /\ io.fds[f].bytes # k
    /\ io' = [io EXCEPT !.fds[f].bytes = k] /\ reply' = <<"none">>
    /\ UNCHANGED calls

\* OL_run sets the second and the third descriptor not to block.
PortsInit ==
    /\ io = [fds |-> [f \in Fd |-> IF f < 3 THEN Desc("tty", f = 0) ELSE NoDesc],
             std |-> [i \in 0..2 |-> i], held |-> 0..2, dirs |-> 0, limit |-> 1,
             sandbox |-> FALSE, sending |-> Idle, errno |-> "none"]
    /\ reply = <<"none">> /\ calls = 0

\* The switch of SYSCALL.  A program knows the ports it got, and makes a port of
\* any number, too.  The cases modelled in other modules are left out.
Elsewhere == {57, 59, 60, 61, 62, 85, 158, 174, 176, 177, 178, 1000, 1013, 1022, 1201}
Cases == Elsewhere \cup
    {0, 1, 2, 3, 4, 12, 16, 22, 23, 24, 35, 40, 41, 42, 43, 48, 49, 50, 51, 63, 78, 80, 87, 96,
     97, 98, 99, 157, 201, 1001, 1002, 1007, 1008, 1009, 1011, 1012, 1016, 1017, 1020, 1117,
     10000, 10001, 10016, 10040}

\* The ports a program may name.
Named == io.held \cup {3}

Switch(case) ==
    \/ case \in {0, 10000} /\ \E p \in Named, n \in Sizes : ReadPort(p, n)
    \/ case \in {1, 10001} /\ \E p \in Named, n \in Sizes : WritePort(p, n)
    \/ case \in {40, 10040} /\ \E p \in Named, q \in io.held, n \in Sizes : SendFile(p, q, n)
    \/ case = 3 /\ \E p \in Named : Close(p)
    \/ case \in {16, 10016} /\ \E p \in Named : Ioctl(p)
    \/ case = 43 /\ \E p \in Named : Accept(p)
    \/ case = 50 /\ \E p \in Named : Listen(p)
    \/ case = 2 /\ Open
    \/ case \in {4, 87} /\ AskFile
    \/ case \in {12, 1007, 1009} /\ \E n \in IF case = 1009 THEN {io.limit} ELSE {io.limit, 2} : Limit(n)
    \/ case = 22 /\ Pipe
    \/ case \in {23, 51} /\ AskPeer
    \/ case = 24 /\ AskToYield
    \/ case = 35 /\ AskToSleep
    \/ case = 41 /\ Socket
    \/ case \in {42, 48, 49} /\ AskSocket
    \/ case \in {63, 97, 98, 99} /\ AskSystem
    \/ case \in {78, 80, 1012, 1020} /\ AskDirectory
    \/ case \in {96, 201} /\ AskTime
    \/ case = 157 /\ EnterStrict
    \/ case \in {1001, 1002, 1008, 1016, 1017, 1117} /\ AskSelf
    \/ case = 1011 /\ OpenDirectory
    \/ case \notin Cases /\ NoCall

PortsNext ==
    \/ \E op \in Numbers : Switch(CaseOf(op, io.sandbox))
    \/ \E id \in 0..1, fd \in {3} : SetStd(id, fd)
    \/ \E f \in Fd, k \in {Room} : Outside(f, k)
    \/ SendSome

PortsSpec == PortsInit /\ [][PortsNext]_portsVars

------------------------------------------------------------------------------
\* No descriptor is lost: what is open beyond the first three is known to the
\* program, which can close it.
NoLeak == \A f \in 3..MaxFd : IsOpen(f) => f \in io.held

\* In the sandbox nothing is opened, closed or set up any more, whatever number
\* a program calls with.
SandboxClosed ==
    [][io.sandbox =>
         /\ [f \in Fd |-> io'.fds[f].kind] = [f \in Fd |-> io.fds[f].kind]
         /\ <<io'.held, io'.dirs, io'.limit, io'.sandbox>> = <<io.held, io.dirs, io.limit, TRUE>>
      ]_portsVars

\* What is answered of a read or a write is what has gone through: a partial
\* write is told as such, and a call that answers something else has moved
\* nothing, errors and busy ports included.
Accounted ==
    [][calls' # calls =>
         \A f \in Fd : io.fds[f].kind = io'.fds[f].kind =>
           io'.fds[f].bytes - io.fds[f].bytes =
             CASE reply'[1] = "bytes" /\ reply'[2] = f -> 0 - reply'[3]
               [] reply'[1] = "count" /\ reply'[3] > 0 /\ reply'[2] = f -> reply'[3]
               [] OTHER -> 0
      ]_portsVars
==============================================================================
