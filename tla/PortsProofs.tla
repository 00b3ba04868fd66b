----------------------------- MODULE PortsProofs -----------------------------
(***************************************************************************)
(* For any number of descriptors, any sizes, and any numbers of calls: no  *)
(* descriptor is lost, in the sandbox nothing is opened, closed or set up, *)
(* and what reads and writes answer is what went through.                  *)
(***************************************************************************)
EXTENDS Ports, TLAPS

Kinds  == {"none", "tty", "file", "in", "out", "socket", "listening", "connected"}
Errors == {"none", "other", "again"}
Descr == [kind : Kinds, blocks : BOOLEAN, bytes : Int, peer : Fd]

\* The process has its types, and the standard ports are descriptors.
IoType(x) ==
    x \in [fds : [Fd -> Descr], std : [0..2 -> Fd], held : SUBSET Fd, dirs : Int,
           limit : Int, sandbox : BOOLEAN,
           sending : [size : Int, to : Fd, from : Fd], errno : Errors]

\* What is open is held.
Held(x) == \A f \in 3..MaxFd : x.fds[f].kind # "none" => f \in x.held

Good(x) == IoType(x) /\ Held(x)

\* Nothing is opened, closed or set up on the way from io to x.
SameSetup(x) ==
    /\ \A f \in Fd : x.fds[f].kind = io.fds[f].kind
    /\ x.held = io.held /\ x.dirs = io.dirs /\ x.limit = io.limit /\ x.sandbox = io.sandbox

\* Nothing goes through on the way from io to x.
Still(x) ==
    \A f \in Fd : x.fds[f].kind = io.fds[f].kind => x.fds[f].bytes = io.fds[f].bytes

LEMMA Descriptors == 0 \in Fd /\ 3 \in Fd /\ 3..MaxFd \subseteq Fd /\ 0..2 \subseteq Fd
  BY PortsAssumption DEF Fd

LEMMA OldIo ==
    ASSUME Good(io)
    PROVE  /\ \A f \in Fd : io.fds[f] \in Descr
           /\ \A p \in 0..2 : io.std[p] \in Fd
           /\ io.held \subseteq Fd
           /\ io.sending \in [size : Int, to : Fd, from : Fd]
  BY DEF Good, IoType

LEMMA RecordType ==
    ASSUME NEW k \in Kinds, NEW b \in BOOLEAN, NEW n \in Int, NEW p \in Fd
    PROVE  [kind |-> k, blocks |-> b, bytes |-> n, peer |-> p] \in Descr
  BY DEF Descr

LEMMA NoDescType == NoDesc \in Descr /\ NoDesc.kind = "none"
<1>1. 0 \in Fd /\ 0 \in Int
  BY Descriptors
<1>2. "none" \in Kinds /\ TRUE \in BOOLEAN
  BY Zenon DEF Kinds
<1>3. [kind |-> "none", blocks |-> TRUE, bytes |-> 0, peer |-> 0] \in Descr
  BY <1>1, <1>2, RecordType, Zenon
<1>4. NoDesc \in Descr
  BY <1>3 DEF NoDesc
<1>5. NoDesc.kind = "none"
  BY Zenon DEF NoDesc
<1> QED
  BY <1>4, <1>5

LEMMA DescType ==
    ASSUME NEW k \in Kinds, NEW b \in BOOLEAN
    PROVE  Desc(k, b) \in Descr /\ Desc(k, b).kind = k
<1> DEFINE one == [NoDesc EXCEPT !.kind = k]
           two == [one EXCEPT !.blocks = b]
<1>2. one \in Descr /\ one.kind = k
  BY NoDescType DEF Descr
<1> HIDE DEF one
<1>3. two \in Descr /\ two.kind = k
  BY <1>2 DEF Descr
<1>4. Desc(k, b) = two
  BY Zenon DEF Desc, one
<1> QED
  BY <1>3, <1>4

\* The ways in which the process changes, one lemma for each.
LEMMA OldGood == ASSUME Good(io) PROVE SameSetup(io) /\ Still(io)
  BY DEF SameSetup, Still

LEMMA ErrorGood ==
    ASSUME Good(io), NEW e \in Errors
    PROVE  Good(Error(e)) /\ SameSetup(Error(e)) /\ Still(Error(e))
  BY DEF Good, IoType, Held, SameSetup, Still, Error

LEMMA BytesGood ==
    ASSUME Good(io), NEW f \in Fd, NEW n \in Int,
           NEW x, x = [io EXCEPT !.fds[f].bytes = n]
    PROVE  /\ Good(x) /\ SameSetup(x)
           /\ x.fds[f].bytes = n
           /\ \A g \in Fd \ {f} : x.fds[g] = io.fds[g]
<1>1. [io.fds[f] EXCEPT !.bytes = n] \in Descr
  BY OldIo DEF Descr
<1>2. [io.fds[f] EXCEPT !.bytes = n].kind = io.fds[f].kind
  BY OldIo DEF Descr
<1>3. /\ x.fds = [io.fds EXCEPT ![f] = [io.fds[f] EXCEPT !.bytes = n]]
      /\ x.std = io.std /\ x.held = io.held /\ x.dirs = io.dirs /\ x.limit = io.limit
      /\ x.sandbox = io.sandbox /\ x.sending = io.sending /\ x.errno = io.errno
  BY DEF Good, IoType
<1>4. IoType(x)
  BY <1>1, <1>3 DEF Good, IoType
<1>5. /\ x.fds[f] = [io.fds[f] EXCEPT !.bytes = n]
      /\ \A g \in Fd \ {f} : x.fds[g] = io.fds[g]
  BY <1>3 DEF Good, IoType
<1>6. Held(x)
  BY <1>2, <1>3, <1>5, Descriptors DEF Good, Held
<1>7. x.fds[f].bytes = n
  BY <1>5, OldIo DEF Descr
<1> QED
  BY <1>2, <1>3, <1>4, <1>5, <1>6, <1>7 DEF Good, SameSetup

WithDesc(f, d, h) == [io EXCEPT !.fds[f] = d, !.held = h]

LEMMA DescGood ==
    ASSUME Good(io), NEW f \in Fd, NEW d \in Descr, NEW h \in SUBSET Fd,
           f \in h, io.held \subseteq h, d.kind # io.fds[f].kind
    PROVE  Good(WithDesc(f, d, h)) /\ Still(WithDesc(f, d, h))
<1> SUFFICES ASSUME NEW x, x = [io EXCEPT !.fds[f] = d, !.held = h]
             PROVE  Good(x) /\ Still(x)
  BY DEF WithDesc
<1>1. /\ x.fds = [io.fds EXCEPT ![f] = d] /\ x.held = h
      /\ x.std = io.std /\ x.dirs = io.dirs /\ x.limit = io.limit
      /\ x.sandbox = io.sandbox /\ x.sending = io.sending /\ x.errno = io.errno
  BY DEF Good, IoType
<1>2. x.fds[f] = d /\ \A g \in Fd \ {f} : x.fds[g] = io.fds[g]
  BY DEF Good, IoType
<1>3. IoType(x)
  BY <1>1 DEF Good, IoType
<1>4. Held(x)
  BY <1>1, <1>2, Descriptors DEF Good, Held
<1> QED
  BY <1>2, <1>3, <1>4 DEF Good, Still

LEMMA ClosedGood ==
    ASSUME Good(io), NEW f \in Fd, io.fds[f].kind # "none",
           NEW x, x = [io EXCEPT !.fds[f] = NoDesc, !.held = @ \ {f}]
    PROVE  Good(x) /\ Still(x)
<1>1. /\ x.fds = [io.fds EXCEPT ![f] = NoDesc] /\ x.held = io.held \ {f}
      /\ x.std = io.std /\ x.dirs = io.dirs /\ x.limit = io.limit
      /\ x.sandbox = io.sandbox /\ x.sending = io.sending /\ x.errno = io.errno
  BY DEF Good, IoType
<1>2. x.fds[f] = NoDesc /\ \A g \in Fd \ {f} : x.fds[g] = io.fds[g]
  BY <1>1 DEF Good, IoType
<1>3. NoDesc \in Descr /\ NoDesc.kind = "none"
  BY NoDescType
<1>4. IoType(x)
  BY <1>1, <1>3 DEF Good, IoType
<1>5. Held(x)
  BY <1>1, <1>2, <1>3, Descriptors DEF Good, Held
<1> QED
  BY <1>2, <1>3, <1>4, <1>5 DEF Good, Still

Piped(f, g, d, e) == [io EXCEPT !.held = @ \cup {f, g}, !.fds[f] = d, !.fds[g] = e]

LEMMA PipeGood ==
    ASSUME Good(io), NEW f \in Fd, NEW g \in Fd, f # g,
           NEW d \in Descr, NEW e \in Descr, d.kind # "none", e.kind # "none",
           io.fds[f].kind = "none", io.fds[g].kind = "none"
    PROVE  Good(Piped(f, g, d, e)) /\ Still(Piped(f, g, d, e))
<1> SUFFICES ASSUME NEW x, x = [io EXCEPT !.held = @ \cup {f, g}, !.fds[f] = d, !.fds[g] = e]
             PROVE  Good(x) /\ Still(x)
  BY DEF Piped
<1>1. /\ x.fds = [[io.fds EXCEPT ![f] = d] EXCEPT ![g] = e] /\ x.held = io.held \cup {f, g}
      /\ x.std = io.std /\ x.dirs = io.dirs /\ x.limit = io.limit
      /\ x.sandbox = io.sandbox /\ x.sending = io.sending /\ x.errno = io.errno
  BY DEF Good, IoType
<1>2. /\ x.fds[f] = d /\ x.fds[g] = e
      /\ \A h \in Fd \ {f, g} : x.fds[h] = io.fds[h]
  BY <1>1 DEF Good, IoType
<1>3. IoType(x)
  BY <1>1 DEF Good, IoType
<1>4. Held(x)
  BY <1>1, <1>2, Descriptors DEF Good, Held
<1> QED
  BY <1>2, <1>3, <1>4 DEF Good, Still

\* listen changes the kind of a descriptor that is open.
LEMMA KindGood ==
    ASSUME Good(io), NEW f \in Fd, NEW k \in Kinds, io.fds[f].kind # "none",
           NEW x, x = [io EXCEPT !.fds[f].kind = k]
    PROVE  Good(x) /\ Still(x)
<1> DEFINE d == [io.fds[f] EXCEPT !.kind = k]
<1>1. d \in Descr /\ d.bytes = io.fds[f].bytes
  BY OldIo DEF Descr
<1>2. x.fds = [io.fds EXCEPT ![f] = d]
  BY DEF Good, IoType
<1> HIDE DEF d
<1>3. /\ x.held = io.held
      /\ x.std = io.std /\ x.dirs = io.dirs /\ x.limit = io.limit
      /\ x.sandbox = io.sandbox /\ x.sending = io.sending /\ x.errno = io.errno
  BY DEF Good, IoType
<1>4. x.fds[f] = d /\ \A g \in Fd \ {f} : x.fds[g] = io.fds[g]
  BY <1>2 DEF Good, IoType
<1>5. IoType(x)
  <2>1. x = [io EXCEPT !.fds = [io.fds EXCEPT ![f] = d]]
    BY DEF d
  <2> QED
    BY <1>1, <2>1 DEF Good, IoType
<1>6. Held(x)
  BY <1>3, <1>4, Descriptors DEF Good, Held
<1> QED
  BY <1>1, <1>4, <1>5, <1>6 DEF Good, Still

\* Changes to the other fields.
LEMMA SendingGood ==
    ASSUME Good(io), NEW s \in [size : Int, to : Fd, from : Fd],
           NEW x, x = [io EXCEPT !.sending = s]
    PROVE  Good(x) /\ SameSetup(x) /\ Still(x) /\ x.fds = io.fds
  BY DEF Good, IoType, Held, SameSetup, Still

LEMMA StdGood ==
    ASSUME Good(io), NEW id \in 0..2, NEW f \in Fd,
           NEW x, x = [io EXCEPT !.std[id] = f]
    PROVE  Good(x) /\ SameSetup(x) /\ Still(x)
  BY DEF Good, IoType, Held, SameSetup, Still

LEMMA FieldGood ==
    ASSUME Good(io), NEW n \in Int, NEW b \in BOOLEAN
    PROVE  /\ Good([io EXCEPT !.limit = n]) /\ Still([io EXCEPT !.limit = n])
           /\ Good([io EXCEPT !.dirs = n]) /\ Still([io EXCEPT !.dirs = n])
           /\ Good([io EXCEPT !.sandbox = b]) /\ Still([io EXCEPT !.sandbox = b])
           /\ [io EXCEPT !.sandbox = TRUE].sandbox
  BY DEF Good, IoType, Held, Still

------------------------------------------------------------------------------
\* The body of Accounted, and the conclusion of SandboxClosed.
Moved ==
    calls' # calls =>
      \A f \in Fd : io.fds[f].kind = io'.fds[f].kind =>
        io'.fds[f].bytes - io.fds[f].bytes =
          CASE reply'[1] = "bytes" /\ reply'[2] = f -> 0 - reply'[3]
            [] reply'[1] = "count" /\ reply'[3] > 0 /\ reply'[2] = f -> reply'[3]
            [] OTHER -> 0

Closed ==
    /\ [f \in Fd |-> io'.fds[f].kind] = [f \in Fd |-> io.fds[f].kind]
    /\ <<io'.held, io'.dirs, io'.limit, io'.sandbox>> = <<io.held, io.dirs, io.limit, TRUE>>

\* An answer that claims nothing.
Quiet(answer) == answer[1] # "bytes" /\ (answer[1] = "count" => ~ (answer[3] > 0))

\* A call that moves nothing and claims nothing.
LEMMA QuietCall ==
    ASSUME Good(io), NEW x, Good(x), Still(x), NEW a, Quiet(a), SysCall(x, a)
    PROVE  Good(io') /\ Moved
<1>1. io' = x /\ reply' = a
  BY DEF SysCall
<1>2. \A f \in Fd : io.fds[f].bytes \in Int
  BY OldIo DEF Descr
<1>3. ASSUME NEW f \in Fd, io.fds[f].kind = io'.fds[f].kind
      PROVE  io'.fds[f].bytes - io.fds[f].bytes = 0
  BY <1>1, <1>2, <1>3 DEF Still
<1> QED
  BY <1>1, <1>3 DEF Moved, Quiet

LEMMA Ports ==
    ASSUME Good(io)
    PROVE  /\ Named \subseteq Fd
           /\ \A p \in Fd : Redirected(p) \in Fd /\ Target(p) \in Fd
<1>1. Named \subseteq Fd
  BY OldIo, Descriptors DEF Named
<1>2. ASSUME NEW p \in Fd PROVE Redirected(p) \in Fd
  <2>1. p < 3 => p \in 0..2
    BY PortsAssumption DEF Fd
  <2> QED
    BY <2>1, OldIo DEF Redirected
<1>3. ASSUME NEW p \in Fd PROVE Target(p) \in Fd
  BY OldIo DEF Target, Descr
<1> QED
  BY <1>1, <1>2, <1>3

\* A call that answers with a quiet constant.
LEMMA QuietAnswers ==
    /\ Quiet(<<"#false">>) /\ Quiet(<<"#true">>) /\ Quiet(<<"#eof">>) /\ Quiet(<<"some">>)
    /\ Quiet(<<"dir">>) /\ Quiet(<<"sending">>) /\ Quiet(<<"count", 0, 0>>)
    /\ \A f : Quiet(<<"port", f>>) /\ Quiet(<<"limit", f>>)
    /\ \A f, g : Quiet(<<"ports", f, g>>)
  BY DEF Quiet

LEMMA ReadInv ==
    ASSUME Good(io), NEW p \in Fd, NEW n \in Int, ReadPort(p, n)
    PROVE  Good(io') /\ Moved /\ SameSetup(io')
<1> DEFINE f == Redirected(p)
           size == IF n < 0 THEN Room ELSE n
<1>1. f \in Fd /\ io.fds[f] \in Descr /\ io.fds[f].bytes \in Int
  BY Ports, OldIo DEF Descr
<1>2. CASE \E e \in Errors : SysCall(Error(e), <<"#false">>) \/ SysCall(Error(e), <<"#true">>)
  <2>1. PICK e \in Errors : SysCall(Error(e), <<"#false">>) \/ SysCall(Error(e), <<"#true">>)
    BY <1>2
  <2>2. io' = Error(e)
    BY <2>1 DEF SysCall
  <2> QED
    BY <2>1, <2>2, ErrorGood, QuietAnswers, QuietCall
<1>3. CASE SysCall(io, <<"#eof">>)
  <2>1. io' = io
    BY <1>3 DEF SysCall
  <2> QED
    BY <1>3, <2>1, OldGood, QuietAnswers, QuietCall
<1>4. CASE \E k \in 1..Least(size, io.fds[f].bytes) :
              SysCall([io EXCEPT !.fds[f].bytes = @ - k], <<"bytes", f, k>>)
  <2>1. PICK k \in 1..Least(size, io.fds[f].bytes) :
              SysCall([io EXCEPT !.fds[f].bytes = @ - k], <<"bytes", f, k>>)
    BY <1>4
  <2>2. k \in Int /\ io.fds[f].bytes - k \in Int
    BY <1>1
  <2>3. /\ io' = [io EXCEPT !.fds[f].bytes = io.fds[f].bytes - k]
        /\ reply' = <<"bytes", f, k>>
    BY <2>1 DEF SysCall
  <2> HIDE DEF f
  <2>4. /\ Good(io') /\ SameSetup(io')
        /\ io'.fds[f].bytes = io.fds[f].bytes - k
        /\ \A g \in Fd \ {f} : io'.fds[g] = io.fds[g]
    BY <1>1, <2>2, <2>3, BytesGood
  <2>5. reply'[1] = "bytes" /\ reply'[2] = f /\ reply'[3] = k
    BY <2>3
  <2>6. \A g \in Fd : io.fds[g].bytes \in Int
    BY OldIo DEF Descr
  <2>7. Moved
    BY <1>1, <2>2, <2>4, <2>5, <2>6 DEF Moved
  <2> QED
    BY <2>4, <2>7
<1>5. "other" \in Errors /\ "again" \in Errors
  BY DEF Errors
<1> QED
  BY <1>2, <1>3, <1>4, <1>5 DEF ReadPort

LEMMA WriteInv ==
    ASSUME Good(io), NEW p \in Fd, NEW n \in Int, WritePort(p, n)
    PROVE  Good(io') /\ Moved /\ SameSetup(io')
<1> DEFINE f == Target(Redirected(p))
           size == IF n < 0 \/ n > Room THEN Room ELSE n
           none(e) == SysCall(Error(e), IF e = "again" THEN <<"count", 0, 0>> ELSE <<"#false">>)
<1>1. f \in Fd /\ io.fds[f].bytes \in Int
  BY Ports, OldIo DEF Descr
<1>2. CASE \E e \in Errors : none(e)
  <2>1. PICK e \in Errors : none(e)
    BY <1>2
  <2>2. PICK a : SysCall(Error(e), a) /\ Quiet(a)
    BY <2>1, QuietAnswers
  <2>3. io' = Error(e)
    BY <2>2 DEF SysCall
  <2> QED
    BY <2>2, <2>3, ErrorGood, QuietCall
<1>3. CASE \E k \in 1..Least(size, Room - io.fds[f].bytes) :
              SysCall([io EXCEPT !.fds[f].bytes = @ + k], <<"count", f, Count(size, k)>>)
  <2>1. PICK k \in 1..Least(size, Room - io.fds[f].bytes) :
              SysCall([io EXCEPT !.fds[f].bytes = @ + k], <<"count", f, Count(size, k)>>)
    BY <1>3
  <2>2. k \in Int /\ k > 0 /\ io.fds[f].bytes + k \in Int
    BY <1>1
  <2>3. /\ io' = [io EXCEPT !.fds[f].bytes = io.fds[f].bytes + k]
        /\ reply' = <<"count", f, k>>
    BY <2>1 DEF SysCall, Count
  <2> HIDE DEF f
  <2>4. /\ Good(io') /\ SameSetup(io')
        /\ io'.fds[f].bytes = io.fds[f].bytes + k
        /\ \A g \in Fd \ {f} : io'.fds[g] = io.fds[g]
    BY <1>1, <2>2, <2>3, BytesGood
  <2>5. reply'[1] = "count" /\ reply'[2] = f /\ reply'[3] = k
    BY <2>3
  <2>6. \A g \in Fd : io.fds[g].bytes \in Int
    BY OldIo DEF Descr
  <2>7. Moved
    BY <1>1, <2>2, <2>4, <2>5, <2>6 DEF Moved
  <2> QED
    BY <2>4, <2>7
<1>4. "other" \in Errors /\ "again" \in Errors /\ io.errno \in Errors
  BY DEF Errors, Good, IoType
<1> QED
  BY <1>2, <1>3, <1>4 DEF WritePort

\* What only asks, and what only fails.
LEMMA AskInv ==
    ASSUME Good(io), NEW a \in {"some", "#false", "#true", "#eof", "sending"},
           SysCall(io, <<a>>) \/ SysCall(Error("other"), <<a>>)
    PROVE  Good(io') /\ Moved /\ SameSetup(io')
<1>1. "other" \in Errors
  BY DEF Errors
<1>2. Quiet(<<a>>)
  BY QuietAnswers
<1>3. io' = io \/ io' = Error("other")
  BY DEF SysCall
<1> QED
  BY <1>1, <1>2, <1>3, ErrorGood, OldGood, QuietCall

LEMMA PortInv ==
    ASSUME Good(io), NEW f \in Fresh, NEW k \in Kinds \ {"none"}, NEW b \in BOOLEAN, NEW n \in Int,
           NEW d, d = Desc(k, b) \/ d = [Desc(k, b) EXCEPT !.bytes = n],
           SysCall(With(f, d), <<"port", f>>)
    PROVE  Good(io') /\ Moved
<1>1. f \in Fd /\ io.fds[f].kind = "none"
  BY DEF Fresh, IsOpen
<1>2. d \in Descr /\ d.kind = k
  <2>1. Desc(k, b) \in Descr /\ Desc(k, b).kind = k
    BY DescType
  <2> QED
    BY <2>1 DEF Descr
<1> DEFINE h == io.held \cup {f}
<1>3. h \in SUBSET Fd /\ f \in h /\ io.held \subseteq h
  BY <1>1, OldIo
<1>4. With(f, d) = WithDesc(f, d, h)
  BY DEF With, WithDesc
<1>5. Good(With(f, d)) /\ Still(With(f, d))
  <2> HIDE DEF h
  <2> QED BY <1>1, <1>2, <1>3, <1>4, DescGood
<1> QED
  BY <1>5, QuietAnswers, QuietCall

LEMMA CloseInv ==
    ASSUME Good(io), NEW p \in Fd, Close(p)
    PROVE  Good(io') /\ Moved
<1>1. CASE IsOpen(p)
  <2> DEFINE x == [io EXCEPT !.fds[p] = NoDesc, !.held = @ \ {p}]
  <2>1. SysCall(x, <<"#true">>)
    BY <1>1 DEF Close
  <2>2. Good(x) /\ Still(x)
    BY <1>1, ClosedGood DEF IsOpen
  <2> QED
    BY <2>1, <2>2, QuietAnswers, QuietCall
<1>2. CASE ~ IsOpen(p)
  BY <1>2, AskInv DEF Close
<1> QED
  BY <1>1, <1>2

LEMMA SendFileInv ==
    ASSUME Good(io), NEW p \in Fd, NEW q \in Fd, NEW n \in Int, SendFile(p, q, n)
    PROVE  Good(io') /\ Moved /\ SameSetup(io')
<1>1. CASE n > 0
  <2> DEFINE to == [size |-> n, to |-> p, from |-> q]
             x  == [io EXCEPT !.sending = to]
  <2>1. SysCall(x, <<"sending">>)
    BY <1>1 DEF SendFile
  <2>2. to \in [size : Int, to : Fd, from : Fd]
    OBVIOUS
  <2> HIDE DEF to
  <2>3. Good(x) /\ Still(x) /\ SameSetup(x)
    BY <2>2, SendingGood
  <2>4. io' = x
    BY <2>1 DEF SysCall
  <2> QED
    BY <2>1, <2>3, <2>4, QuietAnswers, QuietCall
<1>2. CASE ~ (n > 0)
  BY <1>2, AskInv DEF SendFile
<1> QED
  BY <1>1, <1>2

LEMMA PipeInv ==
    ASSUME Good(io), Pipe
    PROVE  Good(io') /\ Moved
<1>1. CASE SysCall(Error("other"), <<"#false">>)
  BY <1>1, AskInv
<1>2. CASE ~ SysCall(Error("other"), <<"#false">>)
  <2> DEFINE a(g) == [Desc("in", EndBlocks("in")) EXCEPT !.peer = g]
             b(f) == [Desc("out", EndBlocks("out")) EXCEPT !.peer = f]
             x(f, g) == [io EXCEPT !.held = @ \cup {f, g}, !.fds[f] = a(g), !.fds[g] = b(f)]
  <2>1. PICK f \in Fresh, g \in Fd :
           g > f /\ ~ IsOpen(g) /\ SysCall(x(f, g), <<"ports", f, g>>)
    BY <1>2 DEF Pipe
  <2>2. f \in Fd /\ f # g /\ io.fds[f].kind = "none" /\ io.fds[g].kind = "none"
    BY <2>1 DEF Fresh, IsOpen, Fd
  <2>3. a(g) \in Descr /\ a(g).kind # "none" /\ b(f) \in Descr /\ b(f).kind # "none"
    <3>1. /\ Desc("in", EndBlocks("in")) \in Descr /\ Desc("in", EndBlocks("in")).kind = "in"
          /\ Desc("out", EndBlocks("out")) \in Descr /\ Desc("out", EndBlocks("out")).kind = "out"
      BY DescType DEF EndBlocks, Kinds
    <3> QED
      BY <2>2, <3>1 DEF Descr
  <2>4. x(f, g) = Piped(f, g, a(g), b(f))
    BY DEF Piped
  <2> HIDE DEF a, b, x
  <2>5. Good(x(f, g)) /\ Still(x(f, g))
    BY <2>2, <2>3, <2>4, PipeGood
  <2> QED
    BY <2>1, <2>5, QuietAnswers, QuietCall
<1> QED
  BY <1>1, <1>2

\* Every call that only asks.
Asks == \/ AskFile \/ AskDirectory \/ AskSocket \/ AskPeer \/ AskToYield \/ AskToSleep
        \/ AskTime \/ AskSystem \/ AskSelf \/ NoCall

LEMMA AsksInv ==
    ASSUME Good(io), Asks
    PROVE  Good(io') /\ Moved /\ SameSetup(io')
<1>1. \E a \in {"some", "#false", "#true", "#eof", "sending"} :
         SysCall(io, <<a>>) \/ SysCall(Error("other"), <<a>>)
  BY DEF Asks, AskFile, AskDirectory, AskSocket, AskPeer, AskToYield, AskToSleep, AskTime,
         AskSystem, AskSelf, NoCall, MayFail, Answers
<1> QED
  BY <1>1, AskInv

LEMMA IoctlInv ==
    ASSUME Good(io), NEW p \in Fd, Ioctl(p)
    PROVE  Good(io') /\ Moved /\ SameSetup(io')
<1>1. SysCall(io, <<"#true">>) \/ SysCall(io, <<"#false">>)
  BY DEF Ioctl
<1> QED
  BY <1>1, AskInv

LEMMA ListenInv ==
    ASSUME Good(io), NEW p \in Fd, Listen(p)
    PROVE  Good(io') /\ Moved
<1>1. CASE Is(p, {"socket", "listening"})
  <2> DEFINE x == [io EXCEPT !.fds[p].kind = "listening"]
  <2>1. SysCall(x, <<"#true">>)
    BY <1>1 DEF Listen
  <2>2. "listening" \in Kinds /\ io.fds[p].kind # "none"
    BY <1>1 DEF Kinds, Is
  <2>3. Good(x) /\ Still(x)
    BY <2>2, KindGood
  <2> QED
    BY <2>1, <2>3, QuietAnswers, QuietCall
<1>2. CASE ~ Is(p, {"socket", "listening"})
  BY <1>2, AskInv DEF Listen
<1> QED
  BY <1>1, <1>2

\* open, socket, accept.
LEMMA NewPortInv ==
    ASSUME Good(io), NEW p \in Fd, Open \/ Socket \/ Accept(p)
    PROVE  Good(io') /\ Moved
<1>1. CASE SysCall(Error("other"), <<"#false">>) \/ SysCall(io, <<"#false">>)
  BY <1>1, AskInv
<1>2. CASE \E f \in Fresh : SysCall(With(f, [Desc("file", FALSE) EXCEPT !.bytes = Room]), <<"port", f>>)
  <2>1. "file" \in Kinds \ {"none"} /\ Room \in Int
    BY PortsAssumption DEF Kinds
  <2>2. FALSE \in BOOLEAN
    BY Zenon
  <2>3. PICK f \in Fresh : SysCall(With(f, [Desc("file", FALSE) EXCEPT !.bytes = Room]), <<"port", f>>)
    BY <1>2
  <2> QED
    BY <2>1, <2>2, <2>3, PortInv, Zenon
<1>3. CASE \E f \in Fresh : \/ SysCall(With(f, Desc("socket", TRUE)), <<"port", f>>)
                            \/ SysCall(With(f, Desc("connected", FALSE)), <<"port", f>>)
  <2>1. {"socket", "connected"} \subseteq Kinds \ {"none"} /\ 0 \in Int
    BY DEF Kinds
  <2>2. FALSE \in BOOLEAN /\ TRUE \in BOOLEAN
    BY Zenon
  <2>3. PICK f \in Fresh : \/ SysCall(With(f, Desc("socket", TRUE)), <<"port", f>>)
                          \/ SysCall(With(f, Desc("connected", FALSE)), <<"port", f>>)
    BY <1>3
  <2>4. ASSUME NEW k \in Kinds \ {"none"}, NEW b \in BOOLEAN,
               SysCall(With(f, Desc(k, b)), <<"port", f>>)
        PROVE  Good(io') /\ Moved
    BY <2>1, <2>4, PortInv, Zenon
  <2> QED
    BY <2>1, <2>2, <2>3, <2>4
<1> QED
  BY <1>1, <1>2, <1>3 DEF Open, Socket, Accept, DropDirectory

LEMMA SetupInv ==
    ASSUME Good(io),
           (\E n \in {io.limit, 2} : Limit(n)) \/ OpenDirectory \/ EnterStrict
    PROVE  Good(io') /\ Moved
<1>1. io.limit \in Int /\ io.dirs + 1 \in Int /\ TRUE \in BOOLEAN
  <2>1. TRUE \in BOOLEAN
    BY Zenon
  <2> QED
    BY <2>1 DEF Good, IoType
<1>2. CASE \E n \in {io.limit, 2} : Limit(n)
  <2>1. PICK n \in Int : Limit(n)
    BY <1>1, <1>2
  <2>2. Good([io EXCEPT !.limit = n]) /\ Still([io EXCEPT !.limit = n])
    BY <1>1, FieldGood
  <2> QED
    BY <2>1, <2>2, QuietAnswers, QuietCall DEF Limit
<1>3. CASE OpenDirectory
  <2>1. Good([io EXCEPT !.dirs = io.dirs + 1]) /\ Still([io EXCEPT !.dirs = io.dirs + 1])
    BY <1>1, FieldGood
  <2> QED
    BY <1>3, <2>1, QuietAnswers, QuietCall, AskInv DEF OpenDirectory
<1>4. CASE EnterStrict
  <2>1. Good([io EXCEPT !.sandbox = TRUE]) /\ Still([io EXCEPT !.sandbox = TRUE])
    BY <1>1, FieldGood
  <2> QED
    BY <1>4, <2>1, QuietAnswers, QuietCall, AskInv DEF EnterStrict
<1> QED
  BY <1>2, <1>3, <1>4

\* What is not a call: the host, the other processes, and the rest of a sendfile.
LEMMA SetStdInv ==
    ASSUME Good(io), NEW id \in 0..1, SetStd(id, 3)
    PROVE  Good(io') /\ Moved /\ SameSetup(io')
<1>1. id \in 0..2 /\ 3 \in Fd
  BY Descriptors
<1>2. io' = [io EXCEPT !.std[id] = 3] /\ reply' = <<"none">>
  BY DEF SetStd
<1>3. Good(io') /\ SameSetup(io') /\ Still(io')
  BY <1>1, <1>2, StdGood
<1>4. \A f \in Fd : io.fds[f].bytes \in Int
  BY OldIo DEF Descr
<1>5. Moved
  BY <1>2, <1>3, <1>4 DEF Moved, Still
<1> QED
  BY <1>3, <1>5

LEMMA OutsideInv ==
    ASSUME Good(io), NEW f \in Fd, Outside(f, Room)
    PROVE  Good(io') /\ Moved /\ SameSetup(io')
<1>1. io' = [io EXCEPT !.fds[f].bytes = Room] /\ calls' = calls /\ Room \in Int
  BY PortsAssumption DEF Outside
<1>2. Good(io') /\ SameSetup(io')
  BY <1>1, BytesGood
<1> QED
  BY <1>1, <1>2 DEF Moved

LEMMA SendingOf ==
    ASSUME NEW y, Good(y), NEW s \in [size : Int, to : Fd, from : Fd],
           NEW x, x = [y EXCEPT !.sending = s]
    PROVE  Good(x) /\ (SameSetup(y) => SameSetup(x))
  BY DEF Good, IoType, Held, SameSetup

LEMMA SendSomeInv ==
    ASSUME Good(io), SendSome
    PROVE  Good(io') /\ Moved /\ SameSetup(io')
<1> DEFINE s == io.sending
           f == Target(s.to)
           done == [io EXCEPT !.sending = Idle]
           more(k) == [io EXCEPT !.fds[f].bytes = io.fds[f].bytes + k]
<1>1. s \in [size : Int, to : Fd, from : Fd] /\ f \in Fd /\ io.fds[f].bytes \in Int
  BY OldIo, Ports DEF Descr
<1>2. Idle \in [size : Int, to : Fd, from : Fd]
  BY Descriptors DEF Idle
<1>3. Good(done) /\ SameSetup(done)
  BY <1>2, SendingGood
<1>4. ASSUME io' = done \/ io' = [done EXCEPT !.errno = "other"]
      PROVE  Good(io') /\ SameSetup(io')
  <2>1. "other" \in Errors
    BY DEF Errors
  <2>2. Good([done EXCEPT !.errno = "other"]) /\ SameSetup([done EXCEPT !.errno = "other"])
    <3> HIDE DEF done
    <3> QED BY <1>3, <2>1 DEF Good, IoType, Held, SameSetup
  <2> QED
    BY <1>3, <1>4, <2>2
<1>5. ASSUME \E k \in 1..Least(s.size, Room - io.fds[f].bytes) :
               \/ io' = [more(k) EXCEPT !.sending = Idle]
               \/ io' = [more(k) EXCEPT !.sending.size = @ - k]
      PROVE  Good(io') /\ SameSetup(io')
  <2>1. PICK k \in 1..Least(s.size, Room - io.fds[f].bytes) :
             \/ io' = [more(k) EXCEPT !.sending = Idle]
             \/ io' = [more(k) EXCEPT !.sending.size = @ - k]
    BY <1>5
  <2>2. k \in Int /\ io.fds[f].bytes + k \in Int
    BY <1>1
  <2>3. Good(more(k)) /\ SameSetup(more(k))
    <3> HIDE DEF f
    <3> QED BY <1>1, <2>2, BytesGood
  <2>4. more(k).sending \in [size : Int, to : Fd, from : Fd]
    BY <2>3 DEF Good, IoType
  <2> DEFINE rest == [more(k).sending EXCEPT !.size = @ - k]
  <2>5. rest \in [size : Int, to : Fd, from : Fd]
    <3> HIDE DEF more
    <3> QED BY <2>2, <2>4
  <2>6. io' = [more(k) EXCEPT !.sending = Idle] \/ io' = [more(k) EXCEPT !.sending = rest]
    <3> HIDE DEF more
    <3> QED BY <2>1
  <2> HIDE DEF more, rest
  <2> QED
    BY <1>2, <2>3, <2>5, <2>6, SendingOf
<1>6. Good(io') /\ SameSetup(io')
  BY <1>4, <1>5 DEF SendSome
<1>7. calls' = calls
  BY DEF SendSome
<1> QED
  BY <1>6, <1>7 DEF Moved

------------------------------------------------------------------------------
\* Any call: in the sandbox, of the cases of the numbers that are left.
LEMMA SwitchInv ==
    ASSUME Good(io), NEW op \in Numbers, Switch(CaseOf(op, io.sandbox))
    PROVE  Good(io') /\ Moved /\ (io.sandbox => SameSetup(io'))
<1> DEFINE case == CaseOf(op, io.sandbox)
<1>1. io.sandbox \in BOOLEAN /\ case \in Int /\ (io.sandbox => case > 9999)
  <2>1. io.sandbox \in BOOLEAN
    BY DEF Good, IoType
  <2>2. op \in Nat
    BY PortsAssumption
  <2>3. io.sandbox => case = op + 10000
    BY DEF CaseOf
  <2>4. ~ io.sandbox => case = op
    BY DEF CaseOf
  <2> HIDE DEF case
  <2>5. case \in Int
    BY <2>2, <2>3, <2>4
  <2>6. io.sandbox => case > 9999
    BY <2>2, <2>3
  <2> QED
    BY <2>1, <2>5, <2>6
<1>2. /\ Named \subseteq Fd /\ io.held \subseteq Fd /\ Sizes \subseteq Int
  BY Ports, OldIo, PortsAssumption
<1> HIDE DEF case
<1>3. CASE \E p \in Named, n \in Sizes : ReadPort(p, n)
  BY <1>2, <1>3, ReadInv
<1>4. CASE \E p \in Named, n \in Sizes : WritePort(p, n)
  BY <1>2, <1>4, WriteInv
<1>5. CASE \E p \in Named, q \in io.held, n \in Sizes : SendFile(p, q, n)
  BY <1>2, <1>5, SendFileInv
<1>6. CASE \E p \in Named : Ioctl(p)
  BY <1>2, <1>6, IoctlInv
<1>7. CASE Asks
  BY <1>7, AsksInv
<1>8. CASE ~ (case > 9999) /\ \E p \in Named : Close(p)
  BY <1>1, <1>2, <1>8, CloseInv
<1>9. CASE ~ (case > 9999) /\ \E p \in Named : Listen(p)
  BY <1>1, <1>2, <1>9, ListenInv
<1>10. CASE ~ (case > 9999) /\ (Open \/ Socket \/ \E p \in Named : Accept(p))
  <2>1. \E p \in Fd : Open \/ Socket \/ Accept(p)
    BY <1>2, <1>10, Descriptors
  <2> QED
    BY <1>1, <1>10, <2>1, NewPortInv
<1>11. CASE ~ (case > 9999) /\ Pipe
  BY <1>1, <1>11, PipeInv
<1>12. CASE ~ (case > 9999) /\ ((\E n \in {io.limit, 2} : Limit(n)) \/ OpenDirectory \/ EnterStrict)
  BY <1>1, <1>12, SetupInv
<1>13. Switch(case)
  BY DEF case
<1> QED
  <2>1. \/ \E p \in Named, n \in Sizes : ReadPort(p, n)
        \/ \E p \in Named, n \in Sizes : WritePort(p, n)
        \/ \E p \in Named, q \in io.held, n \in Sizes : SendFile(p, q, n)
        \/ \E p \in Named : Ioctl(p)
        \/ Asks
        \/ ~ (case > 9999) /\ \E p \in Named : Close(p)
        \/ ~ (case > 9999) /\ \E p \in Named : Listen(p)
        \/ ~ (case > 9999) /\ (Open \/ Socket \/ \E p \in Named : Accept(p))
        \/ ~ (case > 9999) /\ Pipe
        \/ ~ (case > 9999) /\ ((\E n \in {io.limit, 2} : Limit(n)) \/ OpenDirectory \/ EnterStrict)
    BY <1>1, <1>13 DEF Switch, Asks
  <2> QED
    BY <2>1, <1>3, <1>4, <1>5, <1>6, <1>7, <1>8, <1>9, <1>10, <1>11, <1>12

------------------------------------------------------------------------------
LEMMA InitInv == PortsInit => Good(io)
<1> SUFFICES ASSUME PortsInit PROVE Good(io)
  OBVIOUS
<1>1. NoDesc \in Descr /\ NoDesc.kind = "none"
  BY NoDescType
<1>2. ASSUME NEW f \in Fd PROVE Desc("tty", f = 0) \in Descr
  <2>1. (f = 0) \in BOOLEAN
    BY Zenon
  <2>2. "tty" \in Kinds
    BY DEF Kinds
  <2> QED
    BY <2>1, <2>2, DescType
<1>3. [f \in Fd |-> IF f < 3 THEN Desc("tty", f = 0) ELSE NoDesc] \in [Fd -> Descr]
  BY <1>1, <1>2
<1>4. [i \in 0..2 |-> i] \in [0..2 -> Fd] /\ 0..2 \subseteq Fd
  BY Descriptors
<1>5. Idle \in [size : Int, to : Fd, from : Fd]
  BY Descriptors DEF Idle
<1>6. FALSE \in BOOLEAN
  BY Zenon
<1>7. IoType(io)
  BY <1>3, <1>4, <1>5, <1>6 DEF PortsInit, IoType, Errors
<1>8. Held(io)
  <2> SUFFICES ASSUME NEW f \in 3..MaxFd PROVE io.fds[f].kind = "none"
    BY DEF Held
  <2>1. f \in Fd /\ ~ (f < 3)
    BY Descriptors
  <2>2. io.fds[f] = NoDesc
    BY <2>1 DEF PortsInit
  <2> QED
    BY <1>1, <2>2
<1> QED
  BY <1>7, <1>8 DEF Good

LEMMA NextInv ==
    ASSUME Good(io), [PortsNext]_portsVars
    PROVE  Good(io') /\ Moved /\ (io.sandbox => SameSetup(io'))
<1>1. CASE \E op \in Numbers : Switch(CaseOf(op, io.sandbox))
  BY <1>1, SwitchInv
<1>2. CASE \E id \in 0..1, fd \in {3} : SetStd(id, fd)
  BY <1>2, SetStdInv
<1>3. CASE \E f \in Fd, k \in {Room} : Outside(f, k)
  BY <1>3, OutsideInv
<1>4. CASE SendSome
  BY <1>4, SendSomeInv
<1>5. CASE UNCHANGED portsVars
  BY <1>5, OldGood DEF portsVars, Moved
<1> QED
  BY <1>1, <1>2, <1>3, <1>4, <1>5 DEF PortsNext

LEMMA GoodAlways == PortsSpec => []Good(io)
<1>1. Good(io) /\ [PortsNext]_portsVars => Good(io)'
  BY NextInv DEF Good, IoType, Held
<1> QED
  BY <1>1, InitInv, PTL DEF PortsSpec

\* Whatever a program calls, what is open beyond the first three descriptors is
\* known to it: open, pipe, socket and accept hand out what they make, and close
\* takes back what is gone.
THEOREM NothingLeaks == PortsSpec => []NoLeak
<1>1. Good(io) => NoLeak
  BY DEF Good, Held, NoLeak, IsOpen
<1> QED
  BY <1>1, GoodAlways, PTL

\* In the sandbox no call, by any number, opens, closes or sets up anything, and
\* there is no way out of it.
THEOREM SandboxStaysClosed == PortsSpec => SandboxClosed
<1>1. Good(io) /\ [PortsNext]_portsVars => [io.sandbox => Closed]_portsVars
  <2> SUFFICES ASSUME Good(io), [PortsNext]_portsVars, io.sandbox PROVE Closed
    OBVIOUS
  <2>1. SameSetup(io')
    BY NextInv
  <2>2. io.sandbox = TRUE
    BY DEF Good, IoType
  <2> QED
    BY <2>1, <2>2 DEF SameSetup, Closed
<1> QED
  BY <1>1, GoodAlways, PTL DEF PortsSpec, SandboxClosed, Closed

\* A read or a write of any size answers the number of bytes that went through,
\* and a call that answers anything else has moved none.
THEOREM AllAccounted == PortsSpec => Accounted
<1>1. Good(io) /\ [PortsNext]_portsVars => [Moved]_portsVars
  BY NextInv
<1> QED
  BY <1>1, GoodAlways, PTL DEF PortsSpec, Accounted, Moved
==============================================================================
