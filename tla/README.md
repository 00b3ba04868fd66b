# Verification of Ol (Otus Lisp)

Ol is a purely functional Lisp: a virtual machine in C (`src/olvm.c`), a
compiler and a thread controller in Lisp (`lang/`), a library (`libraries/`) and
an extension that calls native functions (`extensions/ffi.c`), and one that embeds
the machine in a C program (`extensions/talkback/`).
This directory holds TLA+ models of it, the TLC configurations that check them
on small instances, and TLAPS proofs for every instance. Paths below are
relative to the repository's root.

1. [The system](#1-the-system)
2. [The modules](#2-the-modules)
3. [The runs, their bounds and what they show](#3-the-runs)
4. [Where code and documentation disagree](#4-where-code-and-documentation-disagree)
5. [Fairness](#5-fairness)
6. [What is proved](#6-what-is-proved)
7. [What is not modelled, and the plan](#7-what-is-not-modelled-and-the-plan)

## 1. The system

| Part | Code | State | Operations | What makes it hard |
|---|---|---|---|---|
| Thread controller | `lang/threading.scm` | the run lists `todo` and `done`; the association `state`: mailboxes and waiting continuations under thread names, links, exit value, break action | the 22 interops, the end of a quantum, a new round, halting | a name holds a mailbox, a continuation or nothing, and every interop of every thread may change which |
| Message passing | `libraries/owl/interop.scm` | envelopes a thread set aside while it waits for another one | `mail`, `wait-mail`, `check-mail`, `accept-mail`, `poll-mail-from`, `interact`, `fork*`, `kill`, `shutdown` | mail of anyone comes between a request and its answer |
| Servers | `lang/intern.scm`, `lang/assemble.scm`, `libraries/owl/io.scm`, `libraries/lib/http.scm` | symbol tree, bytecode table, list of sleepers | loops of request and answer | answers to threads that do not wait yet, or no more |
| Sleeper | `libraries/owl/io.scm` 105-167 | sleepers as distances from one to the next, rounds to go | `sleep`, wake-ups | requests between and during the rounds it counts |
| Queues | `libraries/owl/queue.scm` | a list and a reversed list | both ends | halves change sides |
| Dispatcher of the machine | `src/olvm.c`, `runtime`: `apply`, `SYS`, `RUN` | `this`, `ip`, `acc`, `ticker`, `bank`, the controller's continuation in `R[0]` | a tick per application, interops, errors, the end of a thread, callbacks | one bank for all threads; collections while a pointer into code is held; activations that nest |
| Talkback | `extensions/talkback/talkback.c` | `ok`, `error`, a pipe, two condition variables | `OL_tb_send`, `OL_tb_eval`, `OL_tb_reset`, two callbacks | two operating system threads, signals that find no one asleep |
| Garbage collector | `src/olvm.c` 1142-1400 | heap, `genstart`, `fp` | mark, sweep, resize | references threaded through headers, compaction in place, two generations, a block that moves |
| Primitives, numbers | `src/olvm.c`, `libraries/owl/math.scm` | - | fixnum carries, native numbers, digit lists, argument lists, fields | widths, signs, the last register, the last field |
| Input and output | `SYSCALL` in `src/olvm.c`, `libraries/owl/io.scm` | descriptors, redirected ports, sandbox, `errno` | files, pipes, sockets, directories, limits | every call may fail, or do part of its work |
| Loading | `main`, `OL_new`, `OL_run` in `src/olvm.c`; `libraries/owl/fasl.scm` | the image, the block it is built in | encode, count, build, run | two passes over the same bytes have to agree |
| Foreign functions | `extensions/ffi.c`, `OP_MKCB` in `src/olvm.c` | the arguments of the last call, the callables | calls, write back, callbacks | where each platform puts an argument |
| Association tables | `libraries/owl/ff.scm`, the tree instructions of `src/olvm.c` | red-black trees | `put`, `get`, `del`, application | two searches for one tree |
| Data structures | `libraries/owl/rlist.scm`, `vector.scm`, `sort.scm`, `lazy.scm` | - | skew lists, trees, streams | balance, order |
| Compiler | `lang/*.scm` | environment | passes from S-expressions to bytecode | binding, closures, registers |
| Repl | `lang/eval.scm` | environment, input stream | read, evaluate in a thread, report errors | an evaluation that is broken off |

How they interact. The machine runs one thread at a time. `vm:run` gives a
thread a quantum of ticks; every application of a procedure costs one. The
machine returns to the controller, itself a Lisp function, when the quantum is
over or when the thread makes an *interop* (`SYS`). The controller puts the
thread back, changes its own state and runs the next one. Everything else
between threads is mail: `(mail to msg)` puts an envelope into the mailbox of
`to`, wakes `to` when it waits, and is dropped when `to` has no mailbox.
`(interact server msg)` is a `mail` followed by `accept-mail`, which takes
envelopes until one is from `server` and then returns the others to the
mailbox. The interners, the sleeper and the repl's evaluations are such servers.
Allocation happens in the middle of a block of code; the collector runs at an
application or inside a block, takes registers as roots and moves what they
refer to. A native function is called with converted arguments and may call back:
the callback starts another activation of `runtime` on the same registers, and
the machine keeps what it needs afterwards in registers of its own.
Talkback runs all that in a thread of the operating system, feeds it programs
through a pipe and takes answers from two shared fields.

For each part, what makes it correct:

* controller: a thread is in one place; nothing of it remains when it is gone;
  mail is not doubled (`OnlyOnce`), and neither lost nor overtaken but as the
  abstract specification says (`ImplementsActorMail`: mail to one without a mailbox
  is dropped, returned mail goes to the end); every runnable thread runs, where no
  other one keeps the processor (`TurnComes`).
* message passing: a client gets the answer to its own request and does not
  wait for ever.
* sleeper: no one's first sleep is cut short, no one wakes later than the sleeper's
  absences and other requests explain, and no one is dropped from its list.
* queues: they are sequences, and both ends are near.
* talkback: an eval returns the answer to its own program, keeps it from the
  collector while it is used, and returns.
* collector: what is reachable stays, unchanged up to addresses.
* dispatcher: a thread that was cut goes on as it was; the controller is never
  lost; a native function goes on as it was after a callback.
* input and output: what is answered is what has happened, no descriptor is lost,
  and the sandbox stays closed.
* loading: what was encoded is what runs.
* foreign functions: arguments arrive, what is written comes back.
* tables: they are the functions they stand for, however they are asked.
* primitives: no digit is lost.

`PROJECT.json` lists the hazards, each at its line with the properties that
would catch it.

## 2. The modules

| Module | Models | Proofs |
|---|---|---|
| `ActorMail` | what threads may rely on: one queue of envelopes per thread | `ActorMailProofs` |
| `Threading` | `lang/threading.scm`, programs left open; implements `ActorMail` | `ThreadingProofs` |
| `Interop` | request and answer of `owl/interop.scm` on `Threading`, with the quanta of the machine | `InteropProofs` |
| `Sleeper` | the sleeper of `owl/io.scm` and its clients, on `Threading` | `SleeperProofs` |
| `Deque` | what a double-ended queue promises | |
| `OwlQueue` | `owl/queue.scm`; implements `Deque` | `OwlQueueProofs` |
| `Talkback` | `extensions/talkback/talkback.c` | `TalkbackProofs` |
| `HeapSize` | how the collector sizes the heap | `MachineProofs`, at its end |
| `Heap` | the memory of the machine and its collector | |
| `Machine` | the dispatcher: threads, controller, errors, callbacks | `MachineProofs` |
| `Ports` | the system calls on descriptors, and the sandbox | `PortsProofs` |
| `Ff` | `owl/ff.scm` and the instructions for its nodes | |
| `Values` | what single instructions compute | |
| `Image` | the encoder of `owl/fasl.scm`, `main`, `OL_new`, `OL_run` | |
| `Native` | `OL_ffi`, `make-callable` and `callback` | |
| `MC*` | instances for TLC | |

**Threading.** One step is one turn of `(thread-controller todo done state)`:
the quantum of the head of `todo` together with the whole handler of the
interop that ended it. The association `state` is split by the kind of its
keys: `slot` (what lies under a thread's name: nothing, a mailbox, a
continuation), `inbox`, `links`, `retval`. `deliver-mail` returns both a run
list and a state, which are the three operators `Waked`, `SlotAfter` and
`InboxAfter`; `DropDelivering` is the end of a thread with the report to the one
it is linked to; the actions `Fork`, `Mail`, `TakeMail`, `WaitMail`, `Kill`, ...
are the entries of `mcp-syscalls` and carry their numbers. Programs are
arbitrary: at any turn a thread may make any interop. `held` is the pile of
envelopes a thread set aside (`rev-spam` in `accept-mail`), which it may return.

**Interop** fixes the programs: clients call `interact` (some compute between
its two halves, some use `poll-mail-from`), a server answers, others disturb.
Who does what is the variable `cast`, chosen in the first state from `Casts`, with
the ticks (`pace`) after which a thread that makes interops for ever makes the next.
It extends `Threading` and adds time: `left[t]` is how many ticks a thread makes
before its next interop, `bank` is the machine's variable of that name. Whether
a thread is cut is then a comparison: `Calls` when the interop comes in time,
`OutOfTicks` when the quantum is over first. The costs (`AskCost`, `LookCost`)
are counts of the applications in the compiled library. No thread runs two of these
programs, and there are finitely many threads (`InteropAssumption`).

**Sleeper** also extends `Threading`. `ls` holds the beds as the code does, as
distances. `FindBed` is what `find-bed` does: it goes on with the list it was given,
not with the rest of it (`io.scm:117`). So a request for `n` rounds, when the first
bed is `h` rounds away, puts `n \div h` copies of the first bed in front, then the
new one, then what is left of the first bed; all others move back by `n - n % h`.
When `h` is 0 it does not end (`Endless`); the sleeper is then lost until the memory
is used up, and the properties say nothing more (`Serves`). `want`, `age` and `late`
are history: what a client asked for, the rounds since then, and the rounds by which
it may be woken late: those for which the sleeper counts a stretch it has begun, was
not given its turn, or has put the client's bed back for another one (`PutOff`).

**OwlQueue** counts list cells visited in `work`, so that the reason for the
structure (both ends near, amortised) is a property. **Talkback** has one action
per step of either side between two points where the other one can get in.

**Heap** has the words of the block. A word is a value, a reference, a header or a
reference with its lowest bit set, as `mark` leaves it while it threads the
references to an object through its header. `MarkFrom`, `SweepFrom` and `Collected`
follow `mark`, `sweep` and `gc`; each allocating instruction, both forms of
`set-ref!`, the test at an application and the one inside a block are actions.
The arithmetic of sizes is in **HeapSize**, alone, because `Heap` has recursive
operators and `HeapSize` is proved about.

**Machine** keeps the other side of it: registers, activations (`run`), where
objects lie (`where`) and the instruction pointer as an object and an address.
Blocks of code are names; an instruction is what it does to control.

**Ports** has one action per system call. The operating system and the
other end of every pipe and socket are external: a call has any outcome they can
give it. Bytes are counted, not named.

**Ff** has the tree as the code does, with the mark for an only right child, and
the function it stands for beside it. **Values** computes one result per step,
kept with its inputs in `calc`; the undefined cast of a double that no `long long`
holds gives either of the results processors have for it. **Image** follows one start
of the machine: a file is read in pieces, its first line is skipped, a byte (with a
sign, or without) decides what it is, and it is counted, built and run; its bytes come
from the encoder, or are those of a text.

**Native** has arguments, objects and elements of arrays with their kinds. `Passed`
says what an argument becomes, with the cases of the code that misplace what follows;
`SysV`, `Win64` and `X86` where the words go, `Params` where a C function looks for
them. The lists of the program are a variable: `Elem` makes an array of one, the
function changes it (`Store`), and `ReturnToLisp` writes it back by `WrittenElem`,
type by type, from what the word of the argument's number points to. Where that is
no such array, or the object is of another kind, the list is spoilt or the process
ends. `Heard` and `ToLisp` are what a callback finds and what it makes of it. Native
functions and callbacks call each other on a stack.

These seven parts of the machine, talkback and the queues have no variable in
common. `MCVm` checks them in one run: its variable `part` says which of them moves,
the others rest in a first state. `MCFfGet`, `MCMachineIp` and `MCFifthFloat` are
instances of one part each.

**Conventions.** A definition commented as a mutant is the code with a plausible
bug; it is not used by any specification. Bounds are constants, marked as such
where they are declared, and stand in guards.

## 3. The runs

| Run | Checks | Bounds, and why they are enough |
|---|---|---|
| `threading` | `TypeOK`, `RunsOnce`, `NothingOutlives`, `OnlyOnce`, `ImplementsActorMail` | 3 names (one mails, kills or watches a second while a third waits), 2 mails (an order exists), 2 forks (a name is used twice). Any interleaving of all interops; names other than `init` are interchangeable |
| `interop` | `NotCut`, `AnswerMatches`, `NoStaleAnswer`, `TurnComes`, `Answered`, `AcceptedOnce` | two clients (one without mailbox, one that computes before it waits), two requests each, a server, and in three casts: one that mails the clients other things; a thread that makes interops for ever, every 19 ticks, and is cut; the same every 9 ticks, and is not, next to a client that polls twice and gives up. 30 ticks with 10 in reserve and user code of 15 or 25 ticks, so that deposits are made, refused and used up |
| `sleeper` | `FirstSleepWhole`, `NotLate`, `NoneForgotten`, `WakesUp` | two clients that sleep up to three times each, for 0, 1 or a default of 3 rounds, and a cut: a bed that was doubled for the first sleep of one is left over in the next one's, and there are requests between, before and behind beds, and for a list whose first bed is due |
| `vm`, `part = "queue"` | `EndsStayNear`, `LoopHalves`, `ImplementsDeque` | up to 5 values, 11 operations from every list of at most 5: halves of odd and even length on both sides |
| `vm`, `part = "heap"` | `Down`, `KeepsGraph`, `RoomToRun` | an image of two objects, two registers, 4 instructions, a block that may move by 100; raw objects of 9 words, so that the block must grow, and be left alone, and shrink. Collections of both kinds come at any application |
| `vm`, `part = "machine"` | `BossKept`, `Resumed`, `CallbackReturns` | two threads and the controller, quanta of one tick, so that a thread is cut at every application; one callback at a time. One address: where objects lie matters to `machine_ip` only |
| `vm`, `part = "ports"` | `NoLeak`, `SandboxClosed`, `Accounted` | three calls (socket, listen, accept; pipe, write, read), two descriptors beyond the standard ones (both ends of a pipe), buffers of two bytes (none, part, all) |
| `vm`, `part = "ff"` | `Finds`, `Balanced` | six keys, of values and of references, 8 operations: every shape of insertion and deletion of trees of that size |
| `vm`, `part = "values"` | `DigitsExact`, `NumbersKept`, `ListsApplied`, `SetThenRef` | all digits of 3 bits, native integers of one, two and more digits, doubles with a mantissa of 5 bits on both sides of what a long long of 8 bits holds and of the 7 bits after the point that are looked at, all argument lists on both sides of the last register, all positions in small objects, and around them |
| `vm`, `part = "image"` | `GraphLoaded`, `FileRun` | all images of up to 3 objects with short and long numbers, raw objects of 0 to 5 bytes in words of 2, first lines of 0, 2 and 4 bytes, texts that start with a character of seven or eight bits, `char` with a sign and without, read in any pieces, or not readable |
| `vm`, `part = "native"` | `ArgsArrive`, `ParamsHeard`, `WroteBack`, `EchoKept` | all mixes of words and floats up to four, with 5 words and with 5 words and 7 floats before them, so that each kind of register runs out, every type with every kind of object, pairs of types with a list by reference behind them; lists by reference of all types of elements, of values, large numbers, rationals and pointers, alone and in pairs; numbers that are negative, fit a value (4 bits of 6), and do not; three nested activations |
| `vm`, `part = "talkback"` | `AnswersAdvance` | 5 programs, each sent or evaluated, each may fail |
| `interop_order`, `queue_peek`, `sleeper_early`, `talkback_other`, `talkback_kept`, `ff_get`, `machine_ip`, `fifth_float` | | section 4 |

What they show:

* `RunsOnce`: waking, killing, forking and time slices never leave a second copy
  of a thread, whose continuation would then run twice. `NothingOutlives`: a
  mailbox or link left under a name would meet the next thread of that name.
* `ImplementsActorMail`: although an envelope may lie in a mailbox, in a woken
  continuation or on a pile of returned mail, each thread sees one queue. Within
  a return the order of the envelopes is kept; that the returned ones go behind
  newer ones is part of what the abstract specification says (`PutBack`).
* `NotCut`: a client without a mailbox must wait before the answer comes, or the
  answer is dropped. Nothing in `interact` says so. It holds because the machine
  deposits only more than ten ticks, so a thread comes back from an interop with
  more ticks than `interact` needs for the way to its wait: with the reserve left
  out, TLC finds a client that waits for ever. Clients that are slower on that
  way need a mailbox, as `fork-server` gives.
* `TurnComes` says who gets the processor. The reserve of ten ticks has a price: an
  interop that leaves no more deposits nothing, and `RUN` starts the same thread with a
  whole quantum (`olvm.c:2287`). A thread that makes interops every `pace` ticks is
  therefore cut now and then exactly if `Ticks % pace > Reserve` (`CutOff`); otherwise
  it keeps the processor for ever. `TurnComes` and `Answered` are about the first case
  and programs without such a thread; the properties of safety are about both.
* `NotLate` makes lateness precise: the sleeper counts a whole stretch of rounds
  before it looks at its mail, so a short sleep asked for meanwhile waits for the
  rest of that stretch, and no longer; and a request that goes beyond the first bed
  puts off everyone behind it, by `n - n % h` rounds and no more.
* `FirstSleepWhole` is what remains of "sleep a thread n rounds": the copies that
  `find-bed` makes wake their thread too often, but none of them, and no bed moved
  by them, is due too early for a thread that sleeps for the first time. Later
  sleeps end with the mail that is left over from an earlier one (`sleeper_early`).
* `NoneForgotten`: while the sleeper serves, everyone who waits to be woken has a
  bed or a request on its way, through all copies and cuts.
* `EndsStayNear`: alternating between the ends costs at most five units per
  operation, because a half is moved and not the whole list.
* `AnswersAdvance`: in spite of the races of section 4, what an eval returns is
  never an answer returned before.

* `KeepsGraph` compares what the program sees through its registers before and
  after every step, up to addresses but with sharing and the order of ages. It
  needs `Down`: an object refers to objects below it only. The collector of the new
  generation does not look at old objects, and sweeping undoes the threads of
  marking in one pass; both are right because `set-ref!` refuses, or copies, what
  would point upwards.
* `RoomToRun`: what an application finds free is what the tests that are one word
  short (`VMNEW_OBJECT`) rely on. It does not hold inside the sandbox, where the
  heap does not grow; the property says so.
* `Resumed`, `BossKept`, `CallbackReturns` say of threads, the controller and
  callbacks that each finds its registers again. They hold for callbacks that are
  not nested. `OL_ffi`'s callback keeps continuation and controller in two fixed
  registers, so that the outer one of two gets those of the inner one.
* `Accounted`: what a read or a write answers is what went through, errors, busy
  ports and partial writes included. `NoLeak`: what is open is known to the
  program, on every way out of a call that fails after it opened something.
* `SandboxClosed`: in the sandbox numbers of calls are moved, and no number gets
  to a call that opens, closes or sets up anything.
* `Finds`, `Balanced`: insertions and deletions that restore colours in different
  ways leave a red-black tree that is the table.
* `GraphLoaded`: encoder, counting and building agree on where an object begins,
  and on the room all of them take. `FileRun`: an image is run from its first byte,
  whatever stands before it and in whatever pieces it is read, and a text is left to
  the repl if its first byte is below 128.
* `ArgsArrive`, `ParamsHeard`, `WroteBack`: each argument is where the platform's
  convention says, in both directions, and what a function leaves in an array comes
  back. The definitions in front of them (`Misplaced`, `InPlace`, `Convertible`,
  `HasPlace`) are the cases that the code gets wrong, which the models contain and
  the properties leave out; section 4 lists them.
* `NumbersKept`: conversions between numbers and doubles are exact where the code has
  no limit; its limits are in section 4.

Deadlock is not checked: the machine halts when no thread is left to run, a
program may end, and the bounds stop the rest.

## 4. Where code and documentation disagree

* `queue_peek` (`owl/queue.scm:79-101`): `qcar` and `qrac` lack the case of a
  single value that `quncons` and `qunsnoc` have. A queue whose only value lies
  in the other list raises `(car '())` when it is looked at.
* `sleeper_early` (`owl/io.scm:117`): `find-bed` calls itself with `ls` where its
  comment, "wake some time after this one", needs the rest of the list. A request
  that goes beyond the first bed doubles that bed; its thread gets mail once more
  for each copy, and takes what is left over for the end of its next sleep: it wakes
  before the rounds it asked for (`io.scm:9`).
* `interop_order` (`owl/interop.scm:142`): mail is said to be order-preserving;
  `accept-mail` returns what it set aside to the *end* of the mailbox, behind
  what the same sender mailed since.
* `talkback_other` (`talkback.h:63`): when an earlier program fails,
  `OL_tb_eval` returns before its own program has run, and the next
  `OL_tb_eval` returns the answer to it.
* `talkback_kept` (`talkback.c:155`): the machine may answer and go to sleep
  before `OL_tb_eval` calls `wakeup(olvm)`, which then starts it while the C
  program uses an answer that lies in the machine's heap.

* `ff_get` (`src/olvm.c:1866`): a table applied to a key compares the words of
  keys; the tables are ordered by `less?` (`LESSQ`, lines 2724-2739), which puts
  every value before every reference. `owl/ff.scm:287-288` gives the application
  as what `get` is. A key may be found by one and not by the other.
* `machine_ip` (`src/olvm.c:2309`): `RUN` of a thread sets `ip` into the thread's
  code, and leaves `this` at the state of the thread. The next collection inside
  the block moves `ip` (`"vm instructions pointer"`, line 1904) as far as the state
  has moved, not as far as the code.

* `fifth_float` (`src/olvm.c:4177`): the code of a callable says "movsd [esp+32], xmm4"
  and holds the bytes of a store of `xmm2`: the fifth float of a callback is the third.

These have no run of their own. The properties named leave them out, or the model
follows the code:

* `read` answers `#true` when nothing is there to read; `olvm.c:3014` says `#false`.
* `set-ref!` takes a position of one more than there are fields (`olvm.c:2707`,
  `2712`; `SetThenRef`), and writes the word after the object.
* `d2ol` loses the only digit of a denominator that is a power of the base of digits
  (`olvm.c:1707`), a denominator of 2^1024 and more (1704), and the lowest digit of
  an integer from 2^63 on, whose cast is undefined (1744); for infinity it does
  not end (`NumbersKept`).
* A text whose first byte is 128 or more (a letter of UTF-8, a byte order mark) is taken
  for an image where `char` has a sign (`olvm.c:4590`, `4609`): the machine ends with
  "Bad object in heap" (`FileRun`).
* `APPLY` (`olvm.c:2260`) looks for too many arguments one argument late, after it
  has written the first pinned register (`ListsApplied`).
* `OL_ffi` finds what it writes back by the number of the argument
  (`ffi.c:1226`): behind a float, or on 32 bits a double, a rational or a long
  integer, it is another word; after a nested native call it belongs to that one
  (`WroteBack`).
* A list of integers of 64 bits is passed as a null (`ffi.c:892`, `1119`), although
  `libraries/otus/ffi.scm:60` offers `fft-int64&`.
* Of what is written back, doubles have no case (`ffi.c:936`, `1236-1373`), although
  `libraries/otus/ffi.scm:52` offers references to any type; floats are cut to
  1/10000 (1346) and written into whatever the object is; an unsigned int is
  read as an int (1312); on 32 bits an int that no value holds is not stored, or is
  written over the object that is in the list (1281-1293) (`WroteBack`).
* `#false` for a float of System V is placed as an integer, and for what takes two
  words on 32 bits it is one; there a rational for an int is two words (`ffi.c:818`),
  and the upper word of a long integer made of no number is not set (842)
  (`ArgsArrive`).
* A value passed as a string is read as a reference (`ffi.c:996`, `1028`).
* `callback` makes integers of parameters without their sign and upper bits
  (`ffi.c:1607`), leaves the register as it was for a type it does not know (1716), and
  looks one beyond the registers it was given (1579, 1619) (`ParamsHeard`).
* `exit` inside a callback ends the callback only (`olvm.c:3801`), and
  `make-callable` without a free register answers a number all the same (4072).

Two more steps that the models of talkback and quanta allow, for the reader who
changes this code: `ok = 0` comes after the program is written, so an answer may be cleared before
it is seen; `OL_tb_eval` then returns 0 without an error, or, when the signal has
been sent too, sleeps for ever. And `SYS` deposits nothing when ten ticks or less
are left, after which `RUN` starts the same thread with a whole quantum: a thread
whose interops always come at such moments keeps the processor (section 3, `TurnComes`).

## 5. Fairness

* `interop`: `WF(InteropNext)`. The machine is one sequential loop that does not
  stop while a thread can run; which thread moves is never a matter of fairness,
  since the model computes it from the ticks: a thread that keeps the processor keeps
  it, and `TurnComes` and `Answered` say what then is not promised.
* `sleeper`: `WF(SleeperNext)`, for the same reason. Clients compute for as
  long as they like between two sleeps, but the sleeper gets its turn by the
  order of the run lists. `WakesUp` ends where the sleeper loses itself in a bed that
  is due at once.

`vm` states no fairness and checks no liveness: its parts do a bounded number of
operations. No safety property depends on fairness.

## 6. What is proved

TLAPS proves, for all values of the constants (any set of threads, any bounds,
any values), under the named assumptions of the modules:

| Theorem | Module | Says |
|---|---|---|
| `TypeCorrect` | `ThreadingProofs` | `Spec => []TypeOK` |
| `EachRunsOnce` | `ThreadingProofs` | `Spec => []RunsOnce` |
| `NothingOutlivesItsThread` | `ThreadingProofs` | `Spec => []NothingOutlives` |
| `ControllerImplementsMail` | `ActorMailProofs` | `Spec => ImplementsActorMail` |
| `EachMessageOnce` | `ActorMailProofs` | `Spec => []OnlyOnce` |
| `InteractReturnsItsAnswer` | `InteropProofs` | `InteropSpec => []AnswerMatches` |
| `InteractLeavesNothing` | `InteropProofs` | `InteropSpec => []NoStaleAnswer` |
| `AnswersAcceptedOnce` | `InteropProofs` | `InteropSpec => AcceptedOnce` |
| `RequestNotCutOff` | `InteropProofs` | `InteropSpec => []NotCut` when `AskCost <= Reserve + 1` |
| `FirstSleepIsWhole` | `SleeperProofs` | `SleeperSpec => []FirstSleepWhole` |
| `SleepersAreNotLate` | `SleeperProofs` | `SleeperSpec => []NotLate` |
| `NoSleeperForgotten` | `SleeperProofs` | `SleeperSpec => []NoneForgotten` |
| `QueueIsASequence` | `OwlQueueProofs` | `QueueSpec => ImplementsDeque` |
| `AmortizedConstant` | `OwlQueueProofs` | `QueueSpec => []EndsStayNear` |
| `LoopIsHalfRev` | `OwlQueueProofs` | the loop of `rev-half` computes what `HalfRev` says, for lists of every length: `LoopHalves` for all of them |
| `BossNeverLost` | `MachineProofs` | `MachineSpec => []BossKept`, here and below for callbacks that do not nest |
| `CutThreadsGoOn` | `MachineProofs` | `MachineSpec => Resumed` |
| `NativeCallsGoOn` | `MachineProofs` | `MachineSpec => CallbackReturns` |
| `AnswersInOrder` | `TalkbackProofs` | `Spec => AnswersAdvance` |
| `NothingLeaks` | `PortsProofs` | `PortsSpec => []NoLeak` |
| `SandboxStaysClosed` | `PortsProofs` | `PortsSpec => SandboxClosed` |
| `AllAccounted` | `PortsProofs` | `PortsSpec => Accounted` |
| `CellsSuffice` | `MachineProofs` | a full collection leaves room for what is used and asked for |
| `YoungSuffices` | `MachineProofs` | a collection of the new generation that no full one follows has freed what is asked for, and a fifth of the block |
| `SizeSettles` | `MachineProofs` | under the same load a block is not enlarged and then made smaller, nor the other way round |

*Threads.* `TypeOK /\ RunsOnce /\ NothingOutlives` is inductive as it stands. The
work is in the run lists: that waking a thread makes no second copy follows from
`Waiting \cap Runnable = {}`, that killing removes every trace of a name from
there being one entry for it, and both have to survive lists that are consed,
popped, filtered and swapped. Lemmas say what the operations on run lists do to the set of names
and their distinctness (`ConsIds`, `TailIds`, `DropIds`), one lemma treats the
end of a thread with its report (`DropInv`, used for ending and killing), and
there is one lemma per interop.

*Mail.* The refinement maps the mail of a thread (`Boxes`) to what it was given and has
not used, followed by its inbox. What the code has in four places (an entry of `todo`
or `done`, a mailbox, the pile `held`) is thereby two functions, and there is one
lemma per interop that says what becomes of both (`MailBoxes`, `TakeBoxes`,
`ReturnBoxes`, ...). Beyond the invariant of the threads it needs that a thread that is
gone keeps no pile (`KeptLive`). `OnlyOnce` follows from an invariant on the two functions
put one behind the other: all numbers are at most `sent`, and each is at one place only;
every interop moves, drops or adds a number, and none copies one.

*Requests and answers.* The invariant, `Protocol`, stands on that of the threads: the
turns of these programs are turns of the controller (`TurnInv`), so the lemmas on
mail apply. It says who is where in its program (`Roles`), what a client may have set
aside (`Aside`), that the server has a request in hand exactly when it is about
to answer (`Serving`), and how far a client's count of requests is ahead of the
answers it has accepted (`Counted`). The part that makes it inductive is `Flows`: between
every client and the server there is a number m such that the answers on their
way are those after the last one accepted, up to m, and the requests on their
way are those after m, up to the last one made, all in the order of their numbers.
`Counted` and `Flows` together give each client its own answer: if only one
request is open, there is only one number left for the answer. That an answer of an earlier
request cannot be in the mailbox is the same fact with no request open; that a client
that polls does not accept an answer twice is that m lies above what it has accepted.

*Quanta.* `NotCut` needs another invariant (`Cuts`): a client that has mailed and has no mailbox is the
thread that runs, and its next interop is not more than `Reserve + 1` ticks away. It is
preserved because a thread never starts with less: `bank` is 0 or greater than
`Reserve`, and 0 stands for a whole quantum. The condition is about what `>` and `<`
do in the machine: with 10 in reserve, 11 applications fit into the smallest turn.
`interact` makes 9.

*Sleepers.* Again the turns are turns of the controller. The invariant says where
everyone is (`Typed`, `Routine`, `Turns`), what cannot be left over while a first sleep
has not ended (`Fresh`: no mail, and requests for what is wanted now), and, of those
who were woken and have not run yet, that they were woken in time (`Roused`). What makes
it inductive is `Clocked`. The code stores distances; the sums `f` of the distances up to
each bed are when it is due, and the invariant asks for one such function (`Dues`)
with two sides: for everyone in its first sleep *every* bed is due late enough
(`Whole`), and for everyone who sleeps *some* bed, or a request, is due early enough
(`InTime`). Both compare what has gone by for a thread (`age`, and the turn of this round,
`Away`) with what has gone by for the sleeper (`Passed`, or `Left` of the stretch it
counts). Turns that leave the list alone keep both sides as long as these move
together (`Steady`, `ClockGoesOn`). Taking the first bed away subtracts its distance from all sums
(`DuesOfTail`, and `DuesGrow`, that sums do not fall, by a smallest counterexample). For
`find-bed`, `BedsLaid` says where the beds come to lie and `BedsFound` when they are due: the new one after
`n`, everyone's beds not before they were, some bed of the first one's thread when it was,
and the others later by what `PutOff` accounts for. The theorems assume finitely many clients;
durations, their number and the bounds are arbitrary.

*Machine.* The invariant (`MachineInv`, theorem `StateKept`) follows the shape of the
stack of activations: none, one alone, or a callback's on top of the one that called
the native function. In each it says whose turn it is (a thread's with the
controller's continuation in `R[0]`, or the controller's own with `#false` there), and
that nothing a program can hold is the controller. `Resumed` and `CallbackReturns` are
about steps from such states; there is one lemma per action. The theorems assume
`MaxDepth \in 1..2`: callbacks that nest break these properties (see section 3).

*Queues.* Three arguments. The refinement maps the pair to `hd \o Reverse(rtl)`;
the lemmas on `Reverse` and on `HalfRev` (`HalvedFront`, `HalvedBack`) show that
moving a half leaves that sequence alone. The cost is a potential argument:
`work + 2 * |Len(hd) - Len(rtl)| <= 5 * ops` is inductive, because moving half of
a list of length n costs 2n and takes away a difference of n, up to one.
`EndsStayNear` follows by dropping the potential. The loop that
halves a list has passed `(i + 1) \div 2` values after `i` turns, by induction. The
library's induction theorems take a predicate, which the provers cannot instantiate;
`SetInduction` takes a set, the numbers of the turns for which it holds.

*Talkback.* The invariant says that programs lie in the pipe in the order of
their numbers, that all of them are newer than the answer in `ok` and than the
last one returned, and that while an eval waits `ok` is empty or newer than the
last one returned. The last part is what `ok = 0` establishes.

*Ports.* The inductive invariant, `Good`, is that the process has its types and
that what is open is held. There is one lemma for each way in which a call changes
the process (an error, bytes, a new descriptor, a closed one, a pipe, a kind), and
one for each call, which says that it keeps `Good`, that it has moved what it
answers (`Moved`) and, for the calls that the sandbox leaves, that nothing is set up
(`SameSetup`). In the sandbox the case of a call is greater than 9999, whatever its
number, which leaves those. The answer of a partial transfer is exact because `k` bytes are
added to, or taken from, the very descriptor that the answer names, behind every
redirection.

*Sizes of the heap.* These are facts about the operators that `Heap` uses, for
blocks of every size, where TLC sees a few. They rest on one lemma, what a half, a
third, a fifth and a ninth are in integer division, and a case for each limit.
`RoomToRun` itself is about `Heap`, and stays with TLC.

Only model-checked: liveness (`TurnComes`, `Answered`, `WakesUp`: out of the prover's
reach); and everything about `Heap`, `Ff`, `Values`, `Image` and `Native`, which use
recursive operators, with which the prover loses its arithmetic.

## 7. What is not modelled, and the plan

Not modelled, with reasons in `PROJECT.json`:

* of the controller: the queries that change nothing (7, 8, 18), breaks, profiling
  and parallel computation (10, 11, 12, 16, 17, 22). With them go three hazards: an
  option of `por*` that fails ends the controller and every thread with it
  (`threading.scm:459`); the memory limit ends whichever thread runs when its
  quantum is over (`threading.scm:250`); a break looks for `repl-eval` among the
  threads that are to run and halts the machine when it waits (`threading.scm:472`).
  That the machine halts although threads wait for mail (`threading.scm:442`) is
  what the code does; nothing says what it should do.
* of talkback: `OL_tb_stop`, which cancels a thread that may hold a mutex, the
  import hook, and a pipe with a limit (a program longer than the room in it is cut).
* of the machine: `vm:cast`, type tests, bitwise instructions and the floating point
  unit, which compute one word from another; embedding (`OL_embed`) and signals.
* of input and output: `execve`, `fork` and the terminal; that the system refuses to
  make a new socket non-blocking (`olvm.c:3518`, where it is lost); files that become
  shorter while they are read; and all of `io.scm` above the system calls, that
  is, reads and writes that sleep and try again, and ports as streams.
* of serialisation: the decoder of `fasl.scm`, and which objects are written.
* of foreign functions: results that are strings or floats, how exact floats are,
  pointers in place of arrays (deprecated), parameters of callbacks that are lists of
  types, processors other than x86; machine code is modelled by the words it moves.
* random access lists, vectors, sorting, lazy lists, arbitrary precision numbers,
  regular expressions, strings: pure functions, most of them plain recursions.
* the compiler, whose correctness is the meaning of every program, and the repl's
  evaluations (their result is any mail of the thread `repl-eval`, `eval.scm:153`).
* bindings, standard syntax, the web server and small libraries: tables and thin
  wrappers, or built of what is above.

Planned, in this order; every module of pure algorithms gets a reference
definition and a bounded check against it:

1. `Input`: reads and writes of `io.scm` that sleep and retry, on `Ports` and `Sleeper`.
2. `Par`: `step-parallel` and the tree of `por*` nodes inside the controller,
   with failures, against "some option's value, or none".
3. Breaks and the memory limit: interops 10 to 12 and 14, `repl-signal-handler`,
   and the repl's `evaluate-as` on top of `Threading`.
4. `RList` (skew binary lists against sequences), `Vector`, `Sort` (stability), `Lazy`.
5. `Bignum`: digit lists with a small base, and the fixnum primitives they use.
6. The intern tree and bytecode table as servers under `Interop`'s protocol.

Theorems that would follow: `WroteBack` and `ArgsArrive` of `Native`, once its lists of
arguments are folds and not recursions.
