-------------------------------- MODULE MCVm --------------------------------
(* The parts of the virtual machine that are checked alone, talkback and    *)
(* the queue, in one run: the first state says which of them moves; the     *)
(* others stay at a state of rest.  They have no variable in common.        *)
EXTENDS Heap, Machine, Ports, Ff, Values, Image, Native, Talkback, OwlQueue

VARIABLE part

Parts == {"heap", "machine", "ports", "ff", "values", "image", "native", "talkback",
         "queue"}

vmVars == <<part, heapVars, machineVars, portsVars, ffVars, valuesVars, imageVars,
            nativeVars, talkbackVars, queueVars>>

\* An image of two objects, a block with room for the work of one apply and a
\* few words more.
MCConst  == {Nil}
MCLoaded == {2}
MCBase   == {0, 100}
MCPlace  == {0}

HeapRest ==
    /\ heap = [mem |-> <<>>, begin |-> 0, cells |-> MemPad + 1, gen |-> 0, fp |-> 0,
               R |-> [r \in Reg |-> Val(Nil)]]
    /\ sandbox = FALSE /\ burst = 0 /\ steps = 0

MachineRest ==
    /\ R = [i \in 0..6 |-> False] /\ pin = [i \in {0, 3} |-> False]
    /\ run = <<>> /\ where = [o \in Object |-> 0] /\ ready = {}
    /\ paused = {}

\* Both ends of a pipe in use, and as many calls as a socket needs to be
\* accepted from.
MCSizes   == {-1, 0, 2}
MCNumbers == {0, 1, 2, 3, 4, 5, 11, 12, 16, 22, 23, 24, 35, 40, 41, 42, 43, 50, 63, 78, 96,
              157, 1001, 1007, 1009, 1011}

\* Values and references whose words are in the order of the kinds.
MCFfKeys == {[ref |-> FALSE, word |-> n] : n \in 1..3} \cup {[ref |-> TRUE, word |-> n] : n \in 5..7}

MCArgv == {<<>>, <<1, 0, 2>>}

\* What the two lists hold at first: values, rationals, pointers, and objects that
\* not every element can be written to.
MCLists == {[l1 |-> <<<<"num", 1>>>>,            l2 |-> <<<<"ratio", -6>>, <<"ratio", 9>>>>],
            [l1 |-> <<<<"vptr", <<"p", 7>>>>>>,  l2 |-> <<<<"big", 20>>>>]}

\* Arguments of every type with objects of every kind, all mixes of words and
\* floats up to four, of three more than there are registers for words, and of
\* four more than there are registers for floats, all pairs of other types, with
\* a list behind them, and lists by reference with elements of every type.
MCKinds(n) == UNION {[1..k -> {"int", "double"}] : k \in 0..n}
MCArg(t, k) == <<t, <<"num", k>>>>
MCMixed(pre, n) == {[k \in 1..(Len(pre) + Len(s)) |->
    MCArg(IF k <= Len(pre) THEN pre[k] ELSE s[k - Len(pre)], k)] : s \in MCKinds(n)}
MCInts   == [k \in 1..5 |-> "int"]
MCFloats == [k \in 1..7 |-> "double"]
MCList(t, l, e) == <<t, <<"list", l>>, e>>
MCPlain == {<<"int", <<"num", 1>>>>, <<"float", <<"num", 2>>>>, <<"double", <<"false">>>>,
            <<"int64", <<"num", 3>>>>, <<"int64", <<"string", 1>>>>, <<"int", <<"ratio", 6>>>>,
            MCList("ref", "l1", "int32"), MCList("ref", "l2", "int32"),
            MCList("array", "l1", "int32"), <<"array", <<"nil">>, "int32">>}
MCOthers == {<<<<t, a>>>> :
    t \in {"any", "int", "int64", "float", "vptr", "string", "wide", "callable", "port", "word",
           "void"},
    a \in {<<"false">>, <<"num", 1>>, <<"ratio", 6>>, <<"string", 1>>, <<"bvec", 2>>, <<"vptr", 7>>,
           <<"callable", 4>>}}
MCElems == {"int16", "uint16", "int32", "uint32", "float", "double", "vptr", "int64"}
MCRefs == {<<MCList("ref", "l1", e)>> : e \in MCElems}
          \cup {<<MCList("ref", "l1", e), MCList("ref", "l2", f)>> : e \in MCElems, f \in {"int16", "float"}}
          \cup {<<MCList("array", "l2", e), MCList("ref", "l1", e)>> : e \in MCElems}
MCCalls == MCMixed(<<>>, 4) \cup MCMixed(MCInts, 3) \cup MCMixed(MCInts \o MCFloats, 4)
           \cup [1..2 -> MCPlain] \cup MCOthers \cup MCRefs
           \cup {s \in [1..3 -> MCPlain] : s[3] = MCList("ref", "l1", "int32") /\ s[1][1] # "array"
                                     /\ s[2][1] \notin {"ref", "array"}}
           \cup {<<<<"strings", <<"list", "l1">>>>>>}
MCNested == {<<MCArg("double", 1)>>, <<MCList("ref", "l1", "int32")>>}
MCCallbacks == MCKinds(2) \cup {<<"int", "double", "int">>, <<"double", "int", "double">>,
                               [k \in 1..6 |-> "int"], [k \in 1..7 |-> "int"],
                               [k \in 1..5 |-> "double"], [k \in 1..9 |-> "double"],
                               <<"vptr", "string", "float">>, <<"other", "int">>}

\* Negative numbers, numbers that fit a value, and larger ones.
MCFilledWith == {-40, -3, 5}
MCShifts == {-2, 15}

NativeRest ==
    /\ platform = "sysv" /\ lists = [l \in ListNames |-> <<>>]
    /\ kept = <<>> /\ slots = <<>> /\ stack = <<>> /\ echo = <<>>

\* Queues of up to five values: a half of an odd and of an even list, and
\* enough operations to fill one, empty it from both ends and refill it.
MCValue == {"a", "b"}

QueueRest == hd = <<>> /\ rtl = <<>> /\ result = Default /\ opsDone = 0 /\ work = 0

VmInit ==
    /\ part \in Parts
    /\ IF part = "heap"    THEN HeapInit    ELSE HeapRest
    /\ IF part = "machine" THEN MachineInit ELSE MachineRest
    /\ IF part = "native"  THEN NativeInit  ELSE NativeRest
    /\ IF part = "queue"   THEN QueueInit   ELSE QueueRest
    /\ PortsInit /\ FfInit /\ ValuesInit /\ ImageInit /\ Init

VmNext ==
    /\ part' = part
    /\ \/ part = "heap" /\ HeapNext
       \/ part # "heap" /\ UNCHANGED heapVars
    /\ \/ part = "machine" /\ MachineNext
       \/ part # "machine" /\ UNCHANGED machineVars
    /\ \/ part = "ports" /\ PortsNext
       \/ part # "ports" /\ UNCHANGED portsVars
    /\ \/ part = "ff" /\ FfNext
       \/ part # "ff" /\ UNCHANGED ffVars
    /\ \/ part = "values" /\ ValuesNext
       \/ part # "values" /\ UNCHANGED valuesVars
    /\ \/ part = "image" /\ ImageNext
       \/ part # "image" /\ UNCHANGED imageVars
    /\ \/ part = "native" /\ NativeNext
       \/ part # "native" /\ UNCHANGED nativeVars
    /\ \/ part = "talkback" /\ Next
       \/ part # "talkback" /\ UNCHANGED talkbackVars
    /\ \/ part = "queue" /\ QueueNext
       \/ part # "queue" /\ UNCHANGED queueVars

VmSpec == VmInit /\ [][VmNext]_vmVars
==============================================================================
