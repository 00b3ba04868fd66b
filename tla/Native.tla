------------------------------- MODULE Native -------------------------------
(***************************************************************************)
(* Calls of native functions (OL_ffi in src/extensions/ffi.c) and their    *)
(* calls back into the machine (make-callable in src/olvm.c, callback in   *)
(* ffi.c): how arguments are converted and placed on each platform, what   *)
(* is written back to lists, and what a number becomes on its way.  The    *)
(* registers that callbacks keep are in Machine.                           *)
(***************************************************************************)
EXTENDS Integers, Sequences, SequencesExt

CONSTANTS Platforms,  \* of "sysv", "win64", "x86" and "js"
          Lists0,     \* bound: what the lists l1 and l2 may hold at first
          FilledWith,     \* bound: the numbers that functions write into arrays
          Calls0,     \* bound: the argument lists, with the types they have
          Calls1,     \* bound: those that occur together with callables
          Callbacks,  \* bound: the types of callables
          Shifts,     \* bound: the k-th parameter of a callback is k + s
          CallbackLast, \* CR: the register after the last one of callables
          MaxNest,    \* bound: activations of native functions and callbacks
          WordBits,   \* bits of a native integer
          ValueBits,  \* VBITS
          Scale       \* 10000: floats are written back in parts of 1/Scale

ASSUME NativeAssumption ==
    /\ 3 < ValueBits /\ ValueBits < WordBits /\ WordBits <= 2 * ValueBits
    /\ CallbackLast > 4 /\ Scale > 0

VARIABLES platform,
          lists,      \* what the machine's lists hold that arrays are made of
          kept,       \* R[129] and R[130]: the arguments of the last call
          slots,      \* R[NR + 4] and up: what callables are made of
          stack,      \* native functions and callbacks, the innermost one last
          echo        \* a number that was passed and returned

nativeVars == <<platform, lists, kept, slots, stack, echo>>

ListNames == {"l1", "l2"}
Junk == <<"junk">>

\* The platforms of 32 bits.
Narrow == platform \in {"x86", "js"}

------------------------------------------------------------------------------
\* Numbers.  The number that two digits of n stand for, as a word, and n without
\* its third digit, which is what from_uint reads.
Mag(n) == IF n < 0 THEN -n ELSE n
Sign(n, m) == IF n < 0 THEN -m ELSE m

\* Mutant: only the first digit is read.
FirstDigit(n) == Sign(n, Mag(n) % 2 ^ ValueBits) % 2 ^ WordBits

ToWord(n) == Sign(n, Mag(n) % 2 ^ (2 * ValueBits)) % 2 ^ WordBits

\* A word as a C type of so many bits.
AsC(t, w) ==
    LET x == w % 2 ^ t.bits IN
    IF t.signed /\ x >= 2 ^ (t.bits - 1) THEN x - 2 ^ t.bits ELSE x

\* itosv: sign and magnitude, of which what does not fit is lost.  itouv: a
\* negative number is a large one, whose upper bits are lost.
ToSv(n) == Sign(n, Mag(n) % 2 ^ ValueBits)
ToUv(n) == n % 2 ^ ValueBits

\* The C types of the elements of arrays: a short fits a value, an int fits only
\* where a word is wide.
IntBits == IF Narrow THEN WordBits ELSE ValueBits - 1
CInt == [bits |-> IntBits, signed |-> TRUE]
ElemType(e) == [bits   |-> IF e \in {"int16", "uint16"} THEN 2 ELSE IntBits,
                signed |-> e \in {"int16", "int32"}]
IsInt(e) == e \in {"int16", "uint16", "int32", "uint32"}

------------------------------------------------------------------------------
\* An object is <<kind, content>>: a value ("num"), a large number ("big"), a
\* rational in parts of 1/Fine ("ratio"), a pointer ("vptr") and so on.
Fine == 2 * Scale
Whole(o) == IF o[1] = "ratio" THEN Sign(o[2], Mag(o[2]) \div Fine) ELSE o[2]
InParts(o) == IF o[1] = "ratio" THEN o[2] ELSE o[2] * Fine
IsNumber(o) == o[1] \in {"num", "big", "ratio"}

\* A number as an integer: of a large one two digits, of a rational what is before
\* the point.
ToInt(o) == IF o[1] = "big" THEN ToWord(o[2]) ELSE Whole(o)

\* An argument is <<type, object>>, and of arrays <<type, object, element>>.  It
\* becomes words for the array args, or a float for the array ad.
Words(ws) == [float |-> FALSE, words |-> ws]
AsWord(v) == Words(<<v>>)
Zero == AsWord(<<"n", 0>>)
Wide(v) == Words(<<v, <<"high", v>>>>)

\* Integers; rationals are two words where a word is narrow.
IntArg(a) ==
    CASE a[1] \in {"num", "big"} -> AsWord(<<"n", ToInt(a)>>)
      [] a[1] = "ratio" -> IF Narrow THEN Wide(<<"n", Whole(a)>>) ELSE AsWord(<<"n", Whole(a)>>)
      [] OTHER -> Zero

\* Integers of 64 bits are two words where a word is narrow; of what is no number
\* the upper one is not set.
LongArg(a) ==
    IF ~ Narrow THEN IntArg(a)
    ELSE IF IsNumber(a) THEN Wide(<<"n", Whole(a)>>) ELSE Words(<<<<"n", 0>>, Junk>>)

\* Floats and doubles have registers of their own on one platform, and doubles
\* are two words where a word is narrow.
FloatArg(t, a) ==
    LET f == <<"f", IF IsNumber(a) THEN InParts(a) ELSE 0>> IN
    CASE platform = "sysv" -> [float |-> TRUE, words |-> <<f>>]
      [] t = "double" /\ Narrow -> Wide(f)
      [] OTHER -> AsWord(f)

\* An array is made of a list on the stack; an empty list is a null, and for
\* integers of 64 bits there are no arrays.  (A pointer in place of a list of
\* pointers, which is deprecated, is left out.)
ArrayArg(arg, k) ==
    IF arg[2][1] = "nil" \/ arg[3] = "int64" THEN Zero ELSE AsWord(<<"array", k>>)

\* Pointers, and byte vectors for them: the place of the bytes in the object.
PointerArg(a) ==
    CASE a[1] = "vptr" -> AsWord(<<"n", a[2]>>)
      [] a[1] = "bvec" -> AsWord(<<"at", a[2]>>)
      [] OTHER -> Zero

\* Strings: the place of the bytes; wide ones: an array of the characters, with
\* a zero in the place of the last one.  The type of what is no reference is read
\* from wherever its word points (see Trap).
StringTypes == {"string", "wide"}
NoReference(a) == a[1] \in {"num", "nil"}
StringArg(t, a) ==
    CASE NoReference(a) -> AsWord(Junk)
      [] a[1] \in {"string", "bvec"} -> AsWord(<<IF t = "wide" THEN "chars" ELSE "at", a[2]>>)
      [] OTHER -> Zero

\* Lists of strings: an array of the places of their bytes.  Callables, ports (the
\* three standard ones are streams; of a reference the bits are taken), words as
\* they are.
OtherArg(t, a) ==
    CASE t = "strings" -> AsWord(<<"places", a[2]>>)
      [] t = "callable" /\ a[1] = "callable" -> AsWord(<<"code", a[2]>>)
      [] t = "port" -> AsWord(IF ~ NoReference(a) THEN Junk
                              ELSE IF a[2] \in 0..2 THEN <<"stream", a[2]>> ELSE <<"n", a[2]>>)
      [] t = "word" -> AsWord(<<"word", a>>)
      [] OTHER -> Zero

\* The type of an argument whose type is "any" is that of the object, which may
\* be one that is not known for arguments.
TypeOf(t, a) ==
    CASE t # "any" -> t
      [] a[1] = "num" -> "int"
      [] a[1] \in {"string", "vptr", "callable"} -> a[1]
      [] OTHER -> "unknown"

\* #false is a word of zero, for every type.
Passed(args, k) ==
    LET a == args[k][2]
        t == TypeOf(args[k][1], a)
    IN  IF a[1] = "false" THEN Zero
        ELSE CASE t = "int" -> IntArg(a)
               [] t = "int64" -> LongArg(a)
               [] t \in {"float", "double"} -> FloatArg(t, a)
               [] t \in {"array", "ref"} -> ArrayArg(args[k], k)
               [] t = "vptr" -> PointerArg(a)
               [] t \in StringTypes -> StringArg(t, a)
               [] OTHER -> OtherArg(t, a)

\* The array args has the words of the arguments that are not in ad, which is
\* the array of the floats.
Args(args) == FlattenSeq([k \in DOMAIN args |->
    LET p == Passed(args, k) IN IF p.float THEN <<>> ELSE p.words])
Ad(args)   == FlattenSeq([k \in DOMAIN args |->
    LET p == Passed(args, k) IN IF p.float THEN p.words ELSE <<>>])
Mask(args) == [k \in DOMAIN args |-> Passed(args, k).float]

------------------------------------------------------------------------------
\* x64_call of System V: six words and eight floats are in registers; what is
\* left is pushed from the last one, the mask telling which kind is next.
RECURSIVE Push(_, _, _, _, _)
Push(mask, ws, fs, i, d) ==
    IF mask = <<>> \/ (i <= 6 /\ d <= 8) THEN <<>>
    ELSE LET k    == Len(mask)
             rest == SubSeq(mask, 1, k - 1)
         IN  IF mask[k]
             THEN IF d <= 8 THEN Push(rest, ws, fs, i, d)
                  ELSE Append(Push(rest, ws, fs, i, d - 1), fs[d])
             ELSE IF i <= 6 THEN Push(rest, ws, fs, i, d)
                  ELSE Append(Push(rest, ws, fs, i - 1, d), ws[i])

First(s, n) == SubSeq(s, 1, IF Len(s) < n THEN Len(s) ELSE n)

\* Mutant: the floats that are left are pushed before the words.
SysVUnmasked(args) ==
    LET ws == Args(args)
        fs == Ad(args)
    IN  [ints |-> First(ws, 6), floats |-> First(fs, 8),
         stack |-> SubSeq(ws, 7, Len(ws)) \o SubSeq(fs, 9, Len(fs))]

SysV(args) ==
    LET ws == Args(args)
        fs == Ad(args)
    IN  [ints |-> First(ws, 6), floats |-> First(fs, 8),
         stack |-> Push(Mask(args), ws, fs, Len(ws), Len(fs))]

\* x64_call of Windows: the first four are in registers of both kinds.
Win64(args) ==
    LET ws == Args(args) IN
    [ints |-> First(ws, 4), floats |-> First(ws, 4), stack |-> SubSeq(ws, 5, Len(ws))]

\* x86_call, and the functions asmjs_call knows: all words in their order.
X86(args) == [ints |-> <<>>, floats |-> <<>>, stack |-> Args(args)]

\* asmjs_call knows functions of at most twelve words, and of four floats; no
\* other function is called.  Functions with doubles are left out: "no double
\* for any call yet supported".
IsFloat(args, k) == args[k][1] \in {"float", "double"} /\ args[k][2][1] # "false"
AsmJsKnows(args) ==
    LET all == {IsFloat(args, k) : k \in DOMAIN args} IN
    \/ all = {TRUE} /\ Len(args) = 4 /\ (\A k \in 1..4 : args[k][1] = "float")
    \/ TRUE \notin all /\ Len(Args(args)) <= 12

Placed(args) ==
    CASE platform = "sysv" -> SysV(args)
      [] platform = "win64" -> Win64(args)
      [] OTHER -> X86(args)

\* The words of the parameters, as a function reads them that has these types:
\* external.
Floating(t) == t \in {"float", "double"}
RECURSIVE SysVParams(_, _, _, _, _)
SysVParams(args, k, i, d, at) ==
    IF k > Len(args) THEN <<>>
    ELSE LET fl    == Floating(args[k][1])
             n     == IF fl THEN d ELSE i
             inReg == n < (IF fl THEN 8 ELSE 6)
             src   == IF ~ inReg THEN at.stack ELSE IF fl THEN at.floats ELSE at.ints
             pos   == IF inReg THEN n + 1
                      ELSE 1 + (IF i > 6 THEN i - 6 ELSE 0) + (IF d > 8 THEN d - 8 ELSE 0)
         IN  <<<<IF pos \in DOMAIN src THEN src[pos] ELSE Junk>>>>
             \o SysVParams(args, k + 1, IF fl THEN i ELSE i + 1, IF fl THEN d + 1 ELSE d, at)

\* The words of a type.
SizeOfType(t) == IF Narrow /\ t \in {"double", "int64"} THEN 2 ELSE 1

RECURSIVE Flat(_, _, _)
Flat(args, k, ws) ==
    IF k > Len(args) THEN <<>>
    ELSE LET n == SizeOfType(args[k][1]) IN
         <<First(ws, n)>> \o Flat(args, k + 1, SubSeq(ws, n + 1, Len(ws)))

Params(args) ==
    LET at == Placed(args) IN
    IF platform = "sysv" THEN SysVParams(args, 1, 0, 0, at)
    ELSE Flat(args, 1, at.ints \o at.stack)

------------------------------------------------------------------------------
\* itosn and itoun: a value, or two digits; the lowest integer has no
\* magnitude, and gives a zero.
Result(x) == IF x = -(2 ^ (WordBits - 1)) THEN 0 ELSE x

\* The integer types: narrow ones that always fit a value, and the word.
CTypes == {[bits |-> b, signed |-> s] : b \in {2, ValueBits, WordBits}, s \in BOOLEAN}

Echo(n, t) ==
    /\ echo' = <<n, t, Result(AsC(t, AsC(t, ToWord(n)) % 2 ^ WordBits))>>
    /\ UNCHANGED <<platform, lists, kept, slots, stack>>

------------------------------------------------------------------------------
Top == stack[Len(stack)]
InLisp == stack # <<>> => Top.kind = "lisp"
InNative == stack # <<>> /\ Top.kind = "native"

\* The process has ended: nothing more happens.
Dead == <<[kind |-> "dead"]>>

\* The arguments an array is made for, and those by reference.
Arrays(args) ==
    {k \in DOMAIN args : /\ args[k][1] \in {"array", "ref"} /\ args[k][2][1] = "list"
                         /\ args[k][3] # "int64"}
Refs(args) == {j \in Arrays(args) : args[j][1] = "ref"}

\* has_wb.
HasWb(args) ==
    \E j \in DOMAIN args : args[j][1] = "ref" /\ args[j][2][1] # "false" /\ args[j][3] # "int64"

\* What an element of an array is made of: to_int, to_float and to_double, which
\* make a zero of an object that is no number; of any object for a pointer, its
\* address.
Elem(e, o) ==
    CASE IsInt(e) -> <<"i", IF IsNumber(o) THEN AsC(ElemType(e), AsC(CInt, ToInt(o))) ELSE 0>>
      [] e \in {"float", "double"} -> <<"f", IF IsNumber(o) THEN InParts(o) ELSE 0>>
      [] OTHER -> <<"p", <<"object", o>>>>

\* A list that was written to where it must not be may hold anything.
Spoilt == <<Junk>>

\* A bound: the program makes one call, with those that it leads to, and does
\* not use a list that is spoilt.
Starts == stack = <<>> /\ kept = <<>> /\ echo = <<>>
MayCall == InLisp /\ Len(stack) < MaxNest /\ (stack = <<>> => Starts)

\* OL_ffi, until the function runs.
Invoke(args) ==
    /\ \A k \in Arrays(args) : lists[args[k][2][2]] # Spoilt
    /\ platform = "js" => AsmJsKnows(args)
    /\ stack' = Append(stack,
         [kind |-> "native", args |-> args, words |-> Args(args), params |-> Params(args),
          cells |-> [k \in Arrays(args) |->
                       LET l == lists[args[k][2][2]] IN [x \in DOMAIN l |-> Elem(args[k][3], l[x])]]])
    /\ kept' = args
    /\ UNCHANGED <<platform, lists, slots, echo>>

\* The type of what is no reference is looked for where no memory is.
Trap(args) ==
    /\ \E k \in DOMAIN args : args[k][1] \in StringTypes /\ NoReference(args[k][2])
    /\ stack' = Dead
    /\ UNCHANGED <<platform, lists, kept, slots, echo>>

\* The function changes an element of an array: external.
NewElem(e, v) ==
    CASE IsInt(e) -> <<"i", AsC(ElemType(e), v)>>
      [] e \in {"float", "double"} -> <<"f", v>>
      [] OTHER -> <<"p", <<"n", v>>>>

Store(k, x, v) ==
    /\ k \in DOMAIN Top.cells /\ x \in DOMAIN Top.cells[k]
    /\ stack' = [stack EXCEPT ![Len(stack)].cells[k][x] = NewElem(Top.args[k][3], v)]
    /\ UNCHANGED <<platform, lists, kept, slots, echo>>

\* What is written over the object o of a list.  An int that no value holds is not
\* stored in a value, and over a reference it spoils the list; unsigned ones are
\* read as int.  Floats are cut, and written into the rational that is there.
WrittenElem(e, o, c) ==
    CASE IsInt(e) ->
           LET v == IF e = "uint32" THEN AsC(CInt, c[2]) ELSE c[2] IN
           IF v < 2 ^ ValueBits THEN <<"num", IF ElemType(e).signed THEN ToSv(v) ELSE ToUv(v)>>
           ELSE IF o[1] = "num" THEN o ELSE Junk
      [] e = "float" /\ o[1] = "ratio" -> <<"ratio", 2 * ToSv(Sign(c[2], Mag(c[2]) \div 2))>>
      [] e = "vptr" /\ o[1] = "vptr" -> <<"vptr", c[2]>>
      [] OTHER -> Junk

\* The list for arg, from what the word `at' points to.  There is no case for
\* doubles.
FilledFrom(arg, list, call, at) ==
    LET like == /\ at[1] = "array" /\ call.args[at[2]][3] = arg[3]
                /\ Len(call.cells[at[2]]) >= Len(list)
        new  == [x \in DOMAIN list |-> WrittenElem(arg[3], list[x], call.cells[at[2]][x])]
    IN  IF arg[3] = "double" THEN list
        ELSE IF list = Spoilt \/ ~ like \/ Junk \in ToSet(new) THEN Spoilt
        ELSE new

WordAt(call, j) == IF j \in DOMAIN call.words THEN call.words[j] ELSE Junk

\* Mutant: the array of the argument before is taken.
WrittenBefore(arg, list, call, j) == FilledFrom(arg, list, call, WordAt(call, j - 1))

\* What the list of the j-th argument gets: what the j-th word points to.
Written(arg, list, call, j) == FilledFrom(arg, list, call, WordAt(call, j))

\* The function returns: the lists of the arguments that are kept are filled
\* from the arrays of this call, one after the other, when it has any argument by
\* reference.  A list is spoilt, or the process ends, when the word is no such
\* array or the object is of another kind.
ReturnToLisp ==
    /\ InNative
    /\ LET fill(ls, j) == IF j \notin Refs(kept) THEN ls
                          ELSE [ls EXCEPT ![kept[j][2][2]] = Written(kept[j], @, Top, j)]
           after == IF HasWb(Top.args)
                    THEN FoldLeft(fill, lists, [j \in DOMAIN kept |-> j]) ELSE lists
       IN  \/ lists' = after /\ stack' = SubSeq(stack, 1, Len(stack) - 1)
           \/ /\ \E l \in ListNames : after[l] = Spoilt /\ lists[l] # Spoilt
              /\ stack' = Dead /\ UNCHANGED lists
    /\ UNCHANGED <<platform, kept, slots, echo>>

\* make-callable, by a program that starts: the first free register keeps what
\* the callable is made of, for ever.  A bound: there is one that is free.
MakeCallable(types) ==
    /\ Starts /\ Len(slots) < CallbackLast - 4
    /\ slots' = Append(slots, types)
    /\ UNCHANGED <<platform, lists, kept, stack, echo>>

------------------------------------------------------------------------------
\* What the code of a callable on System V finds in argi and argf when it is
\* called with parameters of such types: the registers, but the fifth float is
\* a copy of the third.  Behind argi is the frame pointer, behind argf argi.
IntsOf(ps)   == SelectSeq(ps, LAMBDA p : ~ Floating(p[1]))
FloatsOf(ps) == SelectSeq(ps, LAMBDA p : Floating(p[1]))
SpilledInts(ps) == LET is == First(IntsOf(ps), 6)
                   IN  [i \in 0..6 |-> IF i < Len(is) THEN is[i + 1] ELSE Junk]
SpilledFloats(ps) ==
    LET fs == First(FloatsOf(ps), 8)
    IN  [i \in 0..8 |-> LET r == IF i = 4 THEN 2 ELSE i IN
                        IF r < Len(fs) THEN fs[r + 1] ELSE Junk]

\* On Windows the four registers of either kind, and what is on the stack.
WinSpilled(ps, i, t) ==
    IF i <= 4 THEN IF i < 4 /\ i < Len(ps) THEN ps[i + 1] ELSE Junk
    ELSE IF i < Len(ps) /\ t # "float" THEN ps[i + 1] ELSE Junk

\* Mutant: floats are counted with the integers.
HeardTogether(ps, i, j, t) ==
    CASE platform = "sysv" /\ Floating(t) -> IF i <= 8 THEN SpilledFloats(ps)[i] ELSE Junk
      [] platform = "sysv" /\ ~ Floating(t) -> IF i <= 6 THEN SpilledInts(ps)[i] ELSE Junk
      [] platform = "win64" -> WinSpilled(ps, i + j, t)
      [] OTHER -> ps[i + j + 1]

\* callback: where the parameter of type t is looked for, after i integers and j
\* floats (for a double behind argf when there are many integers).
Heard(ps, i, j, t) ==
    CASE platform = "sysv" /\ Floating(t) ->
           IF j <= 8 /\ (t = "double" => i <= 8) THEN SpilledFloats(ps)[j] ELSE Junk
      [] platform = "sysv" /\ ~ Floating(t) -> IF i <= 6 THEN SpilledInts(ps)[i] ELSE Junk
      [] platform = "win64" -> WinSpilled(ps, i + j, t)
      [] OTHER -> ps[i + j + 1]

\* callback: what is made of what was found there.  Integers lose their sign and
\* the upper bits; a null string is #false; of other types nothing is made.  (What
\* d2ol makes of floats is in Values; lists of types are left out.)
Unset == <<"unset">>
ListedTypes == {"int", "vptr", "string", "float", "double"}
ToLisp(t, p) ==
    CASE t \notin ListedTypes -> Unset
      [] t \in ListedTypes /\ p = Junk -> Junk
      [] t = "int" /\ p # Junk -> <<t, ToUv(p[2])>>
      [] t = "string" /\ p # Junk /\ p[2] = 0 -> <<"false">>
      [] OTHER -> p

\* callback: registers from R4 on get the parameters, by the types that the
\* callable is made with.
CountOf(ts, k, fl) == Len(SelectSeq(SubSeq(ts, 1, k - 1), LAMBDA t : Floating(t) <=> fl))
Ints(ts, k)   == CountOf(ts, k, FALSE)
Floats(ts, k) == CountOf(ts, k, TRUE)
Registers(ps, ts) ==
    [k \in DOMAIN ts |-> ToLisp(ts[k], Heard(ps, Ints(ts, k), Floats(ts, k), ts[k]))]

\* A native function calls a callable: the k-th parameter is a number that
\* depends on k.
CallCallable(c, s) ==
    /\ InNative /\ Len(stack) < MaxNest /\ platform # "js"
    /\ c \in DOMAIN slots
    /\ LET ps == [k \in DOMAIN slots[c] |-> <<slots[c][k], k + s>>]
       IN  stack' = Append(stack, [kind |-> "lisp", types |-> slots[c], sent |-> ps,
                                   heard |-> Registers(ps, slots[c])])
    /\ UNCHANGED <<platform, lists, kept, slots, echo>>

CallbackEnds ==
    /\ stack # <<>> /\ Top.kind = "lisp"
    /\ stack' = SubSeq(stack, 1, Len(stack) - 1)
    /\ UNCHANGED <<platform, lists, kept, slots, echo>>

NativeInit ==
    /\ platform \in Platforms /\ lists \in Lists0
    /\ kept = <<>> /\ slots = <<>> /\ stack = <<>> /\ echo = <<>>

NativeNext ==
    \/ MayCall /\ \E args \in (IF slots = <<>> THEN Calls0 ELSE Calls1) :
                     Invoke(args) \/ Trap(args)
    \/ InNative /\ \E k \in 1..3, x \in 1..2, v \in FilledWith : Store(k, x, v)
    \/ ReturnToLisp
    \/ \E types \in Callbacks : MakeCallable(types)
    \/ \E c \in DOMAIN slots, s \in Shifts : CallCallable(c, s)
    \/ CallbackEnds
    \/ Starts /\ slots = <<>> /\ \E n \in -(2 ^ WordBits)..(2 ^ WordBits), t \in CTypes : Echo(n, t)

NativeSpec == NativeInit /\ [][NativeNext]_nativeVars

------------------------------------------------------------------------------
\* Arguments that are placed as if they had another type, or are not set.
Misplaced(arg) ==
    LET t == arg[1]
        a == arg[2]
    IN  IF a[1] = "false"
        THEN (platform = "sysv" /\ Floating(t)) \/ SizeOfType(t) = 2
        ELSE Narrow /\ ((t = "int" /\ a[1] = "ratio") \/ (t = "int64" /\ ~ IsNumber(a)))

\* A native function finds every argument where its platform puts it, whatever
\* mix of integers, floats, pointers and arrays, in registers and on the stack.
\* Left out are calls that have #false for a float (it is placed as an integer) or
\* for a type of two words (it is one), and, where a word is narrow, a rational for
\* an integer (it is two words) or for a long integer what is no number.
ArgsArrive ==
    \A a \in {stack[i] : i \in DOMAIN stack} :
      a.kind = "native" /\ (\A k \in DOMAIN a.args : ~ Misplaced(a.args[k]))
        => a.params = [k \in DOMAIN a.args |-> Passed(a.args, k).words]

\* The object o is what the C program would call the element c.
Same(e, o, c) ==
    CASE IsInt(e) -> o = <<"num", c[2]>>
      [] e = "float" -> o[1] = "ratio" /\ Mag(o[2] - c[2]) < 2
      [] OTHER -> o = <<"vptr", c[2]>>

\* The element c has a place where o was: there is one for a number that is not
\* too large for a value (an unsigned int must be less than half of them), in a
\* rational for a float, and in a pointer for a pointer; there is none for doubles.
HasPlace(e, o, c) ==
    CASE IsInt(e) -> /\ Mag(c[2]) < 2 ^ ValueBits
                     /\ e = "uint32" => c[2] < 2 ^ (IntBits - 1)
      [] e = "float" -> o[1] = "ratio" /\ Mag(c[2]) \div 2 < 2 ^ ValueBits
      [] e = "vptr" -> o[1] = "vptr"
      [] OTHER -> FALSE

\* A list that is passed by reference holds, after the call, what the function
\* left in the array, floats to within 1/Scale, if all its elements have a
\* place.  Left out are lists behind an argument that is not one word (the code
\* then takes the wrong one), that are passed twice or were spoilt meanwhile, and
\* calls during which another one was made (the registers that keep the arguments
\* are taken over by it).
WroteBack ==
    [][InNative /\ Len(stack') < Len(stack) /\ stack' # Dead /\ kept = Top.args =>
         \A j \in Refs(Top.args) :
           LET l == Top.args[j][2][2]
               e == Top.args[j][3]
               c == Top.cells[j]
           IN  (\A k \in 1..(j - 1) : LET p == Passed(Top.args, k) IN ~ p.float /\ Len(p.words) = 1)
               /\ (\A k \in Refs(Top.args) : Top.args[k][2] = Top.args[j][2] => k = j)
               /\ lists[l] # Spoilt /\ (\A x \in DOMAIN c : HasPlace(e, lists[l][x], c[x]))
                 => \A x \in DOMAIN c : Same(e, lists'[l][x], c[x])]_nativeVars

\* The k-th parameter of such a callback is where it is looked for: in a register,
\* but not that of the fifth float on System V; on Windows in a register, or
\* behind the fifth place if it is no float.
InPlace(ts, k) ==
    CASE platform = "sysv" /\ Floating(ts[k]) ->
           /\ Floats(ts, k) < 8 /\ Floats(ts, k) # 4
           /\ ts[k] = "double" => Ints(ts, k) <= 8
      [] platform = "sysv" /\ ~ Floating(ts[k]) -> Ints(ts, k) < 6
      [] platform = "win64" -> k # 5 /\ (k < 5 \/ ts[k] # "float")
      [] OTHER -> TRUE

\* It has a type that callbacks know, and is no negative or large integer and no
\* null.
Convertible(p) ==
    /\ p[1] \in ListedTypes
    /\ p[1] = "int" => p[2] \in 0..(2 ^ ValueBits - 1)
    /\ p[1] = "string" => p[2] # 0

\* A callback gets every parameter it was called with that is where it is looked
\* for and can be converted, whatever others there are.
ParamsHeard ==
    \A a \in {stack[i] : i \in DOMAIN stack} :
      a.kind = "lisp" =>
        \A k \in DOMAIN a.sent :
          InPlace(a.types, k) /\ Convertible(a.sent[k]) => a.heard[k] = a.sent[k]

\* "movsd [esp+32], xmm4" (olvm.c:4177): all the eight registers that System V has
\* for floats reach a callback.
FloatsHeard ==
    \A a \in {stack[i] : i \in DOMAIN stack} :
      a.kind = "lisp" /\ platform = "sysv" =>
        \A k \in DOMAIN a.sent :
          Floating(a.types[k]) /\ Floats(a.types, k) < 8 /\ Ints(a.types, k) <= 8
            => a.heard[k] = a.sent[k]

\* A number that fits the type comes back from a function that returns what it
\* gets, but for the lowest one.
EchoKept ==
    echo # <<>> =>
      LET n == echo[1]
          t == echo[2]
      IN  n = AsC(t, n) /\ n # -(2 ^ (WordBits - 1)) => echo[3] = n
==============================================================================
