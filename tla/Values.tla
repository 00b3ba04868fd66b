-------------------------------- MODULE Values --------------------------------
(***************************************************************************)
(* What single instructions of the virtual machine compute (src/olvm.c):   *)
(* arithmetic on digits, numbers from and to native ones, the spreading    *)
(* and packing of arguments, and access to the fields of objects.  Each    *)
(* step computes one result from inputs of its choice.                     *)
(***************************************************************************)
EXTENDS Integers, Sequences

CONSTANTS VBits,   \* VBITS: bits of a value
          W,       \* bytes of a word
          TopReg,  \* NR: the register after the last one of the program
          Mantissa, \* 53: bits of the mantissa of a double
          LongBits, \* 64: bits of a long long
          MaxTurns, \* 1024: bits after the point that d2ol looks at
          MaxFrac, \* bound: bits after the point
          MaxInt   \* bound: integers that are converted

ASSUME ValuesAssumption ==
    /\ VBits \in Nat \ {0} /\ W \in Nat \ {0} /\ TopReg > 6
    /\ VBits < MaxTurns /\ Mantissa < LongBits

VARIABLE calc  \* the instruction, its inputs and its result

valuesVars == <<calc>>

Base2 == 2 ^ VBits       \* HIGHBIT; VMAX is one less
Digit == 0..(Base2 - 1)

\* I(val): what does not fit into a value is lost.
Imm(n) == n % Base2

------------------------------------------------------------------------------
\* vm:add, vm:sub, vm:mul, vm:div, vm:shr, vm:shl.
AddOf(a, b) == <<(a + b) % Base2, a + b >= Base2>>

\* Mutant: no bit is set for the borrow to take.
SubNoBorrow(a, b) == <<(a - b) % Base2, FALSE>>

SubOf(a, b) == LET r == a + Base2 - b IN <<r % Base2, r < Base2>>
MulOf(a, b) == <<(a * b) % Base2, Imm((a * b) \div Base2)>>
DivOf(h, l, d) ==
    LET n == h * Base2 + l
        q == n \div d
    IN  <<Imm(q \div Base2), q % Base2, Imm(n % d)>>
ShrOf(a, n) == LET r == a * 2 ^ (VBits - n) IN <<Imm(r \div Base2), r % Base2>>
ShlOf(a, n) == LET r == a * 2 ^ n IN <<Imm(r \div Base2), r % Base2>>

Arithmetic ==
    \E a, b \in Digit :
      \/ calc' = <<"add", <<a, b>>, AddOf(a, b)>>
      \/ calc' = <<"sub", <<a, b>>, SubOf(a, b)>>
      \/ calc' = <<"mul", <<a, b>>, MulOf(a, b)>>
      \/ \E d \in Digit \ {0} : calc' = <<"div", <<a, b, d>>, DivOf(a, b, d)>>
      \/ \E n \in 0..VBits :
           \/ calc' = <<"shr", <<a, n>>, ShrOf(a, n)>>
           \/ calc' = <<"shl", <<a, n>>, ShlOf(a, n)>>

------------------------------------------------------------------------------
\* Numbers: a sign and digits, the lowest first; small ones are one digit.
Number(neg, ds) == [neg |-> neg, digits |-> ds]

\* itoun: a native unsigned integer gives one digit or two.
OfNative(n) ==
    IF n < Base2 THEN Number(FALSE, <<Imm(n)>>)
                 ELSE Number(FALSE, <<n % Base2, Imm(n \div Base2)>>)

\* untoi: the first two digits, whatever follows.
ToNative(x) ==
    IF Len(x.digits) = 1 THEN x.digits[1]
    ELSE x.digits[1] + x.digits[2] * Base2

\* ol2d of an integer: all the digits.
RECURSIVE ValueOf(_)
ValueOf(ds) == IF ds = <<>> THEN 0 ELSE Head(ds) + Base2 * ValueOf(Tail(ds))

\* Mutant: the digits come out from the highest.
BigEndian(v, lost) ==
    IF v < Base2 THEN <<v>> ELSE <<v \div Base2 % Base2, v % Base2>>

\* The digits of d2ol's integer part.  What no long long holds has no lowest digit:
\* the cast is undefined, and gives zeros or, where it saturates, ones.
RECURSIVE DigitsOf(_, _)
DigitsOf(v, lost) ==
    <<IF v < 2 ^ (LongBits - 1) THEN v % Base2 ELSE lost>>
    \o (IF v \div Base2 > 0 THEN DigitsOf(v \div Base2, lost) ELSE <<>>)

\* The denominator of d2ol: m is doubled once for every bit after the point;
\* when its bit leaves the digit a zero is put before it, but only if there is
\* one more bit to come.  After so many turns the digit itself is not put.
RECURSIVE Denominator(_, _, _, _)
Denominator(bits, turns, m, ds) ==
    CASE turns = 0 -> ds
      [] turns > 0 /\ bits = 0 -> Append(ds, Imm(m))
      [] turns > 0 /\ bits > 0 /\ m >= Base2 ->
           Denominator(bits - 1, turns - 1, 2 * (m \div Base2), Append(ds, 0))
      [] OTHER -> Denominator(bits - 1, turns - 1, 2 * m, ds)

\* d2ol of the double n / 2^bits, in lowest terms: a numerator, without the bits
\* that were not looked at, and, when there is something after the point, a
\* denominator.
OfDouble(neg, n, bits, lost) ==
    LET v == IF bits > MaxTurns THEN n \div 2 ^ (bits - MaxTurns) ELSE n IN
    [num |-> Number(neg, IF v < Base2 THEN <<v>> ELSE DigitsOf(v, lost)),
     den |-> IF bits = 0 THEN <<>> ELSE Denominator(bits, MaxTurns, 1, <<>>)]

\* The integers that are doubles.
Exact(n) == \E e \in 0..LongBits : n % 2 ^ e = 0 /\ n \div 2 ^ e < 2 ^ Mantissa

Conversions ==
    \/ \E n \in 0..MaxInt : calc' = <<"native", <<n>>, OfNative(n)>>
    \/ \E neg \in BOOLEAN, n \in 0..MaxInt, bits \in 0..MaxFrac, lost \in {0, Base2 - 1} :
         /\ IF bits = 0 THEN Exact(n) ELSE n % 2 = 1 /\ n < 2 ^ Mantissa
         /\ calc' = <<"double", <<neg, n, bits>>, OfDouble(neg, n, bits, lost)>>

------------------------------------------------------------------------------
\* Registers hold arguments, named by numbers, or a list of them.
Regs == 0..(TopReg + 1)

\* APPLY: the arguments before the list move down by one, over the function,
\* and the elements of the list follow; the program ends when a register
\* beyond the last one would be needed.
Spread(xs, ys) ==
    LET all == xs \o ys IN
    IF 4 + Len(xs) + Len(ys) - 1 > TopReg /\ ys # <<>> THEN [exit |-> TRUE]
    ELSE [exit |-> FALSE, acc |-> 1 + Len(all),
          R |-> [r \in Regs |-> CASE r = 3 -> <<"k">>
                                  [] r \in 4..(3 + Len(all)) -> all[r - 3]
                                  [] OTHER -> <<"pin">>]]

\* Mutant: the list starts one argument later.
PackOneLess(s, arity) ==
    IF s.acc < arity THEN [s EXCEPT !.exit = TRUE]
    ELSE [s EXCEPT !.acc = arity,
                   !.R[arity + 3] = [i \in 1..(s.acc - arity - 1) |-> s.R[arity + 3 + i]]]

\* JAFX, of a procedure that takes the continuation and arity - 1 arguments,
\* and a list of all others.
Pack(s, arity) ==
    IF s.acc < arity THEN [s EXCEPT !.exit = TRUE]
    ELSE [s EXCEPT !.acc = arity,
                   !.R[arity + 3] = [i \in 1..(s.acc - arity) |-> s.R[arity + 2 + i]]]

AppliedTo(xs, ys, arity) == LET s == Spread(xs, ys) IN IF s.exit THEN s ELSE Pack(s, arity)

Applications ==
    \E n \in 0..3, m \in 0..TopReg, arity \in 1..4 :
      LET all == [i \in 1..(n + m) |-> <<"arg", i>>]
          xs  == SubSeq(all, 1, n)
          ys  == SubSeq(all, n + 1, n + m)
      IN  calc' = <<"apply", <<all, arity>>, AppliedTo(xs, ys, arity)>>

------------------------------------------------------------------------------
\* An object in memory: its header, n fields, or n bytes and pads, and the
\* header of the next object; a word is W bytes.
WordsOf(raw, n) == IF raw THEN (n + W - 1) \div W ELSE n
Header == [b \in 1..W |-> "hdr"]
Memory(raw, n) ==
    [i \in 0..(WordsOf(raw, n) + 1) |->
        IF i \in {0, WordsOf(raw, n) + 1} THEN Header ELSE [b \in 1..W |-> "old"]]

\* SIZE.
SizeOf(raw, n) == IF raw THEN WordsOf(raw, n) * W - ((0 - n) % W) ELSE WordsOf(raw, n)

\* REF: bytes are counted from 0, fields from 1.
RefOf(mem, raw, n, pos) ==
    IF raw
    THEN IF pos >= SizeOf(raw, n) THEN "#false" ELSE mem[(pos \div W) + 1][(pos % W) + 1]
    ELSE IF pos = 0 \/ n + 1 <= pos THEN "#false" ELSE mem[pos][1]

\* Mutant: bytes are counted from 1 as fields are.
SetFromOne(mem, raw, n, pos, v) ==
    IF raw
    THEN IF pos \in 1..SizeOf(raw, n)
         THEN [mem EXCEPT ![((pos - 1) \div W) + 1][((pos - 1) % W) + 1] = v] ELSE mem
    ELSE IF pos \in 1..n THEN [mem EXCEPT ![pos] = [b \in 1..W |-> v]] ELSE mem

\* SETREFE, and SETREF on the copy it makes: one position more than there are
\* bytes or fields is taken.
SetOf(mem, raw, n, pos, v) ==
    IF raw
    THEN IF pos < SizeOf(raw, n) + 1 THEN [mem EXCEPT ![(pos \div W) + 1][(pos % W) + 1] = v] ELSE mem
    ELSE IF pos \in 1..(n + 1) THEN [mem EXCEPT ![pos] = [b \in 1..W |-> v]] ELSE mem

Access ==
    \E raw \in BOOLEAN, n \in 1..(2 * W), pos \in 0..(2 * W + 2) :
      calc' = <<"set", <<raw, n, pos>>, SetOf(Memory(raw, n), raw, n, pos, "new")>>

ValuesInit == calc = <<"idle", <<>>, <<>>>>
ValuesNext == calc[1] = "idle" /\ (Arithmetic \/ Conversions \/ Applications \/ Access)
ValuesSpec == ValuesInit /\ [][ValuesNext]_valuesVars

------------------------------------------------------------------------------
\* No digit is lost: the results of an operation on digits, taken together,
\* are the exact result.
DigitsExact ==
    LET x == calc[2]
        r == calc[3]
    IN  CASE calc[1] = "add" -> x[1] + x[2] = r[1] + (IF r[2] THEN Base2 ELSE 0)
          [] calc[1] = "sub" -> x[1] - x[2] = r[1] - (IF r[2] THEN Base2 ELSE 0)
          [] calc[1] = "mul" -> x[1] * x[2] = r[1] + r[2] * Base2
          [] calc[1] = "div" -> /\ x[1] * Base2 + x[2] = (r[1] * Base2 + r[2]) * x[3] + r[3]
                                /\ r[3] < x[3]
          [] calc[1] = "shr" -> x[1] * Base2 = (r[1] * Base2 + r[2]) * 2 ^ x[2]
          [] calc[1] = "shl" -> x[1] * 2 ^ x[2] = r[1] * Base2 + r[2]
          [] OTHER -> TRUE

\* A native integer of at most two digits comes back as it was, and a double is
\* the quotient of the numerator and the denominator it is converted to.  Left
\* out are the doubles that d2ol does not keep: those whose denominator is a power
\* of the base (its only digit that is not zero is lost: m is doubled once more
\* after it was looked at), those with more bits after the point than it looks at,
\* and those that no long long holds; infinity, for which it never ends, and what
\* is not a number are no inputs here.
NumbersKept ==
    LET x == calc[2]
        r == calc[3]
    IN  CASE calc[1] = "native" -> x[1] < Base2 * Base2 => ToNative(r) = x[1]
          [] calc[1] = "double" ->
               \/ x[3] > 0 /\ (x[3] % VBits = 0 \/ x[3] >= MaxTurns)
               \/ x[3] = 0 /\ x[2] >= 2 ^ (LongBits - 1)
               \/ /\ r.num.neg = x[1]
                  /\ ValueOf(r.num.digits) * 2 ^ x[3] =
                       x[2] * (IF r.den = <<>> THEN 1 ELSE ValueOf(r.den))
          [] OTHER -> TRUE

\* A procedure with a rest argument that is applied to a list gets its first
\* arguments in their registers and the others as a list, in order; what is
\* kept behind the last register is safe, but for one more argument than there
\* are registers (APPLY's limit is one too high).
ListsApplied ==
    calc[1] = "apply" /\ ~ calc[3].exit =>
      LET all   == calc[2][1]
          arity == calc[2][2]
          R     == calc[3].R
      IN  /\ \A i \in 1..(arity - 1) : R[i + 3] = all[i]
          /\ R[arity + 3] = SubSeq(all, arity, Len(all))
          /\ Len(all) # TopReg - 3 => R[TopReg] = <<"pin">>
          /\ R[TopReg + 1] = <<"pin">>

\* A set is seen by a ref at the same place and at no other one, and when the
\* ref of a position is #false nothing has changed; the position one after the
\* last is left out (the code takes it).
SetThenRef ==
    calc[1] = "set" =>
      LET raw == calc[2][1]
          n   == calc[2][2]
          pos == calc[2][3]
          old == Memory(raw, n)
          see(mem) == [p \in 0..(2 * W + 2) |-> RefOf(mem, raw, n, p)]
          past == IF raw THEN n ELSE n + 1
      IN  pos # past =>
            /\ see(calc[3]) = IF see(old)[pos] = "#false" THEN see(old)
                              ELSE [see(old) EXCEPT ![pos] = "new"]
            /\ calc[3][0] = Header /\ calc[3][WordsOf(raw, n) + 1] = Header
==============================================================================
