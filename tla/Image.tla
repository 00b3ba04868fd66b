-------------------------------- MODULE Image --------------------------------
(***************************************************************************)
(* How a program gets into the machine: main reads a file that may be a    *)
(* text or an image, OL_new counts and builds the objects of an image, and *)
(* OL_run hands over the arguments (src/olvm.c).  Images are written by    *)
(* the encoder of libraries/owl/fasl.scm.  A byte has Radix values for     *)
(* seven bits, and as many with the eighth bit set.                        *)
(***************************************************************************)
EXTENDS Integers, Sequences

CONSTANTS Radix,    \* 128 in the code
          WordSize, \* W
          Numbers0, \* bound: the values that occur in images
          RawBytes, \* bound: the sizes of raw objects
          MaxObjs,  \* bound: objects of an image
          HashBang, \* bound: lengths of a first line that starts with #
          Argv      \* bound: the command lines, without the script

ASSUME ImageAssumption == Radix > 2 /\ WordSize \in Nat \ {0}

\* A record: phase, graph, file, text, signed (whether char is), size, pos, bytes,
\* counted, mem, args.
VARIABLES boot

imageVars == <<boot>>

------------------------------------------------------------------------------
\* The encoder.  Numbers have their highest digits first, and a bit in all
\* digits but the last one.
RECURSIVE Biggish(_)
Biggish(n) ==
    IF n < Radix - 1 THEN <<n + Radix>>
    ELSE Biggish(n \div Radix) \o <<Radix + (n % Radix)>>

SendNumber(n) == IF n < Radix THEN <<n>> ELSE Biggish(n \div Radix) \o <<n % Radix>>

\* A field of the object at pos is a value, <<"val", n>>, or a reference to an
\* earlier object, <<"ref", target>>, which is told by the distance.
SendField(f, pos) ==
    IF f[1] = "val" THEN <<0, 0>> \o SendNumber(f[2]) ELSE SendNumber(pos - f[2])

RECURSIVE SendFields(_, _)
SendFields(fs, pos) ==
    IF fs = <<>> THEN <<>> ELSE SendField(Head(fs), pos) \o SendFields(Tail(fs), pos)

SendObject(o, pos) ==
    IF o.raw THEN <<2, 1>> \o SendNumber(Len(o.fields)) \o o.fields
             ELSE <<1, 1>> \o SendNumber(Len(o.fields)) \o SendFields(o.fields, pos)

\* fasl-encode: the objects in the order of their age, and a zero.
RECURSIVE Encoded(_, _)
Encoded(g, pos) ==
    IF pos > Len(g) THEN <<0>> ELSE SendObject(g[pos], pos) \o Encoded(g, pos + 1)

------------------------------------------------------------------------------
\* get_nat: the number at byte p, and where the next thing is.
RECURSIVE NatAt(_, _, _)
NatAt(b, p, nat) ==
    LET n == nat * Radix + (b[p] % Radix) IN
    IF b[p] >= Radix THEN NatAt(b, p + 1, n) ELSE <<n, p + 1>>
GetNat(b, p) == NatAt(b, p, 0)

\* The words count_fasl_objects counts for a raw object.
RawWords(size) == size \div WordSize + (IF size % WordSize > 0 THEN 2 ELSE 1)

\* count_fasl_objects: skip n fields, then go on with the next object.
RECURSIVE SkipFields(_, _, _)
SkipFields(b, p, n) ==
    IF n = 0 THEN p
    ELSE SkipFields(b, GetNat(b, IF b[p] = 0 THEN p + 2 ELSE p)[2], n - 1)

RECURSIVE CountFrom(_, _, _, _)
CountFrom(b, p, n, words) ==
    IF b[p] = 0 THEN [objs |-> n, words |-> words]
    ELSE LET s == GetNat(b, p + 2) IN
         IF b[p] = 1
         THEN CountFrom(b, SkipFields(b, s[2], s[1]), n + 1, words + 1 + s[1])
         ELSE CountFrom(b, s[2] + s[1], n + 1, words + RawWords(s[1]))
Counted(b) == CountFrom(b, 1, 0, 0)

\* Mutant: distances are counted from the last object that is complete.
PreviousAt(ptrs, me, diff) == ptrs[IF me - diff - 1 > 0 THEN me - diff - 1 ELSE 1]

\* The object diff before me.
EarlierAt(ptrs, me, diff) == ptrs[me - diff]

\* decode_field, n times: the words, and where the next object is.
RECURSIVE Fields(_, _, _, _, _)
Fields(b, p, n, ptrs, me) ==
    IF n = 0 THEN <<<<>>, p>>
    ELSE LET val  == b[p] = 0
             nat  == GetNat(b, IF val THEN p + 2 ELSE p)
             more == Fields(b, nat[2], n - 1, ptrs, me)
         IN  <<<<IF val THEN <<"val", nat[1]>> ELSE <<"ref", EarlierAt(ptrs, me, nat[1])>>>>
                 \o more[1], more[2]>>

\* The bytes of a raw object, packed into words, with zeros at the end.
Packed(b, p, size) ==
    [i \in 1..((size + WordSize - 1) \div WordSize) |->
        <<"raw", [k \in 1..WordSize |->
            LET x == (i - 1) * WordSize + k IN IF x <= size THEN b[p + x - 1] ELSE 0]>>]

\* deserialize: the words behind the n pointers of ptrs, and the pointers.
RECURSIVE Built(_, _, _, _, _)
Built(b, p, n, ptrs, mem) ==
    IF Len(ptrs) = n THEN [mem |-> mem, ptrs |-> ptrs]
    ELSE LET me == Append(ptrs, Len(mem) + 1)
             s  == GetNat(b, p + 2)
             fs == Fields(b, s[2], s[1], me, Len(me))
             ws == Packed(b, s[2], s[1])
         IN  IF b[p] = 1
             THEN Built(b, fs[2], n, me, mem \o <<<<"hdr", s[1] + 1>>>> \o fs[1])
             ELSE Built(b, s[2] + s[1], n, me, mem \o <<<<"hdr", Len(ws) + 1>>>> \o ws)

\* The arguments OL_run makes strings of: those that are not empty.
Given(as) == SelectSeq(as, LAMBDA a : a > 0)

------------------------------------------------------------------------------
\* The kinds of files: their first bytes, after a first line that starts with
\* # perhaps; what follows the first line is an image or a text.
Image0(g) == Encoded(g, 1)
Char    == 2 * Radix
Hash    == 2 * Radix + 1
Newline == 2 * Radix + 2
High    == 2 * Radix + 3   \* a character with the eighth bit set
Texts == {<<Char, Newline, Char>>, <<High, Newline, Char>>}
Line(n) == IF n = 0 THEN <<>> ELSE <<Hash>> \o [i \in 1..(n - 1) |-> Char] \o <<Newline>>

\* A field of the object at pos of a graph.
FieldAt(pos) == {<<"val", v>> : v \in Numbers0} \cup {<<"ref", t>> : t \in 1..(pos - 1)}
ObjectAt0(pos) ==
    {[raw |-> TRUE, fields |-> [i \in 1..n |-> (i * 2) % (2 * Radix)]] : n \in RawBytes}
    \cup {[raw |-> FALSE, fields |-> <<f>>] : f \in FieldAt(pos)}
    \cup {[raw |-> FALSE, fields |-> <<f, g>>] : f \in FieldAt(pos), g \in FieldAt(pos)}

RECURSIVE Graphs0(_)
Graphs0(k) ==
    IF k = 0 THEN {<<>>}
    ELSE {Append(g, o) : g \in Graphs0(k - 1), o \in ObjectAt0(k)}

\* Without a script, or with "-", the image of the repl is run.
StartRepl(g) ==
    boot' = [boot EXCEPT !.phase = "count", !.graph = g, !.bytes = Image0(g)]

\* Otherwise the first byte of the file is read.
StartFile(g, n, text, as, signed) ==
    LET file == Line(n) \o (IF text = <<>> THEN Image0(g) ELSE text) IN
    boot' = [boot EXCEPT !.phase = "first", !.graph = g, !.file = file, !.text = text,
                         !.signed = signed, !.size = Len(file), !.pos = 1, !.args = as]

\* The file is not there, is empty, or cannot be read (a read that fails once
\* fails again).
NoFile ==
    /\ \/ boot.phase \in {"start", "read"}
       \/ boot.phase = "first" /\ boot.file[1] = Hash
    /\ boot' = [boot EXCEPT !.phase = "failed"]

\* The line with # is skipped, and the byte after it is the first one; the size
\* is now that of what follows.
EndOfLine == CHOOSE i \in DOMAIN boot.file :
               boot.file[i] = Newline /\ \A k \in 1..(i - 1) : boot.file[k] # Newline

\* Mutant: the byte that is looked at is the end of the line.
FirstKept ==
    /\ boot.phase = "first" /\ boot.file[1] = Hash
    /\ boot' = [boot EXCEPT !.phase = "second", !.pos = EndOfLine, !.size = @ - EndOfLine]

FirstLine ==
    /\ boot.phase = "first" /\ boot.file[1] = Hash
    /\ boot' = [boot EXCEPT !.phase = "second", !.pos = EndOfLine + 1, !.size = @ - EndOfLine]

\* A byte as a char, which on most platforms has a sign.
AsChar(b, signed) == IF signed /\ b \in (Radix..(2 * Radix - 1)) \cup {High} THEN -1 ELSE b

\* A first byte above 3 is that of a text, which the repl is to read; the
\* first byte of an image is 1 or 2.
Decide ==
    /\ \/ boot.phase = "second"
       \/ boot.phase = "first" /\ boot.file[1] # Hash
    /\ boot' = IF AsChar(boot.file[boot.pos], boot.signed) > 3
               THEN [boot EXCEPT !.phase = "repl"]
               ELSE [boot EXCEPT !.phase = "read", !.bytes = <<boot.file[boot.pos]>>]

\* A read gives n bytes, which may be fewer than were asked for.
ReadSome(n) ==
    /\ boot.phase = "read" /\ Len(boot.bytes) + n <= boot.size
    /\ boot' = [boot EXCEPT !.pos = @ + n,
                            !.bytes = @ \o SubSeq(boot.file, boot.pos + 1, boot.pos + n)]

ReadAll ==
    /\ boot.phase = "read" /\ Len(boot.bytes) = boot.size
    /\ boot' = [boot EXCEPT !.phase = "count"]

\* "Bad object in heap": the machine ends.
BadImage ==
    /\ boot.phase = "count" /\ boot.bytes[1] \notin 0..2
    /\ boot' = [boot EXCEPT !.phase = "failed"]

\* OL_new: the block is twice what is counted, so what is built fits; the
\* pointers are a raw object at its begin.
LoadImage ==
    /\ boot.phase = "count" /\ boot.bytes[1] \in 0..2
    /\ LET c == Counted(boot.bytes)
           ptrs == [i \in 1..(c.objs + 1) |-> <<"ptr", i>>]
       IN  boot' = [boot EXCEPT !.phase = "run", !.counted = c.words + c.objs + 2,
                                !.mem = Built(boot.bytes, 1, c.objs, <<>>, ptrs)]

\* OL_run: the arguments become a list in R4.
RunImage ==
    /\ boot.phase = "run"
    /\ boot' = [boot EXCEPT !.phase = "running", !.args = Given(@)]

ImageInit ==
    boot = [phase |-> "start", graph |-> <<>>, file |-> <<>>, text |-> <<>>, signed |-> FALSE, size |-> 0,
            pos |-> 0, bytes |-> <<>>, counted |-> 0, mem |-> <<>>, args |-> <<>>]

ImageNext ==
    \/ /\ boot.phase = "start"
       /\ \/ \E k \in 1..MaxObjs : \E g \in Graphs0(k) : StartRepl(g)
          \/ \E g \in Graphs0(1), n \in HashBang, text \in Texts \cup {<<>>}, as \in Argv,
                signed \in BOOLEAN : StartFile(g, n, text, as, signed)
    \/ NoFile \/ FirstLine \/ Decide
    \/ \E n \in 1..3 : ReadSome(n)
    \/ ReadAll \/ BadImage \/ LoadImage \/ RunImage

ImageSpec == ImageInit /\ [][ImageNext]_imageVars

------------------------------------------------------------------------------
\* What was encoded is what runs: the objects of memory are those of the graph,
\* with their values, their bytes and their references, in the same order, and
\* they take the room that was measured before: one word is left over.
GraphLoaded ==
    boot.phase = "running" =>
      LET mem  == boot.mem.mem
          ptrs == boot.mem.ptrs
      IN  /\ Len(mem) + 1 = boot.counted
          /\ Len(ptrs) = Len(boot.graph)
          /\ \A i \in DOMAIN ptrs :
               LET o == boot.graph[i] IN
               IF o.raw
               THEN \A x \in DOMAIN o.fields :
                      mem[ptrs[i] + 1 + ((x - 1) \div WordSize)][2][1 + ((x - 1) % WordSize)]
                        = o.fields[x]
               ELSE \A x \in DOMAIN o.fields :
                      mem[ptrs[i] + x] = IF o.fields[x][1] = "val" THEN o.fields[x]
                                         ELSE <<"ref", ptrs[o.fields[x][2]]>>

\* A text is left to the repl, but for one whose first character has the eighth bit
\* set where char has a sign: it is taken for an image, and not run.  An image is
\* run from its first byte, with the line before it skipped, in however many pieces
\* the file is read.  Left out are files without anything behind their first line.
FileRun ==
    /\ boot.phase = "repl" => boot.text # <<>>
    /\ boot.phase \in {"read", "count"} =>
         boot.text = <<>> \/ (boot.signed /\ boot.text[1] = High)
    /\ boot.phase \in {"run", "running"} => boot.text = <<>> /\ boot.bytes = Image0(boot.graph)
==============================================================================
