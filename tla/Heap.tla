-------------------------------- MODULE Heap --------------------------------
(***************************************************************************)
(* The memory of the virtual machine (src/olvm.c): a block of words in     *)
(* which objects are allocated one after the other, and the collector that *)
(* marks, threads and compacts it in two generations, resizes it, and may  *)
(* find it moved by realloc.  An object is a header and its words; a word  *)
(* is a value, a reference to a header, or, inside a raw object, anything. *)
(* Between two operations mem holds the words from begin up to fp.         *)
(***************************************************************************)
EXTENDS HeapSize, FiniteSetsExt, SequencesExt

CONSTANTS Const,     \* values: numbers, constants, ports
          Nil,       \* INULL, one of them
          NRegs,     \* registers: R with the pinned callables, and this
          Base,      \* addresses realloc can return
          Loaded,    \* bound: the numbers of objects of the images
          MaxCells,  \* bound: words of the heap
          RawSize,   \* bound: words of a raw object made by the program
          Into,      \* bound: the registers that take the results
          MaxSteps,  \* bound: operations
          MaxBurst   \* words the code between two applies allocates at most

ASSUME HeapAssumption ==
    /\ NRegs \in Nat \ {0} /\ Loaded \subseteq Nat \ {0}
    /\ MaxBurst < MemPad
    /\ Nil \in Const /\ Base # {}

VARIABLES heap,     \* the block, its words and the registers
          sandbox,  \* sandboxp: inside the sandbox the block stays as it is
          burst,    \* words allocated unchecked since the last apply
          steps     \* operations done

heapVars == <<heap, sandbox, burst, steps>>

Reg == 1..NRegs

Val(v)    == <<"val", v>>
Ref(a)    == <<"ref", a>>
Mark(a)   == <<"mark", a>>       \* a reference with its lowest bit set
Hdr(n, k) == <<"hdr", n, k>>     \* hdrsize, and the kind "obj", "pair" or "raw"

IsRef(w)  == w[1] = "ref"
IsMark(w) == w[1] = "mark"
IsHdr(w)  == w[1] = "hdr"
Addr(w)   == w[2]
HdrSize(w) == w[2]
IsRaw(w)  == IsHdr(w) /\ w[3] = "raw"

\* The block with the words ws stored from address a on.
Stored(m, a, ws) == [x \in a..(a + Len(ws) - 1) |-> ws[x - a + 1]] @@ m

------------------------------------------------------------------------------
\* chase: from a flagged reference back to the word that holds the header.
RECURSIVE Chase(_, _)
Chase(m, w) == IF IsMark(m[Addr(w)]) THEN Chase(m, m[Addr(w)]) ELSE Addr(w)

\* mark: every word on the way that refers to a young object is threaded onto
\* the header of that object, and the object's own words are looked at from
\* the last to the first.
RECURSIVE MarkFrom(_, _, _, _)
MarkFrom(m, pos, stop, young) ==
    LET w == m[pos] IN
    CASE pos = stop -> m
      [] pos # stop /\ ~ ((IsRef(w) \/ IsMark(w)) /\ Addr(w) >= young) ->
           MarkFrom(m, pos - 1, stop, young)
      [] pos # stop /\ IsMark(w) /\ Addr(w) >= young ->
           MarkFrom(m, Chase(m, w) - 1, stop, young)
      [] pos # stop /\ IsRef(w) /\ Addr(w) >= young ->
           LET h == m[Addr(w)] IN
           MarkFrom([m EXCEPT ![pos] = h, ![Addr(w)] = Mark(pos)],
                    IF IsMark(h) \/ IsRaw(h) THEN pos - 1
                                             ELSE Addr(w) + HdrSize(h) - 1,
                    stop, young)

\* The words threaded onto the header now at new get its address.
RECURSIVE Unthread(_, _)
Unthread(m, new) ==
    IF IsMark(m[new])
    THEN LET a == Addr(m[new])
         IN  Unthread([m EXCEPT ![new] = m[a], ![a] = Ref(new)], new)
    ELSE m

\* sweep: the young objects that something is threaded onto slide down.
RECURSIVE SweepFrom(_, _, _, _)
SweepFrom(m, old, new, stop) ==
    IF old >= stop THEN <<m, new>>
    ELSE IF ~ IsMark(m[old]) THEN SweepFrom(m, old + HdrSize(m[old]), new, stop)
    ELSE LET u == Unthread([m EXCEPT ![new] = m[old]], new)
             n == HdrSize(u[new])
         IN  SweepFrom(Stored(u, new + 1, [i \in 1..(n - 1) |-> u[old + i]]),
                       old + n, new + n, stop)

\* mark and sweep from a root above the block, which refers to the tuple of
\* the registers: the compacted words and where the tuple is now.
Compact(m, top, young, regs) ==
    LET rooted == Stored(m, top, <<Hdr(2, "obj"), Ref(regs)>>)
        swept  == SweepFrom(MarkFrom(rooted, top + 1, top, young),
                            young, young, top)
    IN  [mem |-> [a \in {x \in DOMAIN m : x < swept[2]} |-> swept[1][a]],
         fp |-> swept[2], regs |-> Addr(swept[1][top + 1])]

\* Mutant: raw objects are searched for references as well.
SlideRaw(m, delta) ==
    [a \in {x + delta : x \in DOMAIN m} |->
        LET w == m[a - delta] IN IF IsRef(w) THEN Ref(Addr(w) + delta) ELSE w]

\* fix_pointers of resize_heap: the block has moved by delta words.
Slide(m, delta) ==
    LET raw == UNION {(h + 1)..(h + HdrSize(m[h]) - 1) :
                        h \in {x \in DOMAIN m : IsRaw(m[x])}}
    IN  [a \in {x + delta : x \in DOMAIN m} |->
            LET w == m[a - delta]
            IN  IF IsRef(w) /\ (a - delta) \notin raw THEN Ref(Addr(w) + delta) ELSE w]

------------------------------------------------------------------------------
\* The end of the block.
End(h) == h.begin + h.cells

\* A heap after compaction of the generation from young on, with the tuple of
\* the registers, made at the allocation pointer, as its last object.
Gathered(h, young) ==
    Compact(Stored(h.mem, h.fp, <<Hdr(NRegs + 1, "obj")>> \o h.R),
            h.fp + NRegs + 1, young, h.fp)

\* gc and OL__gc: collect the new generation, or everything when ws is 0, when
\* all is new, or when that did not free enough; then resize the block, which
\* may end up at another base, and take the registers back from their tuple.
Collected(h, ws, base, sealed) ==
    LET young == IF ws = 0 THEN h.begin ELSE h.gen
        one   == Gathered(h, young)
        used  == one.regs - h.begin
        again == young # h.begin /\ TooLittle(h.cells, used, ws + MemPad)
        two   == IF again THEN Compact(one.mem, one.fp, h.begin, one.regs) ELSE one
        query == IF again THEN ws + 2 * MemPad ELSE ws + MemPad
        size  == IF (young = h.begin \/ again) /\ ~ sealed
                 THEN Cells(h.cells, two.regs - h.begin, query) ELSE h.cells
        start == IF size = h.cells THEN h.begin ELSE base
        moved == IF start = h.begin THEN two.mem
                 ELSE Slide(two.mem, start - h.begin)
        regs  == two.regs + start - h.begin
    IN  [mem |-> [a \in {x \in DOMAIN moved : x < regs} |-> moved[a]],
         begin |-> start, cells |-> size, gen |-> regs, fp |-> regs,
         R |-> [r \in Reg |-> moved[regs + r]]]

\* The object of the words ws, allocated for register r.
Allocated(h, ws, r) ==
    [h EXCEPT !.mem = Stored(h.mem, h.fp, ws), !.fp = h.fp + Len(ws),
              !.R[r] = Ref(h.fp)]

\* The words of the object at a, header included.
ObjectAt(h, a) == [i \in 1..HdrSize(h.mem[a]) |-> h.mem[a + i - 1]]

\* The elements of the list w, when it is a proper one.
RECURSIVE ListOf(_, _)
ListOf(h, w) ==
    IF IsRef(w) /\ h.mem[Addr(w)] = Hdr(3, "pair")
    THEN <<h.mem[Addr(w) + 1]>> \o ListOf(h, h.mem[Addr(w) + 2])
    ELSE <<>>

RECURSIVE ListEnd(_, _)
ListEnd(h, w) ==
    IF IsRef(w) /\ h.mem[Addr(w)] = Hdr(3, "pair")
    THEN ListEnd(h, h.mem[Addr(w) + 2]) ELSE w

\* An instruction that allocates n words and asks nobody.
Unchecked(n) ==
    /\ burst + n <= MaxBurst
    /\ heap.fp + n <= End(heap) + MemPad
    /\ burst' = burst + n

\* LD, LDI: a constant for register r.
Load(v, r) ==
    /\ heap' = [heap EXCEPT !.R[r] = Val(v)]
    /\ UNCHANGED <<sandbox, burst>>

\* MOVE.
Move(a, r) ==
    /\ heap' = [heap EXCEPT !.R[r] = heap.R[a]]
    /\ UNCHANGED <<sandbox, burst>>

\* CAR, CDR: a field of a pair.
Field(a, i, r) ==
    LET w == heap.R[a] IN
    /\ IsRef(w) /\ heap.mem[Addr(w)] = Hdr(3, "pair")
    /\ heap' = [heap EXCEPT !.R[r] = heap.mem[Addr(w) + i]]
    /\ UNCHANGED <<sandbox, burst>>

\* CONS: new_pair.
ConsOf(a, b, r) ==
    /\ Unchecked(3)
    /\ heap' = Allocated(heap, <<Hdr(3, "pair"), heap.R[a], heap.R[b]>>, r)
    /\ UNCHANGED sandbox

\* VMNEW_OBJECT: an object of the elements of a list.  It is the only place
\* that collects in the middle of a block when there is no room.
NewObject(a, r, base) ==
    LET len == Len(ListOf(heap, heap.R[a])) IN
    /\ ListEnd(heap, heap.R[a]) = Val(Nil)
    /\ \E h \in {IF heap.fp + len > End(heap)
                 THEN Collected(heap, len, base, sandbox) ELSE heap} :
         heap' = Allocated(h, <<Hdr(len + 1, "obj")>> \o ListOf(h, h.R[a]), r)
    /\ UNCHANGED <<sandbox, burst>>

\* VMNEW_RAWOBJECT of n words, which are not cleared: they keep whatever was
\* there, a reference for instance.
NewRaw(n, r, base) ==
    /\ \E h \in {IF n > End(heap) - heap.fp
                 THEN Collected(heap, n, base, sandbox) ELSE heap} :
         heap' = Allocated(h, <<Hdr(n + 1, "raw")>>
                                \o [i \in 1..n |-> Ref(h.begin)], r)
    /\ UNCHANGED <<sandbox, burst>>

\* SETREF: a copy of the object with another word at pos.
SetRef(a, pos, b, r) ==
    LET w == heap.R[a] IN
    /\ IsRef(w) /\ ~ IsRaw(heap.mem[Addr(w)])
    /\ pos < HdrSize(heap.mem[Addr(w)])
    /\ Unchecked(HdrSize(heap.mem[Addr(w)]))
    /\ heap' = Allocated(heap, [ObjectAt(heap, Addr(w)) EXCEPT ![pos + 1] = heap.R[b]], r)
    /\ UNCHANGED sandbox

\* Mutant: set-ref! stores references too.
SetRefAnything(a, pos, b) ==
    LET w == heap.R[a] IN
    /\ IsRef(w) /\ ~ IsRaw(heap.mem[Addr(w)])
    /\ pos < HdrSize(heap.mem[Addr(w)])
    /\ heap' = [heap EXCEPT !.mem[Addr(w) + pos] = heap.R[b]]
    /\ UNCHANGED <<sandbox, burst>>

\* SETREFE, set-ref!: a value, and nothing else, at pos of the object itself.
\* The position is one of a field (the code also takes the one after the last).
SetRefE(a, pos, b) ==
    LET w == heap.R[a] IN
    /\ IsRef(w) /\ ~ IsRaw(heap.mem[Addr(w)]) /\ ~ IsRef(heap.R[b])
    /\ pos < HdrSize(heap.mem[Addr(w)])
    /\ heap' = [heap EXCEPT !.mem[Addr(w) + pos] = heap.R[b]]
    /\ UNCHANGED <<sandbox, burst>>

\* apply: the room for the next block is checked before it runs.
ApplyCheck(base) ==
    /\ heap' = IF heap.fp >= End(heap) - MemPad
               THEN Collected(heap, 1, base, sandbox) ELSE heap
    /\ burst' = 0
    /\ UNCHANGED sandbox

\* Syscall 1000: a full collection.
FullCollection(base) ==
    /\ heap' = Collected(heap, 0, base, sandbox)
    /\ UNCHANGED <<sandbox, burst>>

\* prctl: from now on the heap cannot be resized.
EnterSandbox ==
    /\ ~ sandbox /\ sandbox' = TRUE
    /\ UNCHANGED <<heap, burst>>

\* The images of k objects from address a on: pairs of constants and of
\* objects that come before them, and raw objects of one word.
RECURSIVE Images(_, _)
Images(k, a) ==
    IF k = 0 THEN {<<>>}
    ELSE UNION {{i \o <<Hdr(3, "pair"), x, y>> :
                    x, y \in {Val(v) : v \in Const}
                            \cup {Ref(a + p - 1) : p \in {q \in DOMAIN i : IsHdr(i[q])}}}
                \cup {i \o <<Hdr(2, "raw"), Val(Nil)>>} : i \in Images(k - 1, a)}

\* Where the block is at first: it makes no difference.
FirstBase == CHOOSE base \in Base : TRUE

\* OL_new: a block with twice the room of the image, which is loaded behind
\* ptrs, a raw object with the addresses of its objects; all of it is new.
\* The last object is the one to apply.
HeapInit ==
    /\ \E k \in Loaded : \E image \in Images(k, FirstBase + k + 1) :
         LET base  == FirstBase
             first == base + k + 1
             heads == SetToSortSeq({p \in DOMAIN image : IsHdr(image[p])}, <)
             ptrs  == <<Hdr(k + 1, "raw")>>
                      \o [i \in 1..k |-> Ref(first + heads[i] - 1)]
             words == Len(image) + k + 2
         IN  heap = [mem |-> Stored([a \in {} |-> 0], base, ptrs \o image),
                     begin |-> base, cells |-> 2 * words + MemPad, gen |-> base,
                     fp |-> first + Len(image),
                     R |-> [r \in Reg |-> IF r = NRegs THEN ptrs[k + 1] ELSE Val(Nil)]]
    /\ sandbox = FALSE
    /\ burst = 0
    /\ steps = 0

HeapNext ==
    /\ steps < MaxSteps /\ steps' = steps + 1
    /\ \/ \E v \in Const, r \in Reg : Load(v, r)
       \/ \E a, r \in Reg : Move(a, r)
       \/ \E a \in Reg, i \in 1..2, r \in Into : Field(a, i, r)
       \/ \E a, b \in Reg, r \in Into : ConsOf(a, b, r)
       \/ \E a \in Reg, r \in Into, base \in Base : NewObject(a, r, base)
       \/ \E n \in RawSize, r \in Into, base \in Base : NewRaw(n, r, base)
       \/ \E a, b \in Reg, pos \in 1..2, r \in Into : SetRef(a, pos, b, r)
       \/ \E a, b \in Reg, pos \in 1..2 : SetRefE(a, pos, b)
       \/ \E base \in Base : ApplyCheck(base)
       \/ \E base \in Base : FullCollection(base)
       \/ EnterSandbox
    /\ heap'.cells <= MaxCells
    /\ heap'.fp <= End(heap') + MemPad

HeapSpec == HeapInit /\ [][HeapNext]_heapVars

------------------------------------------------------------------------------
\* The headers of the objects of a heap, in the order of their addresses.
RECURSIVE Headers(_, _)
Headers(h, a) ==
    IF a >= h.fp THEN {} ELSE {a} \cup Headers(h, a + HdrSize(h.mem[a]))

\* The block is a row of whole objects.  A reference in a register is to one
\* of them; a reference in an object is to an older one, which lies below it:
\* the collector goes over the words of the block in this order, twice.
Down ==
    LET heads == Headers(heap, heap.begin) IN
    /\ \A r \in Reg : IsRef(heap.R[r]) => Addr(heap.R[r]) \in heads
    /\ \A a \in heads : ~ IsRaw(heap.mem[a]) =>
          \A i \in 1..(HdrSize(heap.mem[a]) - 1) :
             LET w == heap.mem[a + i]
             IN  IsRef(w) => Addr(w) \in heads /\ Addr(w) < a

\* The objects that can be reached from the set S of objects.
RECURSIVE Reached(_, _)
Reached(h, S) ==
    LET T == S \cup UNION {{Addr(h.mem[a + i]) :
                              i \in {j \in 1..(HdrSize(h.mem[a]) - 1) :
                                       IsRef(h.mem[a + j])}} :
                            a \in {b \in S : ~ IsRaw(h.mem[b])}}
    IN  IF T = S THEN S ELSE Reached(h, T)

\* What the registers rs see: the objects they reach in the order of their
\* age, with their contents, and no addresses.
View(h, rs) ==
    LET live    == Reached(h, {Addr(h.R[r]) : r \in {q \in rs : IsRef(h.R[q])}})
        rank(a) == Cardinality({b \in live : b < a})
        seen(w) == IF IsRef(w) THEN Ref(rank(Addr(w))) ELSE w
        order   == SetToSortSeq(live, <)
    IN  [regs |-> [r \in rs |-> seen(h.R[r])],
         objects |-> [k \in DOMAIN order |->
             LET o == ObjectAt(h, order[k])
             IN  IF IsRaw(o[1]) THEN o ELSE [i \in DOMAIN o |-> seen(o[i])]]]

\* No step but set-ref! changes what the program sees through its registers,
\* the one that gets the result apart: a collection, of one generation or of
\* both, with the block resized and moved or not, in the middle of a block of
\* code or before it, keeps every reachable object, its sharing and its age.
KeepsGraph ==
    [][\/ heap' = heap
       \/ \E a, b \in Reg, pos \in 1..2 : SetRefE(a, pos, b)
       \/ \E r \in Reg : View(heap', Reg \ {r}) = View(heap, Reg \ {r})
    ]_heapVars

\* Outside the sandbox a block of code starts with MEMPAD words free.
RoomToRun ==
    [][\/ sandbox \/ heap'.fp + MemPad <= End(heap')
       \/ ~ \E base \in Base : ApplyCheck(base)]_heapVars
==============================================================================
