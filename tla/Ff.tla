---------------------------------- MODULE Ff ----------------------------------
(***************************************************************************)
(* Association tables, the ffs of libraries/owl/ff.scm: red-black trees    *)
(* whose nodes the machine makes, takes apart and searches (src/olvm.c).   *)
(* A key is a machine word.  Words of values and words of references are   *)
(* told apart; a reference is an address, which grows with the object's    *)
(* age, as the collector keeps it.                                         *)
(***************************************************************************)
EXTENDS Integers, Sequences

CONSTANTS FfKeys,   \* keys: [ref |-> is it a reference, word |-> the word]
          FfVals,   \* what they are bound to
          MaxOps    \* bound: operations

VARIABLES ff,     \* the tree
          table,  \* what it stands for: a function from some of the keys
          ops

ffVars == <<ff, table, ops>>

Empty == <<>>

\* Mutant: an only child that is the right one is not marked.
NodeUnmarked(red, l, k, v, r) ==
    [red |-> red, right |-> FALSE, key |-> k, val |-> v,
     kids |-> (IF l = Empty THEN <<>> ELSE <<l>>) \o (IF r = Empty THEN <<>> ELSE <<r>>)]

\* A node: its colour, whether its only child is the right one, and its key,
\* value and children; an empty child takes no room.
Node(red, l, k, v, r) ==
    [red |-> red, right |-> l = Empty /\ r # Empty, key |-> k, val |-> v,
     kids |-> (IF l = Empty THEN <<>> ELSE <<l>>) \o (IF r = Empty THEN <<>> ELSE <<r>>)]
Red(l, k, v, r)   == Node(TRUE, l, k, v, r)
Black(l, k, v, r) == Node(FALSE, l, k, v, r)

\* FFAPPLY: the children, the empty ones filled in.
Left(n)  == CASE Len(n.kids) = 0 -> Empty
              [] Len(n.kids) = 1 -> IF n.right THEN Empty ELSE n.kids[1]
              [] OTHER -> n.kids[1]
Right(n) == CASE Len(n.kids) = 0 -> Empty
              [] Len(n.kids) = 1 -> IF n.right THEN n.kids[1] ELSE Empty
              [] OTHER -> n.kids[2]

IsRed(n) == n # Empty /\ n.red
Toggle(n) == [n EXCEPT !.red = ~ @]

\* LESSQ: every value comes before every reference.
Less(a, b) == IF a.ref = b.ref THEN a.word < b.word ELSE b.ref

------------------------------------------------------------------------------
\* The balancing moves.
BlackLeft(l, k, v, r) ==
    CASE ~ IsRed(l) -> Black(l, k, v, r)
      [] IsRed(l) /\ IsRed(r) -> Red(Toggle(l), k, v, Toggle(r))
      [] IsRed(l) /\ ~ IsRed(r) /\ IsRed(Left(l)) ->
           Red(Toggle(Left(l)), l.key, l.val, Black(Right(l), k, v, r))
      [] IsRed(l) /\ ~ IsRed(r) /\ ~ IsRed(Left(l)) /\ IsRed(Right(l)) ->
           LET y == Right(l) IN
           Red(Black(Left(l), l.key, l.val, Left(y)), y.key, y.val, Black(Right(y), k, v, r))
      [] OTHER -> Black(l, k, v, r)

\* Mutant: a red right child of a red right child is left where it is.
BlackRightOnce(l, k, v, r) ==
    IF IsRed(r) /\ IsRed(Left(r))
    THEN Red(Black(l, k, v, Left(Left(r))), Left(r).key, Left(r).val,
             Black(Right(Left(r)), r.key, r.val, Right(r)))
    ELSE Black(l, k, v, r)

BlackRight(l, k, v, r) ==
    CASE IsRed(r) /\ IsRed(Left(r)) ->
           LET y == Left(r) IN
           Red(Black(l, k, v, Left(y)), y.key, y.val, Black(Right(y), r.key, r.val, Right(r)))
      [] IsRed(r) /\ ~ IsRed(Left(r)) /\ IsRed(Right(r)) ->
           Red(Black(l, k, v, Left(r)), r.key, r.val, Toggle(Right(r)))
      [] OTHER -> Black(l, k, v, r)

RECURSIVE PutN(_, _, _)
PutN(n, k, v) ==
    IF n = Empty THEN Red(Empty, k, v, Empty)
    ELSE LET l == Left(n)
             r == Right(n)
         IN  CASE n.key = k -> Node(n.red, l, k, v, r)
               [] n.key # k /\ Less(k, n.key) ->
                    IF n.red THEN Red(PutN(l, k, v), n.key, n.val, r)
                             ELSE BlackLeft(PutN(l, k, v), n.key, n.val, r)
               [] n.key # k /\ ~ Less(k, n.key) ->
                    IF n.red THEN Red(l, n.key, n.val, PutN(r, k, v))
                             ELSE BlackRight(l, n.key, n.val, PutN(r, k, v))

\* Where get of the machine, which compares the words, goes on.
Down1(n, k) ==
    CASE Len(n.kids) = 2 -> n.kids[IF k.word < n.key.word THEN 1 ELSE 2]
      [] Len(n.kids) = 1 -> IF (k.word < n.key.word) = n.right THEN Empty ELSE n.kids[1]
      [] OTHER -> Empty

\* get of the machine: the application of an ff.
RECURSIVE Applied(_, _, _)
Applied(n, k, def) ==
    IF n = Empty THEN def
    ELSE IF n.key = k THEN n.val
    ELSE Applied(Down1(n, k), k, def)

\* get of the library.
RECURSIVE Get(_, _, _)
Get(n, k, def) ==
    CASE n = Empty -> def
      [] n # Empty /\ n.key = k -> n.val
      [] n # Empty /\ n.key # k /\ Less(k, n.key) -> Get(Left(n), k, def)
      [] n # Empty /\ n.key # k /\ ~ Less(k, n.key) -> Get(Right(n), k, def)

\* fupd: another value for a key that is there; a node with one child needs no
\* comparison.
RECURSIVE Update(_, _, _)
Update(n, k, v) ==
    LET i == IF Len(n.kids) = 1 \/ Less(k, n.key) THEN 1 ELSE 2 IN
    IF n.key = k THEN [n EXCEPT !.val = v]
    ELSE [n EXCEPT !.kids[i] = Update(n.kids[i], k, v)]

\* put.  The tag is bound to no key.
Missing == "missing"
PutIn(n, k, v) ==
    IF Applied(n, k, Missing) # Missing THEN Update(n, k, v)
    ELSE LET p == PutN(n, k, v) IN IF IsRed(p) THEN Toggle(p) ELSE p

------------------------------------------------------------------------------
\* Deletion: the black height of one side is one less.
BalanceLeft(l, k, v, r) ==
    CASE IsRed(l) -> Red(Toggle(l), k, v, r)
      [] ~ IsRed(l) /\ IsRed(r) ->
           LET y == Left(r) IN
           Red(Black(l, k, v, Left(y)), y.key, y.val,
               BlackRight(Right(y), r.key, r.val, Toggle(Right(r))))
      [] OTHER -> BlackRight(l, k, v, Toggle(r))

BalanceRight(l, k, v, r) ==
    CASE IsRed(r) -> Red(l, k, v, Toggle(r))
      [] ~ IsRed(r) /\ IsRed(l) ->
           LET y == Right(l) IN
           Red(BlackLeft(Toggle(Left(l)), l.key, l.val, Left(y)), y.key, y.val,
               Black(Right(y), k, v, r))
      [] OTHER -> BlackLeft(Toggle(l), k, v, r)

\* app: one tree of two that had a key between them.
RECURSIVE App(_, _)
App(l, r) ==
    LET mid == App(Right(l), Left(r)) IN
    CASE l = Empty -> r
      [] l # Empty /\ r = Empty -> l
      [] l # Empty /\ r # Empty /\ IsRed(l) /\ ~ IsRed(r) ->
           Red(Left(l), l.key, l.val, App(Right(l), r))
      [] l # Empty /\ r # Empty /\ ~ IsRed(l) /\ IsRed(r) ->
           Red(App(l, Left(r)), r.key, r.val, Right(r))
      [] l # Empty /\ r # Empty /\ IsRed(l) = IsRed(r) /\ IsRed(mid) ->
           Red(Node(l.red, Left(l), l.key, l.val, Left(mid)), mid.key, mid.val,
               Node(l.red, Right(mid), r.key, r.val, Right(r)))
      [] l # Empty /\ r # Empty /\ IsRed(l) /\ IsRed(r) /\ ~ IsRed(mid) ->
           Red(Left(l), l.key, l.val, Red(mid, r.key, r.val, Right(r)))
      [] OTHER -> BalanceLeft(Left(l), l.key, l.val, Black(mid, r.key, r.val, Right(r)))

RECURSIVE DelN(_, _)
DelN(n, k) ==
    LET l == Left(n)
        r == Right(n)
        x == DelN(l, k)
        y == DelN(r, k)
    IN  CASE n = Empty -> n
          [] n # Empty /\ n.key = k -> App(l, r)
          [] n # Empty /\ n.key # k /\ Less(k, n.key) ->
               CASE x = l -> n
                 [] x # l /\ IsRed(l) -> Red(x, n.key, n.val, r)
                 [] OTHER -> BalanceLeft(x, n.key, n.val, r)
          [] n # Empty /\ n.key # k /\ ~ Less(k, n.key) ->
               CASE y = r -> n
                 [] y # r /\ IsRed(r) -> Red(l, n.key, n.val, y)
                 [] OTHER -> BalanceRight(l, n.key, n.val, y)

\* del.
Del(n, k) == LET d == DelN(n, k) IN IF IsRed(d) THEN Toggle(d) ELSE d

PutFf(k, v) ==
    /\ ff' = PutIn(ff, k, v)
    /\ table' = [x \in DOMAIN table \cup {k} |-> IF x = k THEN v ELSE table[x]]

DeleteFf(k) ==
    /\ ff' = Del(ff, k)
    /\ table' = [x \in DOMAIN table \ {k} |-> table[x]]

FfInit == ff = Empty /\ table = <<>> /\ ops = 0

FfNext ==
    /\ ops < MaxOps /\ ops' = ops + 1
    /\ \E k \in FfKeys : DeleteFf(k) \/ \E v \in FfVals : PutFf(k, v)

FfSpec == FfInit /\ [][FfNext]_ffVars

------------------------------------------------------------------------------
\* get finds what was put last and not deleted, and nothing else.
Finds == \A k \in FfKeys :
    Get(ff, k, Missing) = IF k \in DOMAIN table THEN table[k] ELSE Missing

\* An ff applied to a key gives what get gives (libraries/owl/ff.scm:281).
AppliedFinds == \A k \in FfKeys : Applied(ff, k, Missing) = Get(ff, k, Missing)

\* The black nodes on the ways down, as a set of their numbers.
RECURSIVE Depths(_)
Depths(n) ==
    IF n = Empty THEN {0}
    ELSE {d + (IF n.red THEN 0 ELSE 1) : d \in Depths(Left(n)) \cup Depths(Right(n))}

RECURSIVE NoRedPair(_)
NoRedPair(n) ==
    n # Empty => /\ n.red => ~ IsRed(Left(n)) /\ ~ IsRed(Right(n))
                 /\ NoRedPair(Left(n)) /\ NoRedPair(Right(n))

\* ff-ok?: after every put and every del each way down has the same number of
\* black nodes, no red node has a red child, and the root is black.
Balanced == \E d \in 0..MaxOps : Depths(ff) = {d} /\ NoRedPair(ff) /\ ~ IsRed(ff)
==============================================================================
