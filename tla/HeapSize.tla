------------------------------ MODULE HeapSize ------------------------------
(***************************************************************************)
(* How the collector of src/olvm.c sizes the heap: the part of gc that     *)
(* looks at the numbers of words only.                                     *)
(***************************************************************************)
EXTENDS Integers

CONSTANT MemPad  \* MEMPAD: words kept free for the work of one apply

ASSUME MemPadAssumption == MemPad \in Nat

\* The new size of a heap of hsize words after a full collection that left
\* used words, when query words are wanted: it grows by a third, and from what
\* is wanted when that is more; it gives a ninth back when two thirds are free.
Cells(hsize, used, query) ==
    LET wanted == used + query
        grown  == IF wanted < hsize THEN hsize ELSE wanted
    IN  IF wanted > hsize \div 2      THEN grown + grown \div 3
        ELSE IF wanted < hsize \div 3 THEN hsize - hsize \div 9
        ELSE hsize

\* Mutant: a collection of the new generation always suffices.
NeverFull(hsize, used, query) == FALSE

\* Whether a collection of the new generation has freed too little.
TooLittle(hsize, used, query) == (hsize - used) - query < hsize \div 5
==============================================================================
