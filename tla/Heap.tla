-------------------------------- MODULE Heap --------------------------------
(***************************************************************************)
(* klib/heap.c: a binary heap in an array of module Array.  The comparator *)
(* is the order of numbers: it tells whether its left argument is smaller. *)
(***************************************************************************)
EXTENDS Array, FiniteSets

VARIABLE popped   \* the element the last heap_pop returned, or NULL

heapVars == <<arrayVars, popped>>

PARENT(i) == (i - 1) \div 2
LEFT(i) == 2 * i + 1
RIGHT(i) == 2 * i + 2

Precedes(x, i, j) == array_get(x, i) < array_get(x, j)

(* Mutant: the first cell is overwritten before it is read.                *)
SwapLossy(x, i, j) == array_set(array_set(x, i, array_get(x, j)), j, array_get(x, j))

Swap(x, i, j) == array_set(array_set(x, i, array_get(x, j)), j, array_get(x, i))

RECURSIVE bubble_up(_, _)

(* Mutant: one exchange with the parent, not the way up.                   *)
BubbleOnce(x, i) ==
    IF i > 0 /\ Precedes(x, i, PARENT(i)) THEN Swap(x, i, PARENT(i)) ELSE x

bubble_up(x, i) ==
    IF i > 0 /\ Precedes(x, i, PARENT(i))
    THEN bubble_up(Swap(x, i, PARENT(i)), PARENT(i))
    ELSE x

(* The child trickle_down exchanges node i with, i if there is none.       *)
SmallerChild(x, i) ==
    IF RIGHT(i) < x.num /\ Precedes(x, RIGHT(i), i)
    THEN IF Precedes(x, LEFT(i), RIGHT(i)) THEN LEFT(i) ELSE RIGHT(i)
    ELSE IF LEFT(i) < x.num /\ Precedes(x, LEFT(i), i) THEN LEFT(i) ELSE i

RECURSIVE trickle_down(_, _)
trickle_down(x, i) ==
    LET j == SmallerChild(x, i)
    IN  IF j = i THEN x ELSE trickle_down(Swap(x, i, j), j)
-----------------------------------------------------------------------------
HeapInit == ArrayInit /\ popped = NULL

heap_push(v) ==
    /\ halt = "no" /\ a.num < MaxNum
    /\ a' = bubble_up(array_add(a, v), a.num)
    /\ seq' = Append(seq, v)
    /\ UNCHANGED <<halt, popped>>

(* Mutant: the root is read after the last element has moved there.        *)
PopLate ==
    /\ halt = "no" /\ a.num > 0
    /\ popped' = array_get(a, a.num - 1)
    /\ a' = trickle_down([array_set(a, 0, array_get(a, a.num - 1))
                             EXCEPT !.num = a.num - 1], 0)
    /\ seq' = RemoveFirst(seq, array_get(a, 0))
    /\ UNCHANGED halt

(* heap_pop; of the elements heap.h speaks of, any with that value leaves. *)
heap_pop ==
    /\ halt = "no"
    /\ IF a.num = 0
       THEN popped' = NULL /\ UNCHANGED <<a, seq>>
       ELSE /\ popped' = array_get(a, 0)
            /\ a' = trickle_down([array_set(a, 0, array_get(a, a.num - 1))
                                     EXCEPT !.num = a.num - 1], 0)
            /\ seq' = RemoveFirst(seq, array_get(a, 0))
    /\ UNCHANGED halt

(* heap_destroy, through array_cleanup and its assert.                     *)
heap_destroy ==
    /\ halt = "no"
    /\ halt' = IF a.num = 0 THEN "destroyed" ELSE "assert"
    /\ UNCHANGED <<a, seq, popped>>

(* assert_heap_property below node i, the asserts of array_get with it: a  *)
(* node has to precede both cells below it, which have to be in use.       *)
RECURSIVE assert_heap_property(_, _)
assert_heap_property(x, i) ==
    i < x.num =>
        \A c \in {LEFT(i), RIGHT(i)} :
            c < x.num /\ Precedes(x, i, c) /\ assert_heap_property(x, c)

heap_assertvalid ==
    /\ halt = "no"
    /\ halt' = IF assert_heap_property(a, 0) THEN "no" ELSE "assert"
    /\ UNCHANGED <<a, seq, popped>>

HeapNext == \/ \E v \in Vals : heap_push(v)
            \/ heap_pop \/ heap_destroy \/ heap_assertvalid

HeapSpec == HeapInit /\ [][HeapNext]_heapVars
-----------------------------------------------------------------------------
heap_top == array_get(a, 0)
heap_isempty == a.num = 0
heap_getsize == a.num

(* No element precedes its parent, after any pushes and pops.              *)
HeapOrdered == \A i \in 1..(a.num - 1) : ~Precedes(a, i, PARENT(i))

(* heap.h: heap_assertvalid "Validates the integrity of the heap data      *)
(* structure": its asserts hold of every heap that is in order.            *)
OrderedIsValid == HeapOrdered => assert_heap_property(a, 0)

(* The heap holds the elements pushed and not yet popped, each as often.   *)
KeepsElements ==
    LET elems == [i \in 1..a.num |-> array_get(a, i - 1)]
    IN  \A v \in Vals : Cardinality({i \in DOMAIN elems : elems[i] = v})
                             = Cardinality({i \in DOMAIN seq : seq[i] = v})

(* heap.h: heap_pop removes "the next element (with the highest            *)
(* priority)": nothing left in the heap precedes it.  heap_top is the one  *)
(* the next pop returns.                                                   *)
PopsFirst ==
    a'.num < a.num =>
        /\ popped' = heap_top
        /\ \A i \in 1..Len(seq) : ~(seq[i] < popped')
=============================================================================
