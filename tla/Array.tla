------------------------------- MODULE Array --------------------------------
(***************************************************************************)
(* klib/array.c: resizable arrays.  An array is a record of num and of the *)
(* max cells of v, of which the first num are its elements; memory from    *)
(* kmalloc is zero, which is NULL.                                         *)
(***************************************************************************)
EXTENDS Naturals, Sequences, SequencesExt, Functions

CONSTANTS Vals, NULL,
          MaxNum   \* bound: elements

VARIABLES a,       \* the array
          seq,     \* the elements array.h says it has
          halt     \* "no", "cleaned up", or "assert"

arrayVars == <<a, seq, halt>>

array_init == [num |-> 0, v |-> <<>>]
array_max(x) == Len(x.v)

(* Cells are numbered from 0; both calls assert that the index is below    *)
(* num.                                                                    *)
array_get(x, i) == x.v[i + 1]
array_set(x, i, val) == [x EXCEPT !.v[i + 1] = val]

(* Doubling from 4 until num fits.                                         *)
RECURSIVE NewMax(_, _)
NewMax(max, num) ==
    IF num <= max THEN max ELSE NewMax(IF max = 0 THEN 4 ELSE 2 * max, num)

(* Mutant: one element too few is copied to the new block.                 *)
SetSizeShortCopy(x, num) ==
    IF num > array_max(x)
    THEN [num |-> num,
          v   |-> [i \in 1..NewMax(array_max(x), num) |->
                     IF i < x.num THEN x.v[i] ELSE NULL]]
    ELSE [x EXCEPT !.num = num]

(* array_setsize: a larger block holds the elements, and zeroes behind.    *)
array_setsize(x, num) ==
    IF num > array_max(x)
    THEN [num |-> num,
          v   |-> [i \in 1..NewMax(array_max(x), num) |->
                     IF i <= x.num THEN x.v[i] ELSE NULL]]
    ELSE [x EXCEPT !.num = num]

array_add(x, val) == array_set(array_setsize(x, x.num + 1), x.num, val)

(* memmove closes the gap; the last element stays in its cell as well.     *)
array_remove(x, i) ==
    [num |-> x.num - 1,
     v   |-> [j \in 1..array_max(x) |-> IF j > i /\ j < x.num THEN x.v[j + 1]
                                                              ELSE x.v[j]]]
-----------------------------------------------------------------------------
ArrayInit == a = array_init /\ seq = <<>> /\ halt = "no"

Add(val) ==
    /\ halt = "no" /\ a.num < MaxNum
    /\ a' = array_add(a, val)
    /\ seq' = Append(seq, val)
    /\ UNCHANGED halt

Set(i, val) ==
    /\ halt = "no" /\ i < a.num
    /\ a' = array_set(a, i, val)
    /\ seq' = [seq EXCEPT ![i + 1] = val]
    /\ UNCHANGED halt

Remove_(i) ==
    /\ halt = "no" /\ i < a.num
    /\ a' = array_remove(a, i)
    /\ seq' = RemoveAt(seq, i + 1)
    /\ UNCHANGED halt

(* array_setsize by a caller: elements beyond the old num hold anything.   *)
SetSize(num) ==
    /\ halt = "no"
    /\ a' = array_setsize(a, num)
    /\ seq' = [i \in 1..num |-> IF i <= a.num THEN seq[i] ELSE a'.v[i]]
    /\ UNCHANGED halt

(* array_cleanup asserts that the array is empty.                          *)
Cleanup ==
    /\ halt = "no"
    /\ halt' = IF a.num = 0 THEN "cleaned up" ELSE "assert"
    /\ UNCHANGED <<a, seq>>

ArrayNext ==
    \/ Cleanup
    \/ \E v \in Vals : Add(v) \/ \E i \in 0..(MaxNum - 1) : Set(i, v)
    \/ \E i \in 0..(MaxNum - 1) : Remove_(i)
    \/ \E n \in 0..MaxNum : SetSize(n)

ArraySpec == ArrayInit /\ [][ArrayNext]_arrayVars
-----------------------------------------------------------------------------
(* The elements lie inside the block and are the ones array.h describes,   *)
(* across every growth of the block and every gap closed.                  *)
ElementsKept ==
    halt = "no" => /\ a.num <= array_max(a)
                   /\ seq = [i \in 1..a.num |-> array_get(a, i - 1)]
=============================================================================
