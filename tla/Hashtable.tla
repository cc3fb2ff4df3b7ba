----------------------------- MODULE Hashtable ------------------------------
(***************************************************************************)
(* klib/hashtable.c: chained hashing over the lists of module List, whose  *)
(* array doubles and halves with the load.  Resizing adds the items again  *)
(* one by one, and such an add may resize in turn.                         *)
(***************************************************************************)
EXTENDS Naturals, Sequences, SequencesExt, FiniteSets

CONSTANTS Keys,          \* C strings, as sequences of character codes
          Vals,
          MIN_SIZE,      \* slots of the smallest array, a power of two
          LF_MULTIPLE,   \* slots per item the array keeps
          NULL

HashtableAssumption ==
    MIN_SIZE \in {2, 4, 8} /\ LF_MULTIPLE \in Nat \ {0}

VARIABLES h,        \* the table: its size and its chains of <<key, value>>
          call,     \* the last call, its key and what it returned
          halt      \* "no", "destroyed", or "assert"

vars == <<h, call, halt>>

(* The width of unsigned arithmetic, of which 16 bits are enough here.     *)
UINT == 65536

arraysize(t) == Cardinality(DOMAIN t.vals)

(* The table hashtable_create, grow and shrink start from.                 *)
Empty(n) == [size |-> 0, vals |-> [i \in 0..(n - 1) |-> <<>>]]

(* djb2; arraysize is a power of two, so the low bits of the hash decide.  *)
hash(key) == FoldLeft(LAMBDA x, c : (x * 33 + c) % UINT, 5381, key)

Slot(t, key) == hash(key) % arraysize(t)

(* list_find and list_remove of a chain with key_comparator.               *)
Has(chain, key) == \E i \in 1..Len(chain) : chain[i][1] = key
Find(chain, key) == SelectSeq(chain, LAMBDA kv : kv[1] = key)
Without(chain, key) == SelectSeq(chain, LAMBDA kv : kv[1] # key)

(* The items in the order rehash takes them.                               *)
Items(t) == FlattenSeq([i \in 1..arraysize(t) |-> t.vals[i - 1]])

RECURSIVE Add(_, _, _)

(* Mutant: size is not reset for the array the items are added to.         *)
ResizeKeepsSize(t, n) ==
    FoldLeft(LAMBDA g, kv : Add(g, kv[1], kv[2]),
             [Empty(n) EXCEPT !.size = t.size], Items(t))

(* grow and shrink: the items of t added one by one to an array of n.      *)
Resize(t, n) ==
    FoldLeft(LAMBDA g, kv : Add(g, kv[1], kv[2]), Empty(n), Items(t))

(* Mutant: the table grows one item late.                                  *)
AddLate(t, key, val) ==
    LET g == IF t.size * LF_MULTIPLE > arraysize(t)
             THEN Resize(t, 2 * arraysize(t)) ELSE t
        i == Slot(g, key)
    IN  [size |-> IF Has(g.vals[i], key) THEN g.size ELSE g.size + 1,
         vals |-> [g.vals EXCEPT ![i] = Append(Without(@, key), <<key, val>>)]]

(* Mutant: an item with the same key stays, the new one is dropped.        *)
AddKeepsOld(t, key, val) ==
    LET g == IF (t.size + 1) * LF_MULTIPLE > arraysize(t)
             THEN Resize(t, 2 * arraysize(t)) ELSE t
        i == Slot(g, key)
    IN  IF Has(g.vals[i], key) THEN g
        ELSE [size |-> g.size + 1,
              vals |-> [g.vals EXCEPT ![i] = Append(@, <<key, val>>)]]

Add(t, key, val) ==
    LET g == IF (t.size + 1) * LF_MULTIPLE > arraysize(t)
             THEN Resize(t, 2 * arraysize(t)) ELSE t
        i == Slot(g, key)
    IN  [size |-> IF Has(g.vals[i], key) THEN g.size ELSE g.size + 1,
         vals |-> [g.vals EXCEPT ![i] = Append(Without(@, key), <<key, val>>)]]
-----------------------------------------------------------------------------
Init ==
    /\ h = Empty(MIN_SIZE)
    /\ call = <<"create", NULL, NULL>>
    /\ halt = "no"

(* A pair with the same key is unlinked before the new one is appended.    *)
hashtable_add(key, val) ==
    /\ halt = "no"
    /\ h' = Add(h, key, val)
    /\ call' = <<"add", key, val>>
    /\ UNCHANGED halt

hashtable_find(key) ==
    LET found == Find(h.vals[Slot(h, key)], key)
    IN  /\ halt = "no"
        /\ call' = <<"find", key, IF found = <<>> THEN NULL ELSE found[1][2]>>
        /\ UNCHANGED <<h, halt>>

(* (h->size - 1) wraps around at size 0: the last removal never shrinks.   *)
hashtable_remove(key) ==
    LET found == Find(h.vals[Slot(h, key)], key)
        g == [size |-> h.size - 1,
              vals |-> [h.vals EXCEPT ![Slot(h, key)] = Without(@, key)]]
        room == (((g.size + UINT - 1) % UINT) * LF_MULTIPLE) % UINT
    IN  /\ halt = "no"
        /\ IF found = <<>>
           THEN call' = <<"remove", key, NULL>> /\ UNCHANGED h
           ELSE /\ call' = <<"remove", key, found[1][2]>>
                /\ h' = IF arraysize(g) > MIN_SIZE /\ room < arraysize(g)
                        THEN Resize(g, arraysize(g) \div 2) ELSE g
        /\ UNCHANGED halt

(* cleanup_array_with_lists asserts that every chain is empty.             *)
hashtable_destroy ==
    /\ halt = "no"
    /\ halt' = IF Items(h) = <<>> THEN "destroyed" ELSE "assert"
    /\ UNCHANGED <<h, call>>

Next ==
    \/ hashtable_destroy
    \/ \E k \in Keys : \/ hashtable_find(k)
                       \/ hashtable_remove(k)
                       \/ \E v \in Vals : hashtable_add(k, v)

Spec == Init /\ [][Next]_vars
-----------------------------------------------------------------------------
hashtable_isempty == h.size = 0
hashtable_getsize == h.size

(* The asserts of hashtable_assertvalid.                                   *)
hashtable_assertvalid ==
    /\ \A i \in DOMAIN h.vals : \A j \in 1..Len(h.vals[i]) :
          Slot(h, h.vals[i][j][1]) = i
    /\ Len(Items(h)) = h.size

(* After any calls, with resizes inside resizes, every key is in its slot  *)
(* and the size is the number of items.                                    *)
AlwaysValid == hashtable_assertvalid

(* The array always has LF_MULTIPLE slots for each item and never falls    *)
(* below MIN_SIZE, also right after it was halved.                         *)
LoadBounded ==
    /\ h.size * LF_MULTIPLE <= arraysize(h)
    /\ arraysize(h) >= MIN_SIZE

Dict == INSTANCE AbstractDict WITH
    dict <- [k \in Keys |-> LET f == Find(h.vals[Slot(h, k)], k)
                            IN  IF f = <<>> THEN NULL ELSE f[1][2]]

(* The table is a map: no resize loses, duplicates or reverts an item.     *)
ImplementsDict == Dict!Spec
=============================================================================
