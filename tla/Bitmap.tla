------------------------------- MODULE Bitmap -------------------------------
(***************************************************************************)
(* klib/bitmap.c: bits in bytes, the last byte's bits beyond the end       *)
(* marked.  A byte is the set of its bits that are set, 0xFF is 0..7.      *)
(* The caller of mark and unmark respects the asserts on the bit's state.  *)
(***************************************************************************)
EXTENDS Naturals, FiniteSets

CONSTANTS MaxBits,   \* bound: the bits of the largest bitmap created
          ENOSPC     \* the error code

BitmapAssumption == MaxBits \in Nat /\ ENOSPC \notin Nat

VARIABLES bits,     \* b->bits
          bytes,    \* b->bytes
          marked,   \* history: the indexes marked or allocated
          ret       \* what the last bitmap_alloc returned: an index or ENOSPC

vars == <<bits, bytes, marked, ret>>

DIVROUNDUP(x, y) == (x + y - 1) \div y

(* bitmap_create                                                           *)
Create(n) ==
    [i \in 0..(DIVROUNDUP(n, 8) - 1) |->
        IF i = n \div 8 THEN {j \in 0..7 : j >= n - 8 * i} ELSE {}]

(* bitmap_translate: the byte and the mask of a bit.                       *)
Byte(idx) == idx \div 8
Mask(idx) == idx % 8

bitmap_isset(idx) == Mask(idx) \in bytes[Byte(idx)]

Init ==
    /\ bits \in 1..MaxBits
    /\ bytes = Create(bits)
    /\ marked = {}
    /\ ret = ENOSPC

(* Mutant: the inner loop runs down the bits of the byte.                  *)
LastClear ==
    LET i == CHOOSE i \in DOMAIN bytes : /\ bytes[i] # 0..7
                                         /\ \A k \in 0..(i - 1) : bytes[k] = 0..7
        n == CHOOSE n \in 0..7 \ bytes[i] : \A k \in (n + 1)..7 : k \in bytes[i]
    IN  8 * i + n

(* The bit bitmap_alloc's two loops stop at.                               *)
FirstClear ==
    LET i == CHOOSE i \in DOMAIN bytes : /\ bytes[i] # 0..7
                                         /\ \A k \in 0..(i - 1) : bytes[k] = 0..7
        n == CHOOSE n \in 0..7 \ bytes[i] : \A k \in 0..(n - 1) : k \in bytes[i]
    IN  8 * i + n

bitmap_alloc ==
    IF \A i \in DOMAIN bytes : bytes[i] = 0..7
    THEN ret' = ENOSPC /\ UNCHANGED <<bits, bytes, marked>>
    ELSE /\ ret' = FirstClear
         /\ bytes' = [bytes EXCEPT ![Byte(FirstClear)] = @ \union {Mask(FirstClear)}]
         /\ marked' = marked \union {ret'}
         /\ UNCHANGED bits

bitmap_mark(idx) ==
    /\ idx < bits /\ ~bitmap_isset(idx)
    /\ bytes' = [bytes EXCEPT ![Byte(idx)] = @ \union {Mask(idx)}]
    /\ marked' = marked \union {idx}
    /\ UNCHANGED <<bits, ret>>

(* Mutant: the mask is not inverted, all other bits go.                    *)
UnmarkOthers(idx) ==
    /\ idx < bits /\ bitmap_isset(idx)
    /\ bytes' = [bytes EXCEPT ![Byte(idx)] = {Mask(idx)}]
    /\ marked' = marked \ {idx}
    /\ UNCHANGED <<bits, ret>>

bitmap_unmark(idx) ==
    /\ idx < bits /\ bitmap_isset(idx)
    /\ bytes' = [bytes EXCEPT ![Byte(idx)] = @ \ {Mask(idx)}]
    /\ marked' = marked \ {idx}
    /\ UNCHANGED <<bits, ret>>

Next ==
    \/ bitmap_alloc
    \/ \E idx \in 0..(MaxBits - 1) : bitmap_mark(idx) \/ bitmap_unmark(idx)

Spec == Init /\ [][Next]_vars
-----------------------------------------------------------------------------
(* The bytes hold exactly the marked indexes, and the bits beyond the end  *)
(* of the last byte, which stay marked whatever is called.                 *)
BytesMatch ==
    \A idx \in 0..(8 * Cardinality(DOMAIN bytes) - 1) :
        bitmap_isset(idx) <=> idx \in marked \/ idx >= bits

(* bitmap_alloc hands out the lowest free index, inside the bitmap (its    *)
(* assert), and fails only when every index is taken.                      *)
AllocLowest ==
    bitmap_alloc =>
        IF ret' = ENOSPC THEN marked = 0..(bits - 1)
        ELSE /\ ret' < bits /\ ret' \notin marked
             /\ 0..(ret' - 1) \subseteq marked
=============================================================================
