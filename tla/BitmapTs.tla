------------------------------ MODULE BitmapTs ------------------------------
(***************************************************************************)
(* klib/bitmap_ts.c: a bitmap under a lock, with a condition variable for  *)
(* bitmap_ts_isset_blocking.  The lock and the condition variable are      *)
(* those of Lock and CondVar, the bitmap is the set of its marked bits,    *)
(* which module Bitmap implements.  The lock leaves interrupts on, so a    *)
(* thread may be preempted between bitmap_alloc's search and its store.    *)
(***************************************************************************)
EXTENDS CondVar, FiniteSetsExt

CONSTANTS Bits,    \* the indexes of the bitmap
          Ops,     \* the operations the threads call
          Marker   \* the one thread that calls bitmap_ts_mark

BitmapTsAssumption == Bits \subseteq Nat /\ IsFiniteSet(Bits)

VARIABLES marked,   \* the bits that are set
          op,       \* what each thread is doing: "idle" outside bitmap_ts
          index,    \* the bit each thread's operation is about
          owned     \* history: the bits each thread was given or marked

bVars == <<cvVars, marked, op, index, owned>>

BInit ==
    /\ CvInit
    /\ marked = {}
    /\ op = [t \in Threads |-> "idle"]
    /\ index = [t \in Threads |-> NULL]
    /\ owned = [t \in Threads |-> {}]

Goes(o) == op' = [op EXCEPT ![current] = o]

In(o) == At("run") /\ op[current] = o

(* The bits operations are called with: a thread unmarks what it owns; any *)
(* bit is asked about.                                                     *)
MayCall(o, i) ==
    CASE o = "alloc" -> i = NULL
      [] o = "mark" -> current = Marker /\ i \in Bits \ owned[Marker]
      [] o = "unmark" -> i \in owned[current]
      [] o = "isset" -> i \in Bits
      [] o = "isset_blocking" -> i \in Bits \ owned[current]

(* The start of every operation: its asserts and lock_acquire.             *)
Call(o, i) ==
    /\ op[current] = "idle"
    /\ MayCall(o, i)
    /\ lock_acquire
    /\ Goes(o)
    /\ index' = [index EXCEPT ![current] = i]
    /\ UNCHANGED <<cv_wchan, marked, owned>>

(* Mutant: the lock is not held from the search to the store.              *)
AllocFindUnlocked ==
    /\ In("alloc")
    /\ marked # Bits
    /\ lock_release
    /\ index' = [index EXCEPT ![current] = Min(Bits \ marked)]
    /\ Goes("store")
    /\ UNCHANGED <<cv_wchan, marked, owned>>

(* bitmap_ts_alloc: bitmap_alloc's search, which may fail, and its store.  *)
AllocFind ==
    /\ In("alloc")
    /\ marked # Bits
    /\ index' = [index EXCEPT ![current] = Min(Bits \ marked)]
    /\ Goes("store")
    /\ UNCHANGED <<cvVars, marked, owned>>

AllocFails ==
    /\ In("alloc")
    /\ marked = Bits
    /\ Goes("release")
    /\ UNCHANGED <<cvVars, marked, index, owned>>

AllocStore ==
    /\ In("store")
    /\ marked' = marked \union {index[current]}
    /\ owned' = [owned EXCEPT ![current] = @ \union {index[current]}]
    /\ Goes("release")
    /\ UNCHANGED <<cvVars, index>>

(* bitmap_mark asserts that the bit is clear: the kernel stops if not.     *)
bitmap_ts_mark ==
    /\ In("mark")
    /\ Assert(index[current] \notin marked)
    /\ IF index[current] \in marked
       THEN UNCHANGED <<marked, owned, op>>
       ELSE /\ marked' = marked \union {index[current]}
            /\ owned' = [owned EXCEPT ![current] = @ \union {index[current]}]
            /\ Goes("signal")
    /\ UNCHANGED <<current, active, tstate, intr, lockVars, pc, clientVars, cv_wchan, index>>

MarkSignal ==
    /\ In("signal")
    /\ cv_signal
    /\ Goes("release")
    /\ UNCHANGED <<marked, index, owned>>

(* bitmap_unmark asserts that the bit is set; nothing is signalled.        *)
bitmap_ts_unmark ==
    /\ In("unmark")
    /\ Assert(index[current] \in marked)
    /\ marked' = marked \ {index[current]}
    /\ owned' = [owned EXCEPT ![current] = @ \ {index[current]}]
    /\ Goes("release")
    /\ UNCHANGED <<current, active, tstate, intr, lockVars, pc, clientVars, cv_wchan, index>>

(* Mutant: one wait, and the bit is not looked at again.                   *)
IssetWaitOnce ==
    /\ In("isset_blocking")
    /\ index[current] \in marked
    /\ cv_wait
    /\ Goes("clear")
    /\ UNCHANGED <<marked, index, owned>>

(* bitmap_ts_isset_blocking: a round of its loop, and what follows it.     *)
IssetWait ==
    /\ In("isset_blocking")
    /\ index[current] \in marked
    /\ cv_wait
    /\ UNCHANGED <<marked, op, index, owned>>

(* bitmap_ts_isset and bitmap_ts_getdata.                                  *)
bitmap_ts_isset ==
    /\ In("isset")
    /\ Goes("release")
    /\ UNCHANGED <<cvVars, marked, index, owned>>

bitmap_ts_isset_blocking ==
    /\ In("isset_blocking")
    /\ index[current] \notin marked
    /\ Goes("clear")
    /\ UNCHANGED <<cvVars, marked, index, owned>>

Return ==
    /\ In("release") \/ In("clear")
    /\ lock_release
    /\ Goes("idle")
    /\ index' = [index EXCEPT ![current] = NULL]
    /\ UNCHANGED <<cv_wchan, marked, owned>>

(* The rest of lock_acquire and cv_wait, ticks and yields; the callers     *)
(* turn interrupts back on, which cv_signal and cv_wait leave off.         *)
Underneath ==
    /\ \/ (AcquireAwake \/ Elsewhere) /\ UNCHANGED cv_wchan
       \/ CvAwake
       \/ /\ In("idle") /\ ~intr[current]
          /\ SetIF(TRUE)
          /\ UNCHANGED <<lockVars, pc, clientVars, cv_wchan>>
    /\ UNCHANGED <<marked, op, index, owned>>

BNext ==
    \/ \E o \in Ops, i \in Bits \union {NULL} : Call(o, i)
    \/ AllocFind \/ AllocFails \/ AllocStore
    \/ bitmap_ts_mark \/ MarkSignal
    \/ bitmap_ts_unmark \/ bitmap_ts_isset
    \/ IssetWait \/ bitmap_ts_isset_blocking
    \/ Return
    \/ Underneath

BSpec == BInit /\ [][BNext]_bVars
-----------------------------------------------------------------------------
(* bitmap_ts_alloc never gives one bit to two threads, and a bit is set    *)
(* exactly while some thread owns it, though a thread can lose the         *)
(* processor between the search and the store.                             *)
BitsOwnedOnce ==
    /\ \A t, u \in Threads : t # u => owned[t] \intersect owned[u] = {}
    /\ marked = UNION {owned[t] : t \in Threads}

(* bitmap_ts_isset_blocking returns only when the bit is clear, although   *)
(* it is bitmap_ts_mark, which sets bits, that wakes it.                   *)
BlockingReturnsClear ==
    \A t \in Threads : op[t] = "clear" /\ pc[t] = "run" => index[t] \notin marked
=============================================================================
