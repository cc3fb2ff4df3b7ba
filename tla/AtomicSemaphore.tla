-------------------------- MODULE AtomicSemaphore ---------------------------
(***************************************************************************)
(* What synch/semaphore.h promises: a count, and atomic operations on it.  *)
(***************************************************************************)
EXTENDS Naturals

CONSTANTS Threads, InitialCount, CountMax

VARIABLES count,    \* never below zero, never above CountMax
          waiting   \* the threads blocked in P

Init == count = InitialCount /\ waiting = {}

(* P of a thread that finds the count positive, now or after blocking.     *)
Decrement(t) ==
    /\ count > 0
    /\ count' = count - 1
    /\ waiting' = waiting \ {t}

(* P of a thread that has to block.                                        *)
Block(t) ==
    /\ count = 0
    /\ waiting' = waiting \union {t}
    /\ UNCHANGED count

Increment(t) ==
    /\ t \notin waiting
    /\ count < CountMax
    /\ count' = count + 1
    /\ UNCHANGED waiting

Next == \E t \in Threads : Decrement(t) \/ Block(t) \/ Increment(t)

Spec == Init /\ [][Next]_<<count, waiting>>
=============================================================================
