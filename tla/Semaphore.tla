----------------------------- MODULE Semaphore ------------------------------
(***************************************************************************)
(* synch/semaphore.c over synch/wchan.c and the scheduler: one semaphore,  *)
(* threads that call P, V and thread_yield in any order, and timer ticks.  *)
(***************************************************************************)
EXTENDS Sched

CONSTANTS InitialCount,  \* semaphore_create's initial_count
          CountMax       \* the largest unsigned value

ASSUME SemAssumption ==
    /\ CountMax \in Nat \ {0}
    /\ InitialCount \in 0..CountMax

VARIABLES
    sem_count,   \* sem->sem_count
    sem_wchan,   \* sem->sem_wchan->wc_threads
    pc           \* "run", or "P": in P's loop, behind wchan_sleep

vars == <<schedVars, sem_count, sem_wchan, pc>>

TypeOK ==
    /\ SchedTypeOK
    /\ sem_count \in 0..CountMax
    /\ sem_wchan \in Seq(Threads)
    /\ pc \in [Threads -> {"run", "P"}]

Init ==
    /\ SchedInit
    /\ sem_count = InitialCount
    /\ sem_wchan = <<>>
    /\ pc = [t \in Threads |-> "run"]

At(s) == halt = "no" /\ pc[current] = s

(* One round of the loop of P and what follows it.                         *)
PLoop ==
    IF sem_count = 0
    THEN /\ sem_wchan' = Append(sem_wchan, current)
         /\ pc' = [pc EXCEPT ![current] = "P"]
         /\ SwitchSleep(active, tstate)
         /\ UNCHANGED sem_count
    ELSE /\ sem_count' = sem_count - 1
         /\ pc' = [pc EXCEPT ![current] = "run"]
         /\ UNCHANGED <<schedVars, sem_wchan>>

(* P(sem), called.                                                         *)
P == At("run") /\ PLoop

(* P(sem), back from wchan_sleep.                                          *)
PAwake == At("P") /\ PLoop

(* Mutant: a waiter is woken only when the count leaves zero.              *)
VFromZero ==
    LET woken == IF sem_count = 0 THEN WokenOne(sem_wchan) ELSE <<>>
    IN  /\ At("run")
        /\ sem_count' = (sem_count + 1) % (CountMax + 1)
        /\ active' = active \o woken
        /\ tstate' = MakeRunnable(tstate, woken)
        /\ sem_wchan' = IF sem_count = 0 THEN AfterOne(sem_wchan) ELSE sem_wchan
        /\ halt' = IF sem_count = CountMax THEN "assert" ELSE halt
        /\ UNCHANGED <<current, intr, pc>>

(* Mutant: the count is not checked against wrapping.                      *)
VWraps ==
    /\ At("run")
    /\ sem_count' = (sem_count + 1) % (CountMax + 1)
    /\ active' = active \o WokenOne(sem_wchan)
    /\ tstate' = MakeRunnable(tstate, WokenOne(sem_wchan))
    /\ sem_wchan' = AfterOne(sem_wchan)
    /\ intr' = [intr EXCEPT ![current] = @ /\ sem_wchan = <<>>]
    /\ UNCHANGED <<current, halt, pc>>

(* V(sem).  The unsigned count wraps, and the assert behind it stops the   *)
(* machine.  Waking a thread nests the run queue's spinlock, after which   *)
(* interrupts stay off (Spinlock!RestoresOnlyFlatSections).                *)
V ==
    /\ At("run")
    /\ sem_count' = (sem_count + 1) % (CountMax + 1)
    /\ IF sem_count' = 0
       THEN /\ halt' = "assert"
            /\ UNCHANGED <<current, active, tstate, intr, sem_wchan, pc>>
       ELSE /\ active' = active \o WokenOne(sem_wchan)
            /\ tstate' = MakeRunnable(tstate, WokenOne(sem_wchan))
            /\ sem_wchan' = AfterOne(sem_wchan)
            /\ intr' = [intr EXCEPT ![current] = @ /\ sem_wchan = <<>>]
            /\ UNCHANGED <<current, halt, pc>>

(* Steps of the threads and of the timer that leave the semaphore alone.   *)
Elsewhere ==
    /\ \/ TimerTick
       \/ At("run") /\ Yield
       \/ At("run") /\ \E b \in BOOLEAN : SetIF(b)
    /\ UNCHANGED <<sem_count, sem_wchan, pc>>

Next == P \/ PAwake \/ V \/ Elsewhere

Spec == Init /\ [][Next]_vars
-----------------------------------------------------------------------------
(* The threads inside P that a V has taken off the wait channel.           *)
Woken == {t \in Threads : pc[t] = "P" /\ t \notin Range(sem_wchan)}

(* No wakeup is lost: while threads sleep in P, every unit of the count is *)
(* spoken for by a thread that was woken and is on its way to take it.     *)
NoLostWakeup == sem_wchan # <<>> => sem_count <= Cardinality(Woken)

(* The processor runs out of threads, and cpu_idle panics, only in a true  *)
(* deadlock: the count is zero and every thread sleeps in P.               *)
IdleOnlyInDeadlock ==
    halt = "cpu_idle" => sem_count = 0 /\ Range(sem_wchan) = Threads

(* semaphore.h's "Operations (both atomic)": P decrements a positive count *)
(* or blocks until it can, V increments it.  The count observed after the  *)
(* assert of V failed is the one before it.                                *)
Atomic == INSTANCE AtomicSemaphore WITH
    count <- IF halt = "assert" THEN CountMax ELSE sem_count,
    waiting <- {t \in Threads : pc[t] = "P"}

ImplementsAtomic == Atomic!Spec
-----------------------------------------------------------------------------
(* The inductive invariant behind these properties.                        *)

(* Every thread is in one place: running, ready, or on the channel.        *)
OnePlace ==
    /\ NoDup(active) /\ NoDup(sem_wchan)
    /\ Range(active) \intersect Range(sem_wchan) = {}
    /\ current \notin Range(active)
    /\ halt # "cpu_idle" => current \notin Range(sem_wchan)
    /\ Threads = {current} \union Range(active) \union Range(sem_wchan)

SleepersInP == \A t \in Range(sem_wchan) : pc[t] = "P"

IInv ==
    /\ TypeOK
    /\ OnePlace
    /\ SleepersInP
    /\ NoLostWakeup
    /\ IdleOnlyInDeadlock
=============================================================================
