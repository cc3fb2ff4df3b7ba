-------------------------------- MODULE Lock --------------------------------
(***************************************************************************)
(* synch/lock.c over synch/wchan.c and the scheduler: one recursive lock,  *)
(* threads that acquire and release it, yield, and are preempted by timer  *)
(* ticks, inside the section the lock protects too.                        *)
(***************************************************************************)
EXTENDS Sched

CONSTANTS NULL,      \* the null pointer
          MaxDepth,  \* bound: how often a thread acquires a lock it holds
          Rounds     \* bound: how often a thread calls lock_acquire

ASSUME LockAssumption ==
    NULL \notin Threads /\ MaxDepth \in Nat \ {0} /\ Rounds \in Nat

VARIABLES
    lk_owner,   \* lock->lk_owner
    lk_count,   \* lock->lk_count
    lk_wchan,   \* lock->lk_wchan->wc_threads
    pc,         \* "run", or "acquire": in lock_acquire, behind wchan_sleep
    iflag,      \* the local iflag of a thread's last lock_acquire
    depth,      \* history: acquires of a thread not yet released
    left,       \* the acquires a thread still has to do
    if0         \* history: a thread's EFLAGS.IF before it used the lock

lockVars == <<lk_owner, lk_count, lk_wchan>>
clientVars == <<iflag, depth, left, if0>>
vars == <<schedVars, lockVars, pc, clientVars>>

TypeOK ==
    /\ SchedTypeOK
    /\ lk_owner \in Threads \union {NULL}
    /\ lk_count \in Nat
    /\ lk_wchan \in Seq(Threads)
    /\ pc \in [Threads -> {"run", "acquire"}]
    /\ iflag \in [Threads -> BOOLEAN]
    /\ depth \in [Threads -> 0..MaxDepth]
    /\ left \in [Threads -> 0..Rounds]
    /\ if0 \in [Threads -> BOOLEAN]

Init ==
    /\ SchedInit
    /\ lk_owner = NULL
    /\ lk_count = 0
    /\ lk_wchan = <<>>
    /\ pc = [t \in Threads |-> "run"]
    /\ iflag = intr
    /\ depth = [t \in Threads |-> 0]
    /\ left = [t \in Threads |-> Rounds]
    /\ if0 = intr

At(s) == halt = "no" /\ pc[current] = s

Assert(c) == halt' = IF c THEN halt ELSE "assert"
-----------------------------------------------------------------------------
(* lock_acquire returns: the lock is the thread's, IF is as at the call.   *)
Acquired(on) ==
    /\ Assert(lk_owner \in {NULL, current})
    /\ lk_owner' = current
    /\ lk_count' = lk_count + 1
    /\ depth' = [depth EXCEPT ![current] = @ + 1]
    /\ intr' = [intr EXCEPT ![current] = on]
    /\ pc' = [pc EXCEPT ![current] = "run"]
    /\ UNCHANGED <<current, active, tstate, lk_wchan>>

AcquireSleeps ==
    /\ lk_wchan' = Append(lk_wchan, current)
    /\ pc' = [pc EXCEPT ![current] = "acquire"]
    /\ SwitchSleep(active, tstate)
    /\ UNCHANGED <<lk_owner, lk_count, depth>>

(* Mutant: the lock is taken after the wakeup without looking again.       *)
AcquireLoopOnce(on) ==
    IF lk_count > 0 /\ lk_owner # current /\ pc[current] = "run"
    THEN AcquireSleeps
    ELSE Acquired(on)

(* Mutant: the flag is not restored.                                       *)
AcquireLoopKeepsOff(on) ==
    IF lk_count > 0 /\ lk_owner # current
    THEN AcquireSleeps
    ELSE Acquired(on /\ pc[current] = "run")

(* One round of the loop of lock_acquire and what follows it; on is the    *)
(* local iflag.                                                            *)
AcquireLoop(on) ==
    IF lk_count > 0 /\ lk_owner # current
    THEN AcquireSleeps
    ELSE Acquired(on)

(* lock_acquire, called.                                                   *)
lock_acquire ==
    /\ At("run")
    /\ left[current] > 0 /\ depth[current] < MaxDepth
    /\ iflag' = [iflag EXCEPT ![current] = intr[current]]
    /\ left' = [left EXCEPT ![current] = @ - 1]
    /\ AcquireLoop(intr[current])
    /\ UNCHANGED if0

(* lock_acquire, back from wchan_sleep.                                    *)
AcquireAwake ==
    /\ At("acquire")
    /\ AcquireLoop(iflag[current])
    /\ UNCHANGED <<iflag, left, if0>>
-----------------------------------------------------------------------------
(* Mutant: the last release wakes nobody.                                  *)
ReleaseWakesNone == <<>>

(* The threads lock_release makes runnable, what it leaves on the channel, *)
(* and the owner it leaves.                                                *)
ReleaseWakes == IF lk_count = 1 THEN WokenOne(lk_wchan) ELSE <<>>

ReleaseLeaves == IF lk_count = 1 THEN AfterOne(lk_wchan) ELSE lk_wchan

ReleaseOwner == IF lk_count = 1 THEN NULL ELSE lk_owner

(* lock_release, by a thread that holds the lock.                          *)
lock_release ==
    /\ At("run")
    /\ depth[current] > 0
    /\ Assert(lk_owner = current /\ lk_count > 0)
    /\ lk_count' = lk_count - 1
    /\ lk_owner' = ReleaseOwner
    /\ lk_wchan' = ReleaseLeaves
    /\ active' = active \o ReleaseWakes
    /\ tstate' = MakeRunnable(tstate, ReleaseWakes)
    /\ depth' = [depth EXCEPT ![current] = @ - 1]
    /\ UNCHANGED <<current, intr, pc, iflag, left, if0>>

(* Ticks, and threads that yield, with or without the lock.                *)
Elsewhere ==
    /\ TimerTick \/ (At("run") /\ Yield)
    /\ UNCHANGED <<lockVars, pc, clientVars>>

Next == lock_acquire \/ AcquireAwake \/ lock_release \/ Elsewhere

Spec == Init /\ [][Next]_vars

(* The timer keeps ticking while interrupts are on; a thread that gets the *)
(* processor again and again gets to finish the acquire it is in, and the  *)
(* code that holds the lock to release it.                                 *)
Fairness ==
    /\ WF_vars(Elsewhere /\ TimerTick)
    /\ \A t \in Threads : /\ SF_vars(current = t /\ AcquireAwake)
                          /\ SF_vars(current = t /\ lock_release)

FairSpec == Spec /\ Fairness
-----------------------------------------------------------------------------
(* Two threads never hold the lock together, however recursion, ticks and  *)
(* barging interleave.                                                     *)
MutualExclusion ==
    \A t, u \in Threads : depth[t] > 0 /\ depth[u] > 0 => t = u

(* The threads inside lock_acquire that run or are ready to.               *)
Woken == {t \in Range(active) \union {current} : pc[t] = "acquire"}

(* No wakeup is lost: while threads sleep on a free lock, one of them has  *)
(* been woken and is on its way to take it.                                *)
NoLostWakeup == lk_count = 0 /\ lk_wchan # <<>> => Woken # {}

(* No assert of lock.c fails and the threads never all sleep on the lock,  *)
(* which would end in cpu_idle's panic.                                    *)
NeverHalts == halt = "no"

(* lock_acquire and lock_release leave EFLAGS.IF as their caller had it,   *)
(* also when the acquire slept: unlike P, V and the cv operations they     *)
(* keep the flag in a local variable.                                      *)
KeepsInterruptFlag ==
    \A t \in Threads : pc[t] = "run" => intr[t] = if0[t]

(* The threads are preemptible, as thread_start, which turns interrupts    *)
(* on, leaves them.                                                        *)
Preemptible == \A t \in Threads : if0[t]

(* Every ready thread gets the processor, if all are preemptible.          *)
ReadyRuns == \A t \in Threads : Preemptible /\ t \in Range(active) ~> current = t

(* Every preemptible thread that waits for the lock gets it, in runs in    *)
(* which each thread acquires it a bounded number of times.                *)
EachGetsLock ==
    \A t \in Threads : Preemptible /\ pc[t] = "acquire" ~> depth[t] > 0
-----------------------------------------------------------------------------
(* The inductive invariant behind the safety properties.                   *)

(* lk_owner and lk_count say who holds the lock and how often.             *)
OwnerHolds ==
    /\ lk_owner = NULL => lk_count = 0 /\ \A t \in Threads : depth[t] = 0
    /\ lk_owner # NULL => /\ lk_count = depth[lk_owner]
                          /\ lk_count > 0
                          /\ pc[lk_owner] = "run"
                          /\ \A t \in Threads \ {lk_owner} : depth[t] = 0

OnePlace ==
    /\ NoDup(active) /\ NoDup(lk_wchan)
    /\ Range(active) \intersect Range(lk_wchan) = {}
    /\ current \notin Range(active)
    /\ current \notin Range(lk_wchan)
    /\ Threads = {current} \union Range(active) \union Range(lk_wchan)

SleepersInAcquire == \A t \in Range(lk_wchan) : pc[t] = "acquire"

FlagSaved ==
    \A t \in Threads : IF pc[t] = "run" THEN intr[t] = if0[t]
                                        ELSE iflag[t] = if0[t] /\ ~intr[t]

IInv ==
    /\ TypeOK
    /\ NeverHalts
    /\ OwnerHolds
    /\ OnePlace
    /\ SleepersInAcquire
    /\ NoLostWakeup
    /\ FlagSaved
=============================================================================
