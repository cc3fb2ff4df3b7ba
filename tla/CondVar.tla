------------------------------ MODULE CondVar -------------------------------
(***************************************************************************)
(* synch/cv.c over synch/lock.c: one condition variable used with one      *)
(* lock, by threads that hold it.  The spinlock cv_splock is held from the *)
(* release of the lock to the sleep or the wakeups, so nothing runs in     *)
(* between.  All three operations nest spinlocks and so return with        *)
(* interrupts off (Spinlock!RestoresOnlyFlatSections).                     *)
(***************************************************************************)
EXTENDS Lock

VARIABLE cv_wchan   \* cv->cv_wchan->wc_threads

cvVars == <<vars, cv_wchan>>

(* pc[t] is "wait" while t is in cv_wait, until it calls lock_acquire.     *)
CvTypeOK ==
    /\ SchedTypeOK
    /\ lk_owner \in Threads \union {NULL}
    /\ lk_count \in 0..MaxDepth
    /\ lk_wchan \in Seq(Threads)
    /\ cv_wchan \in Seq(Threads)
    /\ pc \in [Threads -> {"run", "acquire", "wait"}]
    /\ iflag \in [Threads -> BOOLEAN]
    /\ depth \in [Threads -> 0..MaxDepth]

CvInit ==
    /\ Init
    /\ intr = [t \in Threads |-> TRUE]
    /\ cv_wchan = <<>>

(* cv_wait, up to its sleep.  The thread that lock_release wakes goes to   *)
(* the run queue before this one leaves the processor.  The asserts of     *)
(* lock_release hold for a thread that holds the lock.                     *)
cv_wait ==
    /\ At("run")
    /\ depth[current] > 0
    /\ lk_count' = lk_count - 1
    /\ lk_owner' = ReleaseOwner
    /\ lk_wchan' = ReleaseLeaves
    /\ cv_wchan' = Append(cv_wchan, current)
    /\ SwitchSleep(active \o ReleaseWakes, MakeRunnable(tstate, ReleaseWakes))
    /\ pc' = [pc EXCEPT ![current] = "wait"]
    /\ depth' = [depth EXCEPT ![current] = @ - 1]
    /\ UNCHANGED <<iflag, left, if0>>

(* Mutant: cv_wait returns as if the lock were its own.                    *)
CvAwakeNoAcquire ==
    /\ At("wait")
    /\ iflag' = [iflag EXCEPT ![current] = intr[current]]
    /\ Acquired(intr[current])
    /\ UNCHANGED <<left, if0, cv_wchan>>

(* cv_wait, back from its sleep: lock_acquire, with interrupts off.        *)
CvAwake ==
    /\ At("wait")
    /\ iflag' = [iflag EXCEPT ![current] = intr[current]]
    /\ AcquireLoop(intr[current])
    /\ UNCHANGED <<left, if0, cv_wchan>>

(* The common part of cv_signal and cv_broadcast: the lock is released and *)
(* taken again before any thread made runnable can run.                    *)
Wake(woken, rest) ==
    /\ At("run")
    /\ depth[current] > 0
    /\ Assert(lk_owner = current /\ lk_count > 0)
    /\ lk_wchan' = ReleaseLeaves
    /\ cv_wchan' = rest
    /\ active' = active \o ReleaseWakes \o woken
    /\ tstate' = MakeRunnable(tstate, ReleaseWakes \o woken)
    /\ intr' = [intr EXCEPT ![current] = FALSE]
    /\ iflag' = [iflag EXCEPT ![current] = FALSE]
    /\ UNCHANGED <<current, lk_owner, lk_count, pc, depth, left, if0>>

cv_signal == Wake(WokenOne(cv_wchan), AfterOne(cv_wchan))

cv_broadcast == Wake(WokenAll(cv_wchan), <<>>)

(* The steps that leave the condition variable alone.                      *)
LockSteps ==
    /\ \/ lock_acquire
       \/ AcquireAwake
       \/ lock_release
       \/ Elsewhere
       \/ /\ At("run")
          /\ \E b \in BOOLEAN : SetIF(b)
          /\ UNCHANGED <<lockVars, pc, clientVars>>
    /\ UNCHANGED cv_wchan

CvNext == cv_wait \/ CvAwake \/ cv_signal \/ cv_broadcast \/ LockSteps

CvSpec == CvInit /\ [][CvNext]_cvVars
-----------------------------------------------------------------------------
(* The lock stays sound under cv.c, which releases it and takes it back    *)
(* inside cv_wait and in the middle of cv_signal: it excludes and loses no *)
(* wakeup.                                                                 *)
CvLockSound == CvTypeOK /\ MutualExclusion /\ NoLostWakeup

(* Every thread is in one place: running, ready, on the lock's channel or  *)
(* on the condition variable's.  The wakeups of cv_signal and cv_broadcast *)
(* and the one of the lock_release they contain never meet in one thread.  *)
CvOnePlace ==
    LET all == <<current>> \o active \o lk_wchan \o cv_wchan
    IN  halt = "no" => NoDup(all) /\ Range(all) = Threads

(* The processor runs out of threads only when all sleep: in cv_wait with  *)
(* nobody left to signal, or behind a lock whose owner sleeps in cv_wait.  *)
(* No assert of lock.c fails below cv.c.                                   *)
CvIdleOnlyWhenAllWait ==
    /\ halt # "assert"
    /\ halt = "cpu_idle" =>
          /\ cv_wchan # <<>>
          /\ Range(cv_wchan \o lk_wchan) = Threads
          /\ lk_wchan # <<>> => lk_owner \in Range(cv_wchan)

(* cv.h: cv_wait sleeps with the lock released.                            *)
CvWaitReleasesLock == \A t \in Threads : pc[t] = "wait" => lk_owner # t
=============================================================================
