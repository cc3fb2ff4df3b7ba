----------------------------- MODULE LockProofs -----------------------------
(***************************************************************************)
(* Proofs about Lock for any finite set of threads and any bounds: IInv is *)
(* inductive, so the lock excludes, loses no wakeup, never halts the       *)
(* machine and keeps its callers' interrupt flag.                          *)
(***************************************************************************)
EXTENDS Lock, SchedProofs

(* lock_create, with every thread running or ready.                        *)
LEMMA InitIInv == Init => IInv
<1> SUFFICES ASSUME Init PROVE IInv
    OBVIOUS
<1>1. SchedTypeOK /\ NoDup(active) /\ Range(active) = Threads \ {current}
    BY SchedInitPlaces DEF Init
<1>2. lk_wchan = <<>> /\ lk_wchan \in Seq(Threads) /\ Range(lk_wchan) = {}
      /\ NoDup(lk_wchan)
    BY RangeSeq, EmptySeq DEF Init, NoDup
<1>3. TypeOK
    BY <1>1, <1>2, LockAssumption DEF TypeOK, Init, SchedTypeOK
<1>4. OnePlace
    BY <1>1, <1>2 DEF OnePlace, SchedTypeOK
<1>5. NeverHalts
    BY DEF Init, SchedInit, NeverHalts
<1>6. OwnerHolds /\ FlagSaved
    BY DEF Init, OwnerHolds, FlagSaved
<1>7. QED
    BY <1>2, <1>3, <1>4, <1>5, <1>6 DEF IInv, SleepersInAcquire, NoLostWakeup

(* lock_acquire takes the lock, from outside or once more.                 *)
LEMMA AcquiredIInv ==
    ASSUME IInv, NEW on \in BOOLEAN, on = if0[current], Acquired(on),
           lk_count = 0 \/ lk_owner = current,
           depth[current] < MaxDepth,
           iflag' \in [Threads -> BOOLEAN], left' \in [Threads -> 0..Rounds],
           if0' = if0,
           \A t \in Threads \ {current} : iflag'[t] = iflag[t]
    PROVE  IInv'
<1> USE DEF IInv
<1>1. /\ lk_owner \in {NULL, current} /\ halt = "no"
      /\ lk_owner # NULL => lk_count = depth[current]
      /\ current \in Threads
    BY DEF OwnerHolds, NeverHalts, TypeOK, SchedTypeOK
<1>2. /\ lk_owner' = current /\ lk_count' = lk_count + 1 /\ halt' = "no"
      /\ depth' = [depth EXCEPT ![current] = @ + 1]
      /\ intr' = [intr EXCEPT ![current] = on]
      /\ pc' = [pc EXCEPT ![current] = "run"]
      /\ UNCHANGED <<current, active, tstate, lk_wchan>>
    BY <1>1 DEF Acquired, Assert
<1>3. TypeOK'
    BY <1>1, <1>2, LockAssumption DEF TypeOK, SchedTypeOK
<1>4. OwnerHolds'
    BY <1>1, <1>2, LockAssumption DEF OwnerHolds, TypeOK
<1>5. OnePlace'
    BY <1>2 DEF OnePlace
<1>6. SleepersInAcquire'
    BY <1>2, RangeSeq DEF SleepersInAcquire, OnePlace, TypeOK, SchedTypeOK
<1>7. NoLostWakeup' /\ NeverHalts'
    BY <1>2 DEF NoLostWakeup, NeverHalts, TypeOK
<1>8. FlagSaved'
    BY <1>1, <1>2 DEF FlagSaved, TypeOK, SchedTypeOK
<1>9. QED
    BY <1>3, <1>4, <1>5, <1>6, <1>7, <1>8

(* lock_acquire finds the lock taken and sleeps.  Its owner is not asleep, *)
(* so the run queue is not empty.                                          *)
LEMMA AcquireSleepsIInv ==
    ASSUME IInv, AcquireSleeps, lk_count > 0, lk_owner # current,
           iflag' \in [Threads -> BOOLEAN], left' \in [Threads -> 0..Rounds],
           if0' = if0, iflag'[current] = if0[current],
           \A t \in Threads \ {current} : iflag'[t] = iflag[t]
    PROVE  IInv'
<1> USE DEF IInv
<1> DEFINE s == [tstate EXCEPT ![current] = "S_SLEEP"]
<1>1. /\ lk_wchan' = Append(lk_wchan, current)
      /\ pc' = [pc EXCEPT ![current] = "acquire"]
      /\ Dispatch(active, s)
      /\ intr' = [intr EXCEPT ![current] = FALSE]
      /\ UNCHANGED <<lk_owner, lk_count, depth>>
    BY DEF AcquireSleeps, SwitchSleep
<1>2. s \in [Threads -> States] /\ current \in Threads
    BY DEF TypeOK, SchedTypeOK, States
<1>3. lk_owner \in Threads /\ pc[lk_owner] = "run"
    BY DEF OwnerHolds, TypeOK
<1>4. lk_owner \in Range(active)
    BY <1>3 DEF OnePlace, SleepersInAcquire
<1>5. active # <<>>
    BY <1>4, RangeSeq DEF TypeOK, SchedTypeOK
<1>6. /\ lk_wchan' \in Seq(Threads) /\ NoDup(lk_wchan')
      /\ Range(lk_wchan') = Range(lk_wchan) \union {current}
    BY <1>1, RangeAppend DEF TypeOK, SchedTypeOK, OnePlace
<1> HIDE DEF s
<1>7. /\ current' \in Threads /\ active' \in Seq(Threads)
      /\ tstate' \in [Threads -> States] /\ halt' = halt
      /\ NoDup(active') /\ current' \notin Range(active')
      /\ Range(active) = Range(active') \union {current'}
    BY <1>1, <1>2, <1>5, DispatchPlaces DEF TypeOK, SchedTypeOK, OnePlace
<1>8. TypeOK'
    BY <1>1, <1>2, <1>6, <1>7 DEF TypeOK, SchedTypeOK
<1>9. OwnerHolds'
    BY <1>1, <1>2, <1>3 DEF OwnerHolds, TypeOK
<1>10. OnePlace'
    BY <1>6, <1>7 DEF OnePlace
<1>11. SleepersInAcquire'
    BY <1>1, <1>2, <1>6, RangeSeq DEF SleepersInAcquire, TypeOK
<1>12. NoLostWakeup' /\ NeverHalts'
    BY <1>1, <1>7 DEF NoLostWakeup, NeverHalts
<1>13. FlagSaved'
    BY <1>1, <1>2 DEF FlagSaved, TypeOK, SchedTypeOK
<1>14. QED
    BY <1>8, <1>9, <1>10, <1>11, <1>12, <1>13

(* A thread in lock_acquire does not hold the lock.                        *)
LEMMA WaiterHoldsNothing ==
    ASSUME IInv, pc[current] = "acquire"
    PROVE  lk_owner # current /\ depth[current] = 0
<1>1. QED
    BY LockAssumption DEF IInv, OwnerHolds, TypeOK, SchedTypeOK

(* lock_acquire, called.                                                   *)
LEMMA LockAcquireIInv == ASSUME IInv, lock_acquire PROVE IInv'
<1> USE DEF IInv
<1>1. /\ pc[current] = "run" /\ current \in Threads
      /\ intr[current] = if0[current] /\ intr[current] \in BOOLEAN
      /\ iflag' = [iflag EXCEPT ![current] = intr[current]]
      /\ if0' = if0
    BY DEF lock_acquire, At, FlagSaved, TypeOK, SchedTypeOK
<1>2. iflag' \in [Threads -> BOOLEAN]
      /\ \A t \in Threads \ {current} : iflag'[t] = iflag[t]
      /\ iflag'[current] = if0[current]
    BY <1>1 DEF TypeOK
<1>3. left' \in [Threads -> 0..Rounds]
    BY <1>1, LockAssumption DEF lock_acquire, TypeOK
<1>4. depth[current] < MaxDepth
    BY LockAssumption DEF lock_acquire, TypeOK, SchedTypeOK
<1>5. CASE lk_count > 0 /\ lk_owner # current
    <2>1. AcquireSleeps
        BY <1>5 DEF lock_acquire, AcquireLoop
    <2>2. QED
        BY <1>1, <1>2, <1>3, <1>5, <2>1, AcquireSleepsIInv
<1>6. CASE ~(lk_count > 0 /\ lk_owner # current)
    <2>1. Acquired(intr[current])
        BY <1>6 DEF lock_acquire, AcquireLoop
    <2>2. lk_count = 0 \/ lk_owner = current
        BY <1>6 DEF TypeOK
    <2>3. QED
        BY <1>1, <1>2, <1>3, <1>4, <2>1, <2>2, AcquiredIInv
<1>7. QED
    BY <1>5, <1>6

(* lock_acquire, back from wchan_sleep.                                    *)
LEMMA AcquireAwakeIInv == ASSUME IInv, AcquireAwake PROVE IInv'
<1> USE DEF IInv
<1>1. /\ pc[current] = "acquire" /\ current \in Threads
      /\ iflag[current] = if0[current] /\ iflag[current] \in BOOLEAN
      /\ UNCHANGED <<iflag, left, if0>>
    BY DEF AcquireAwake, At, FlagSaved, TypeOK, SchedTypeOK
<1>2. lk_owner # current /\ depth[current] < MaxDepth
    BY <1>1, WaiterHoldsNothing, LockAssumption
<1>3. /\ iflag' \in [Threads -> BOOLEAN] /\ left' \in [Threads -> 0..Rounds]
      /\ \A t \in Threads \ {current} : iflag'[t] = iflag[t]
    BY <1>1 DEF TypeOK
<1>4. CASE lk_count > 0
    <2>1. AcquireSleeps
        BY <1>2, <1>4 DEF AcquireAwake, AcquireLoop
    <2>2. QED
        BY <1>1, <1>2, <1>3, <1>4, <2>1, AcquireSleepsIInv
<1>5. CASE ~(lk_count > 0)
    <2>1. Acquired(iflag[current])
        BY <1>5 DEF AcquireAwake, AcquireLoop
    <2>2. lk_count = 0
        BY <1>5 DEF TypeOK
    <2>3. QED
        BY <1>1, <1>2, <1>3, <2>1, <2>2, AcquiredIInv
<1>6. QED
    BY <1>4, <1>5

(* lock_release: the last one frees the lock and wakes a waiter.           *)
LEMMA LockReleaseIInv == ASSUME IInv, lock_release PROVE IInv'
<1> USE DEF IInv
<1> DEFINE w == ReleaseWakes
           r == ReleaseLeaves
<1>1. /\ pc[current] = "run" /\ current \in Threads /\ halt = "no"
      /\ lk_owner = current /\ lk_count = depth[current] /\ lk_count > 0
    BY LockAssumption
       DEF lock_release, At, OwnerHolds, TypeOK, SchedTypeOK
<1>2. /\ halt' = "no" /\ lk_count' = lk_count - 1
      /\ lk_owner' = ReleaseOwner /\ lk_wchan' = r
      /\ active' = active \o w /\ tstate' = MakeRunnable(tstate, w)
      /\ depth' = [depth EXCEPT ![current] = @ - 1]
      /\ UNCHANGED <<current, intr, pc, iflag, left, if0>>
    BY <1>1 DEF lock_release, Assert
<1>3. /\ w \in Seq(Threads) /\ NoDup(w) /\ r \in Seq(Threads) /\ NoDup(r)
      /\ Range(w) \intersect Range(r) = {}
      /\ Range(lk_wchan) = Range(w) \union Range(r)
    <2>1. CASE lk_count = 1
        BY <2>1, WakeOnePlaces
           DEF ReleaseWakes, ReleaseLeaves, TypeOK, OnePlace
    <2>2. CASE lk_count # 1
        <3>1. <<>> \in Seq(Threads) /\ Range(<<>>) = {} /\ NoDup(<<>>)
            BY RangeSeq, EmptySeq DEF NoDup
        <3>2. QED
            BY <2>2, <3>1 DEF ReleaseWakes, ReleaseLeaves, TypeOK, OnePlace
    <2>3. QED
        BY <2>1, <2>2
<1>4. lk_count = 1 /\ lk_wchan # <<>> => Range(w) # {}
    <2>1. lk_wchan # <<>> => Range(WokenOne(lk_wchan)) = {Head(lk_wchan)}
        BY WakeOnePlaces DEF TypeOK, OnePlace
    <2>2. lk_count = 1 => w = WokenOne(lk_wchan)
        BY DEF ReleaseWakes
    <2> HIDE DEF w
    <2>3. QED
        BY <2>1, <2>2
<1>a. lk_wchan = <<>> => r = <<>>
    BY DEF ReleaseLeaves, AfterOne
<1> HIDE DEF w, r
<1>5. /\ active' \in Seq(Threads) /\ NoDup(active')
      /\ Range(active') = Range(active) \union Range(w)
    BY <1>2, <1>3, RangeConcat DEF TypeOK, SchedTypeOK, OnePlace
<1>6. tstate' \in [Threads -> States]
    BY <1>2 DEF MakeRunnable, States, TypeOK, SchedTypeOK
<1>7. TypeOK'
    <2>1. depth' \in [Threads -> 0..MaxDepth] /\ lk_count' \in Nat
        BY <1>1, <1>2, LockAssumption DEF TypeOK
    <2>2. QED
        BY <1>1, <1>2, <1>3, <1>5, <1>6, <2>1
           DEF TypeOK, SchedTypeOK, ReleaseOwner
<1>8. OwnerHolds'
    BY <1>1, <1>2, LockAssumption DEF OwnerHolds, ReleaseOwner, TypeOK
<1>9. OnePlace' /\ SleepersInAcquire' /\ NeverHalts'
    BY <1>2, <1>3, <1>5 DEF OnePlace, SleepersInAcquire, NeverHalts
<1>10. NoLostWakeup'
    <2>1. SUFFICES ASSUME lk_count' = 0, lk_wchan' # <<>> PROVE Woken' # {}
        BY DEF NoLostWakeup
    <2>2. lk_count = 1 /\ lk_wchan # <<>>
        BY <1>1, <1>2, <1>a, <2>1 DEF TypeOK
    <2>3. PICK h : h \in Range(w)
        BY <1>4, <2>2
    <2>4. h \in Range(active') /\ pc'[h] = "acquire"
        BY <1>2, <1>3, <1>5, <2>3 DEF SleepersInAcquire
    <2>5. QED
        BY <2>4 DEF Woken
<1>11. FlagSaved'
    BY <1>2 DEF FlagSaved
<1>12. QED
    BY <1>7, <1>8, <1>9, <1>10, <1>11

(* Ticks and yields move threads between the processor and the run queue.  *)
LEMMA ElsewhereIInv == ASSUME IInv, Elsewhere PROVE IInv'
<1> USE DEF IInv
<1>1. SwitchReady /\ UNCHANGED <<intr, lockVars, pc, clientVars>>
    BY DEF Elsewhere, TimerTick, Yield
<1>2. /\ current' \in Threads /\ active' \in Seq(Threads)
      /\ tstate' \in [Threads -> States] /\ halt' = halt
      /\ NoDup(active') /\ current' \notin Range(active')
      /\ {current} \union Range(active) = {current'} \union Range(active')
    BY <1>1, SwitchReadyPlaces DEF TypeOK, OnePlace
<1>3. TypeOK'
    BY <1>1, <1>2 DEF TypeOK, SchedTypeOK, lockVars, clientVars
<1>4. OnePlace' /\ NeverHalts'
    BY <1>1, <1>2 DEF OnePlace, NeverHalts, lockVars
<1>5. OwnerHolds' /\ SleepersInAcquire' /\ FlagSaved'
    BY <1>1
       DEF OwnerHolds, SleepersInAcquire, FlagSaved, lockVars, clientVars
<1>6. NoLostWakeup'
    BY <1>1, <1>2 DEF NoLostWakeup, Woken, lockVars
<1>7. QED
    BY <1>3, <1>4, <1>5, <1>6

(* Every step keeps the inductive invariant.                               *)
LEMMA NextIInv == IInv /\ [Next]_vars => IInv'
<1> SUFFICES ASSUME IInv, [Next]_vars PROVE IInv'
    OBVIOUS
<1>1. CASE UNCHANGED vars
    BY <1>1 DEF vars, schedVars, lockVars, clientVars, IInv, TypeOK,
        SchedTypeOK, NeverHalts, OwnerHolds, OnePlace, SleepersInAcquire,
        NoLostWakeup, Woken, FlagSaved
<1>2. QED
    BY <1>1, LockAcquireIInv, AcquireAwakeIInv, LockReleaseIInv, ElsewhereIInv
       DEF Next
-----------------------------------------------------------------------------
(* The inductive invariant of lock.c holds in every reachable state.       *)
THEOREM LockInvariant == Spec => []IInv
<1>1. QED
    BY InitIInv, NextIInv, PTL DEF Spec

(* lock_acquire admits one thread at a time, however deep it recurses.     *)
THEOREM LockExcludes == Spec => []MutualExclusion
<1>1. IInv => MutualExclusion
    BY LockAssumption DEF IInv, OwnerHolds, MutualExclusion, TypeOK
<1>2. QED
    BY <1>1, LockInvariant, PTL

(* lock_release loses no wakeup, and lock.c never halts the processor: no  *)
(* assert fails and the threads are never all asleep on the lock.          *)
THEOREM LockNeverStuck == Spec => [](NoLostWakeup /\ NeverHalts)
<1>1. IInv => NoLostWakeup /\ NeverHalts
    BY DEF IInv
<1>2. QED
    BY <1>1, LockInvariant, PTL

(* lock_acquire and lock_release return with their caller's EFLAGS.IF.     *)
THEOREM LockKeepsInterruptFlag == Spec => []KeepsInterruptFlag
<1>1. IInv => KeepsInterruptFlag
    BY DEF IInv, FlagSaved, KeepsInterruptFlag
<1>2. QED
    BY <1>1, LockInvariant, PTL
=============================================================================
