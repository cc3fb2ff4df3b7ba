-------------------------- MODULE SemaphoreProofs ---------------------------
(***************************************************************************)
(* Proofs about Semaphore for any finite set of threads, any initial count *)
(* and any width of the counter: IInv is inductive, so P and V lose no     *)
(* wakeup, and the semaphore implements AtomicSemaphore.                   *)
(***************************************************************************)
EXTENDS Semaphore, SchedProofs

(* The threads counted by NoLostWakeup are finitely many.                  *)
LEMMA WokenFinite == IsFiniteSet(Woken) /\ Cardinality(Woken) \in Nat
<1>1. Woken \subseteq Threads
    BY DEF Woken
<1>2. QED
    BY <1>1, ThreadsAssumption, FS_Subset, FS_CardinalityType

(* The unsigned count wraps from its largest value to zero, and only there. *)
LEMMA CountWraps ==
    ASSUME NEW c \in 0..CountMax
    PROVE  (c + 1) % (CountMax + 1) = IF c = CountMax THEN 0 ELSE c + 1
<1>1. CASE c = CountMax
    BY <1>1, SemAssumption
<1>2. CASE c # CountMax
    BY <1>2, SemAssumption
<1>3. QED
    BY <1>1, <1>2

(* semaphore_create, with every thread running or ready.                   *)
LEMMA InitIInv == Init => IInv
<1> SUFFICES ASSUME Init PROVE IInv
    OBVIOUS
<1>1. SchedTypeOK /\ NoDup(active) /\ Range(active) = Threads \ {current}
    BY SchedInitPlaces DEF Init
<1>2. sem_wchan = <<>> /\ sem_wchan \in Seq(Threads) /\ Range(sem_wchan) = {}
      /\ NoDup(sem_wchan)
    BY RangeSeq, EmptySeq DEF Init, NoDup
<1>3. TypeOK
    BY <1>1, <1>2, SemAssumption DEF TypeOK, Init
<1>4. OnePlace
    BY <1>1, <1>2 DEF OnePlace, SchedTypeOK
<1>5. halt = "no"
    BY DEF Init, SchedInit
<1>6. QED
    BY <1>2, <1>3, <1>4, <1>5
       DEF IInv, SleepersInP, NoLostWakeup, IdleOnlyInDeadlock

(* P takes a unit: its thread was counted among the woken, or a unit was   *)
(* free for it to take.                                                    *)
LEMMA PTakes ==
    ASSUME IInv, halt = "no", PLoop, sem_count # 0
    PROVE  IInv'
<1> USE DEF IInv, PLoop
<1>1. TypeOK'
    BY SemAssumption DEF TypeOK, SchedTypeOK, schedVars
<1>2. OnePlace'
    BY DEF OnePlace, schedVars
<1>3. current \notin Range(sem_wchan)
    BY DEF OnePlace
<1>4. SleepersInP'
    BY <1>3, RangeSeq DEF SleepersInP, TypeOK, SchedTypeOK
<1>5. Woken' = Woken \ {current}
    BY DEF Woken, TypeOK, SchedTypeOK
<1>6. sem_wchan # <<>> => sem_count <= Cardinality(Woken)
    BY DEF NoLostWakeup
<1>7. Cardinality(Woken') >= Cardinality(Woken) - 1
    BY <1>5, WokenFinite, FS_RemoveElement
<1>8. Cardinality(Woken') \in Nat
    <2>1. IsFiniteSet(Woken')
        BY <1>5, WokenFinite, FS_RemoveElement
    <2>2. QED
        BY <2>1, FS_CardinalityType
<1>9. NoLostWakeup'
    BY <1>6, <1>7, <1>8, WokenFinite, SemAssumption DEF NoLostWakeup, TypeOK
<1>10. IdleOnlyInDeadlock'
    BY DEF IdleOnlyInDeadlock, schedVars
<1>11. QED
    BY <1>1, <1>2, <1>4, <1>9, <1>10

(* P finds the count zero and sleeps.                                      *)
LEMMA PSleeps ==
    ASSUME IInv, halt = "no", PLoop, sem_count = 0
    PROVE  IInv'
<1> USE DEF IInv
<1> DEFINE s == [tstate EXCEPT ![current] = "S_SLEEP"]
<1>1. /\ sem_wchan' = Append(sem_wchan, current)
      /\ pc' = [pc EXCEPT ![current] = "P"]
      /\ Dispatch(active, s)
      /\ intr' = [intr EXCEPT ![current] = FALSE]
      /\ sem_count' = sem_count
    BY DEF PLoop, SwitchSleep
<1>2. s \in [Threads -> States]
    BY DEF TypeOK, SchedTypeOK, States
<1>3. /\ sem_wchan' \in Seq(Threads) /\ NoDup(sem_wchan')
      /\ Range(sem_wchan') = Range(sem_wchan) \union {current}
      /\ sem_wchan' # <<>>
    BY <1>1, RangeAppend DEF TypeOK, SchedTypeOK, OnePlace
<1>4. IsFiniteSet(Woken') /\ Cardinality(Woken') \in Nat
    <2>1. Woken' \subseteq Threads
        BY DEF Woken
    <2>2. QED
        BY <2>1, ThreadsAssumption, FS_Subset, FS_CardinalityType
<1>5. NoLostWakeup'
    BY <1>1, <1>4 DEF NoLostWakeup
<1>6. SleepersInP'
    BY <1>1, <1>3, RangeSeq DEF SleepersInP, TypeOK, SchedTypeOK
<1> HIDE DEF s
<1>7. CASE active = <<>>
    <2>1. halt' = "cpu_idle" /\ tstate' = s /\ UNCHANGED <<current, active>>
        BY <1>1, <1>7, DispatchIdle
    <2>2. Range(active) = {}
        BY <1>7, RangeSeq DEF TypeOK, SchedTypeOK
    <2>3. TypeOK'
        BY <1>1, <1>2, <1>3, <2>1 DEF TypeOK, SchedTypeOK
    <2>4. Range(sem_wchan') = Threads
        BY <1>3, <2>2 DEF OnePlace
    <2>5. OnePlace' /\ IdleOnlyInDeadlock'
        BY <1>1, <1>3, <2>1, <2>2, <2>4 DEF OnePlace, IdleOnlyInDeadlock
    <2>6. QED
        BY <1>5, <1>6, <2>3, <2>5
<1>8. CASE active # <<>>
    <2>1. /\ current' \in Threads /\ active' \in Seq(Threads)
          /\ tstate' \in [Threads -> States] /\ halt' = halt
          /\ NoDup(active') /\ current' \notin Range(active')
          /\ Range(active) = Range(active') \union {current'}
        BY <1>1, <1>2, <1>8, DispatchPlaces DEF TypeOK, SchedTypeOK, OnePlace
    <2>2. TypeOK'
        BY <1>1, <1>3, <2>1 DEF TypeOK, SchedTypeOK
    <2>3. OnePlace'
        BY <1>3, <2>1 DEF OnePlace
    <2>4. IdleOnlyInDeadlock'
        BY <2>1 DEF IdleOnlyInDeadlock
    <2>5. QED
        BY <1>5, <1>6, <2>2, <2>3, <2>4
<1>9. QED
    BY <1>7, <1>8

(* V adds a unit and, when threads sleep, a woken thread to take it.       *)
LEMMA VIInv == ASSUME IInv, V PROVE IInv'
<1> USE DEF IInv
<1> DEFINE w == WokenOne(sem_wchan)
           r == AfterOne(sem_wchan)
<1>1. halt = "no" /\ pc[current] = "run" /\ UNCHANGED <<current, pc>>
    BY DEF V, At
<1>2. sem_count' \in 0..CountMax
    BY SemAssumption DEF V, TypeOK
<1>3. CASE sem_count' = 0
    <2>1. halt' = "assert" /\ UNCHANGED <<active, tstate, intr, sem_wchan>>
        BY <1>3 DEF V
    <2>2. TypeOK' /\ OnePlace' /\ SleepersInP' /\ IdleOnlyInDeadlock'
        BY <1>1, <1>2, <2>1
           DEF TypeOK, SchedTypeOK, OnePlace, SleepersInP, IdleOnlyInDeadlock
    <2>3. Woken' = Woken
        BY <1>1, <2>1 DEF Woken
    <2>4. NoLostWakeup'
        BY <1>3, <2>3, WokenFinite DEF NoLostWakeup
    <2>5. QED
        BY <2>2, <2>4
<1>4. CASE sem_count' # 0
    <2>1. /\ active' = active \o w /\ tstate' = MakeRunnable(tstate, w)
          /\ sem_wchan' = r /\ halt' = halt
          /\ intr' = [intr EXCEPT ![current] = @ /\ sem_wchan = <<>>]
        BY <1>4 DEF V
    <2>2. sem_count' = sem_count + 1
        BY <1>4, CountWraps DEF V, TypeOK
    <2>3. /\ w \in Seq(Threads) /\ NoDup(w) /\ r \in Seq(Threads) /\ NoDup(r)
          /\ Range(w) \intersect Range(r) = {}
          /\ Range(sem_wchan) = Range(w) \union Range(r)
          /\ sem_wchan = <<>> => Range(w) = {}
          /\ sem_wchan # <<>> => Range(w) = {Head(sem_wchan)}
        BY WakeOnePlaces DEF TypeOK, OnePlace
    <2> HIDE DEF w, r
    <2>4. /\ active' \in Seq(Threads) /\ NoDup(active')
          /\ Range(active') = Range(active) \union Range(w)
        BY <2>1, <2>3, RangeConcat DEF TypeOK, SchedTypeOK, OnePlace
    <2>5. tstate' \in [Threads -> States]
        BY <2>1 DEF MakeRunnable, States, TypeOK, SchedTypeOK
    <2>6. TypeOK'
        BY <1>1, <1>2, <2>1, <2>3, <2>4, <2>5 DEF TypeOK, SchedTypeOK
    <2>7. OnePlace' /\ SleepersInP' /\ IdleOnlyInDeadlock'
        BY <1>1, <2>1, <2>3, <2>4
           DEF OnePlace, SleepersInP, IdleOnlyInDeadlock
    <2>8. NoLostWakeup'
        <3>1. CASE sem_wchan = <<>>
            BY <2>1, <2>3, <3>1 DEF NoLostWakeup, AfterOne, r
        <3>2. CASE sem_wchan # <<>>
            <4> DEFINE h == Head(sem_wchan)
            <4>1. h \in Threads /\ h \in Range(sem_wchan) /\ pc[h] = "P"
                BY <3>2, RangeTail DEF TypeOK, SleepersInP
            <4>2. h \notin Woken
                BY <4>1 DEF Woken
            <4>3. Woken' = Woken \union {h}
                BY <1>1, <2>1, <2>3, <3>2, <4>1 DEF Woken
            <4> HIDE DEF h
            <4>4. Cardinality(Woken') = Cardinality(Woken) + 1
                BY <4>2, <4>3, WokenFinite, FS_AddElement
            <4>5. sem_count <= Cardinality(Woken)
                BY <3>2 DEF NoLostWakeup
            <4>6. QED
                BY <2>2, <4>4, <4>5, WokenFinite, SemAssumption
                   DEF NoLostWakeup, TypeOK
        <3>3. QED
            BY <3>1, <3>2
    <2>9. QED
        BY <2>6, <2>7, <2>8
<1>5. QED
    BY <1>3, <1>4

(* Ticks, yields and cli or sti move threads between the processor and the *)
(* run queue only.                                                         *)
LEMMA ElsewhereIInv == ASSUME IInv, Elsewhere PROVE IInv'
<1> USE DEF IInv
<1>1. UNCHANGED <<sem_count, sem_wchan, pc>> /\ halt = "no"
    BY DEF Elsewhere, TimerTick, At
<1>2. Woken' = Woken
    BY <1>1 DEF Woken
<1>3. NoLostWakeup' /\ SleepersInP'
    BY <1>1, <1>2 DEF NoLostWakeup, SleepersInP
<1>4. CASE SwitchReady /\ UNCHANGED intr
    <2>1. /\ current' \in Threads /\ active' \in Seq(Threads)
          /\ tstate' \in [Threads -> States] /\ halt' = halt
          /\ NoDup(active') /\ current' \notin Range(active')
          /\ {current} \union Range(active) = {current'} \union Range(active')
        BY <1>4, SwitchReadyPlaces DEF TypeOK, OnePlace
    <2>2. TypeOK'
        BY <1>1, <1>4, <2>1 DEF TypeOK, SchedTypeOK
    <2>3. OnePlace' /\ IdleOnlyInDeadlock'
        BY <1>1, <2>1 DEF OnePlace, IdleOnlyInDeadlock
    <2>4. QED
        BY <1>3, <2>2, <2>3
<1>5. CASE \E b \in BOOLEAN : SetIF(b)
    <2>1. TypeOK' /\ OnePlace' /\ IdleOnlyInDeadlock'
        BY <1>1, <1>5
           DEF SetIF, TypeOK, SchedTypeOK, OnePlace, IdleOnlyInDeadlock
    <2>2. QED
        BY <1>3, <2>1
<1>6. QED
    BY <1>4, <1>5 DEF Elsewhere, TimerTick, Yield

(* Every step keeps the inductive invariant.                               *)
LEMMA NextIInv == IInv /\ [Next]_vars => IInv'
<1> SUFFICES ASSUME IInv, [Next]_vars PROVE IInv'
    OBVIOUS
<1>1. CASE P \/ PAwake
    BY <1>1, PTakes, PSleeps DEF P, PAwake, At
<1>2. CASE V
    BY <1>2, VIInv
<1>3. CASE Elsewhere
    BY <1>3, ElsewhereIInv
<1>4. CASE UNCHANGED vars
    BY <1>4 DEF vars, schedVars, IInv, TypeOK, SchedTypeOK, OnePlace,
        SleepersInP, NoLostWakeup, IdleOnlyInDeadlock, Woken
<1>5. QED
    BY <1>1, <1>2, <1>3, <1>4 DEF Next
-----------------------------------------------------------------------------
(* The inductive invariant of P and V holds in every reachable state.      *)
THEOREM SemaphoreInvariant == Spec => []IInv
<1>1. QED
    BY InitIInv, NextIInv, PTL DEF Spec

(* P and V lose no wakeup, whatever the order of calls, ticks and yields.  *)
THEOREM SemaphoreNoLostWakeup == Spec => []NoLostWakeup
<1>1. IInv => NoLostWakeup
    BY DEF IInv
<1>2. QED
    BY <1>1, SemaphoreInvariant, PTL

(* cpu_idle panics only when every thread sleeps in P on a zero count.     *)
THEOREM SemaphoreIdleIsDeadlock == Spec => []IdleOnlyInDeadlock
<1>1. IInv => IdleOnlyInDeadlock
    BY DEF IInv
<1>2. QED
    BY <1>1, SemaphoreInvariant, PTL

(* semaphore.c implements the atomic operations semaphore.h promises.      *)
THEOREM SemaphoreImplementsAtomic == Spec => ImplementsAtomic
<1> DEFINE count == IF halt = "assert" THEN CountMax ELSE sem_count
           waiting == {t \in Threads : pc[t] = "P"}
<1>1. Init => Atomic!Init
    BY DEF Init, SchedInit, Atomic!Init
<1>2. ASSUME IInv, [Next]_vars
      PROVE  Atomic!Next \/ UNCHANGED <<count, waiting>>
    <2>0. /\ current \in Threads /\ sem_count \in 0..CountMax
          /\ CountMax \in Nat \ {0}
          /\ pc \in [Threads -> {"run", "P"}]
        BY <1>2, SemAssumption DEF IInv, TypeOK, SchedTypeOK
    <2>1. CASE PLoop /\ halt = "no" /\ sem_count # 0
        <3>1. /\ sem_count' = sem_count - 1 /\ halt' = "no"
              /\ pc' = [pc EXCEPT ![current] = "run"]
            BY <2>1 DEF PLoop, schedVars
        <3>2. count > 0 /\ count' = count - 1
            BY <2>0, <2>1, <3>1
        <3>3. waiting' = waiting \ {current}
            BY <2>0, <3>1
        <3>4. \E t \in Threads : Atomic!Decrement(t)
            BY <2>0, <3>2, <3>3 DEF Atomic!Decrement
        <3>5. QED
            BY <3>4, Zenon DEF Atomic!Next
    <2>2. CASE PLoop /\ halt = "no" /\ sem_count = 0
        <3>1. /\ sem_count' = sem_count /\ halt' \in {"no", "cpu_idle"}
              /\ pc' = [pc EXCEPT ![current] = "P"]
            BY <2>2 DEF PLoop, SwitchSleep, Dispatch
        <3>2. count = 0 /\ count' = count
            BY <2>2, <3>1
        <3>3. waiting' = waiting \union {current}
            BY <2>0, <3>1
        <3>4. \E t \in Threads : Atomic!Block(t)
            BY <2>0, <3>2, <3>3 DEF Atomic!Block
        <3>5. QED
            BY <3>4, Zenon DEF Atomic!Next
    <2>3. CASE V
        <3>1. halt = "no" /\ pc[current] = "run" /\ UNCHANGED pc
            BY <2>3 DEF V, At
        <3>2. CASE sem_count' = 0
            <4>1. sem_count = CountMax /\ halt' = "assert"
                BY <2>0, <2>3, <3>2, CountWraps DEF V
            <4>2. QED
                BY <3>1, <4>1
        <3>3. CASE sem_count' # 0
            <4>1. sem_count' = sem_count + 1 /\ halt' = halt
                  /\ sem_count < CountMax
                BY <2>0, <2>3, <3>3, CountWraps DEF V
            <4>2. Atomic!Increment(current)
                BY <3>1, <4>1 DEF Atomic!Increment
            <4>3. QED
                BY <2>0, <4>2 DEF Atomic!Next
        <3>4. QED
            BY <3>2, <3>3
    <2>4. CASE Elsewhere
        <3>1. halt = "no" /\ halt' = "no" /\ UNCHANGED <<sem_count, pc>>
            BY <2>4 DEF Elsewhere, TimerTick, Yield, At, SetIF, SwitchReady,
                Dispatch
        <3>2. QED
            BY <3>1
    <2>5. CASE UNCHANGED vars
        BY <2>5 DEF vars, schedVars
    <2>6. QED
        BY <1>2, <2>1, <2>2, <2>3, <2>4, <2>5 DEF Next, P, PAwake, At
<1>3. IInv /\ [Next]_vars => [Atomic!Next]_<<count, waiting>>
    BY <1>2
<1>4. QED
    BY <1>1, <1>3, SemaphoreInvariant, PTL
       DEF Spec, ImplementsAtomic, Atomic!Spec
=============================================================================
