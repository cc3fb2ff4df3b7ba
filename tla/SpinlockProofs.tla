--------------------------- MODULE SpinlockProofs ---------------------------
(***************************************************************************)
(* Proofs about Spinlock for any threads and any finite set of spinlocks:  *)
(* IInv is inductive, one lemma per action, and the invariants and action  *)
(* properties follow from it.                                              *)
(***************************************************************************)
EXTENDS Spinlock, FiniteSetTheorems, TLAPS

(* Taking an element out of a finite set lowers its cardinality by one: what *)
(* spinlock_release does to the set of owned locks and to its counter.      *)
LEMMA RemoveOne ==
    ASSUME NEW S, IsFiniteSet(S), NEW x \in S
    PROVE  /\ Cardinality(S \ {x}) = Cardinality(S) - 1
           /\ Cardinality(S \ {x}) \in Nat
<1>1. IsFiniteSet(S \ {x})
    BY FS_RemoveElement
<1>2. QED
    BY <1>1, FS_RemoveElement, FS_CardinalityType

(* Locks free, interrupts as they come: the invariant holds at the start.  *)
LEMMA InitIInv == Init => IInv
<1> SUFFICES ASSUME Init PROVE IInv
    OBVIOUS
<1>1. {l \in Locks : owned[l]} = {}
    BY DEF Init
<1>2. CounterCountsHeld
    BY <1>1, FS_EmptySet DEF CounterCountsHeld, Init
<1>3. TypeOK
    BY LocksAssumption DEF Init, TypeOK, Statements
<1>4. QED
    BY <1>2, <1>3 DEF Init, IInv, TypeOK, HeldMeansInterruptsOff, NeverHalts,
        Parked, OwnedIsHeld, LockedIsOwned, ArgFits, IflagFits, NestingFits,
        EntryFits, InSection, InCall

(* The assert of spinlock_acquire passes and changes no lock.              *)
LEMMA AcquireCheckIInv ==
    ASSUME IInv, NEW l \in Locks, AcquireCheck(l) PROVE IInv'
<1> USE DEF IInv, TypeOK, AcquireCheck, At, Goto, Statements
<1>0. ~spinlock_held(l)
    BY DEF spinlock_held, LockedIsOwned, OwnedIsHeld, EntryFits, NeverHalts
<1>1. TypeOK'
    BY <1>0
<1>2. HeldMeansInterruptsOff'
    BY <1>0 DEF HeldMeansInterruptsOff, InSection, InCall
<1>3. NeverHalts'
    BY <1>0 DEF NeverHalts
<1>4. CounterCountsHeld'
    BY <1>0 DEF CounterCountsHeld
<1>5. Parked' /\ OwnedIsHeld' /\ LockedIsOwned'
    BY <1>0 DEF Parked, OwnedIsHeld, LockedIsOwned
<1>6. ArgFits'
    BY <1>0 DEF ArgFits, EntryFits
<1>7. IflagFits'
    BY <1>0 DEF IflagFits, InSection, InCall, EntryFits
<1>8. NestingFits' /\ EntryFits'
    BY <1>0 DEF NestingFits, EntryFits
<1>9. QED
    BY <1>1, <1>2, <1>3, <1>4, <1>5, <1>6, <1>7, <1>8

(* spinlock_acquire turns interrupts off before it touches the lock.       *)
LEMMA AcquireCliIInv == ASSUME IInv, AcquireCli PROVE IInv'
<1> USE DEF IInv, TypeOK, AcquireCli, At, Goto, Statements
<1>1. TypeOK'
    OBVIOUS
<1>2. HeldMeansInterruptsOff'
    BY DEF HeldMeansInterruptsOff, InSection, InCall
<1>3. NeverHalts' /\ CounterCountsHeld' /\ Parked' /\ OwnedIsHeld'
    BY DEF NeverHalts, CounterCountsHeld, Parked, OwnedIsHeld
<1>4. LockedIsOwned' /\ ArgFits'
    BY DEF LockedIsOwned, ArgFits
<1>5. IflagFits'
    BY DEF IflagFits, EntryFits, HeldMeansInterruptsOff, InSection, InCall
<1>6. NestingFits' /\ EntryFits'
    BY DEF NestingFits, EntryFits
<1>7. QED
    BY <1>1, <1>2, <1>3, <1>4, <1>5, <1>6

(* The xchg of spinlock_acquire finds the lock free.                       *)
LEMMA AcquireXchgIInv == ASSUME IInv, AcquireXchg PROVE IInv'
<1> USE DEF IInv, TypeOK, AcquireXchg, At, Goto, Statements
<1>0. ~locked[arg[current]]
    BY DEF LockedIsOwned, OwnedIsHeld, ArgFits
<1>1. TypeOK'
    OBVIOUS
<1>2. HeldMeansInterruptsOff'
    BY DEF HeldMeansInterruptsOff, InSection, InCall
<1>3. NeverHalts' /\ CounterCountsHeld' /\ Parked' /\ OwnedIsHeld'
    BY DEF NeverHalts, CounterCountsHeld, Parked, OwnedIsHeld
<1>4. LockedIsOwned' /\ ArgFits'
    BY <1>0 DEF LockedIsOwned, ArgFits
<1>5. IflagFits'
    BY DEF IflagFits, InSection, InCall
<1>6. NestingFits' /\ EntryFits'
    BY DEF NestingFits, EntryFits
<1>7. QED
    BY <1>1, <1>2, <1>3, <1>4, <1>5, <1>6

(* spinlock_acquire records its processor and counts the lock.             *)
LEMMA AcquireOwnIInv == ASSUME IInv, AcquireOwn PROVE IInv'
<1> USE DEF IInv, TypeOK, AcquireOwn, At, Goto, Statements
<1>1. TypeOK'
    OBVIOUS
<1>2. HeldMeansInterruptsOff'
    BY DEF HeldMeansInterruptsOff, InSection, InCall
<1>3. CounterCountsHeld'
    <2> DEFINE O == {l \in Locks : owned[l]}
    <2>1. IsFiniteSet(O)
        BY LocksAssumption, FS_Subset
    <2>2. arg[current] \notin O
        BY DEF OwnedIsHeld, ArgFits
    <2>3. {l \in Locks : owned'[l]} = O \union {arg[current]}
        OBVIOUS
    <2>4. QED
        BY <2>1, <2>2, <2>3, FS_AddElement DEF CounterCountsHeld
<1>4. NeverHalts' /\ Parked' /\ OwnedIsHeld' /\ LockedIsOwned' /\ ArgFits'
    BY DEF NeverHalts, Parked, OwnedIsHeld, LockedIsOwned, ArgFits
<1>5. IflagFits'
    BY DEF IflagFits, InSection, InCall
<1>6. NestingFits' /\ EntryFits'
    BY DEF NestingFits, EntryFits
<1>7. QED
    BY <1>1, <1>2, <1>3, <1>4, <1>5, <1>6

(* The assert of spinlock_release passes for a held lock.                  *)
LEMMA ReleaseCheckIInv ==
    ASSUME IInv, NEW l \in Locks, ReleaseCheck(l) PROVE IInv'
<1> USE DEF IInv, TypeOK, ReleaseCheck, At, Goto, Statements
<1>0. spinlock_held(l)
    BY DEF spinlock_held, LockedIsOwned, OwnedIsHeld
<1>1. TypeOK'
    BY <1>0
<1>2. HeldMeansInterruptsOff'
    BY <1>0 DEF HeldMeansInterruptsOff, InSection, InCall
<1>3. NeverHalts' /\ CounterCountsHeld' /\ Parked' /\ OwnedIsHeld'
    BY <1>0 DEF NeverHalts, CounterCountsHeld, Parked, OwnedIsHeld
<1>4. LockedIsOwned' /\ ArgFits'
    BY <1>0 DEF LockedIsOwned, ArgFits
<1>5. IflagFits'
    BY <1>0 DEF IflagFits, InSection, InCall
<1>6. NestingFits' /\ EntryFits'
    BY <1>0 DEF NestingFits, EntryFits
<1>7. QED
    BY <1>1, <1>2, <1>3, <1>4, <1>5, <1>6

(* spinlock_release uncounts the lock it gives up.                         *)
LEMMA ReleaseDisownIInv == ASSUME IInv, ReleaseDisown PROVE IInv'
<1> USE DEF IInv, TypeOK, ReleaseDisown, At, Goto, Statements
<1> DEFINE O == {l \in Locks : owned[l]}
<1>0. /\ IsFiniteSet(O)
      /\ arg[current] \in O
      /\ {l \in Locks : owned'[l]} = O \ {arg[current]}
    BY LocksAssumption, FS_Subset DEF OwnedIsHeld, ArgFits
<1>1. /\ Cardinality(O \ {arg[current]}) = Cardinality(O) - 1
      /\ Cardinality(O \ {arg[current]}) \in Nat
    BY <1>0, RemoveOne
<1>2. TypeOK' /\ CounterCountsHeld'
    BY <1>0, <1>1 DEF CounterCountsHeld
<1>3. HeldMeansInterruptsOff'
    BY DEF HeldMeansInterruptsOff, InSection, InCall
<1>4. NeverHalts' /\ Parked' /\ OwnedIsHeld'
    BY DEF NeverHalts, Parked, OwnedIsHeld
<1>5. LockedIsOwned' /\ ArgFits'
    BY DEF LockedIsOwned, ArgFits, OwnedIsHeld
<1>6. IflagFits'
    BY DEF IflagFits, InSection, InCall
<1>7. NestingFits' /\ EntryFits'
    BY DEF NestingFits, EntryFits, ArgFits
<1>8. QED
    BY <1>2, <1>3, <1>4, <1>5, <1>6, <1>7

(* spinlock_release frees a lock that nobody owns any more.                *)
LEMMA ReleaseXchgIInv == ASSUME IInv, ReleaseXchg PROVE IInv'
<1> USE DEF IInv, TypeOK, ReleaseXchg, At, Goto, Statements
<1>1. TypeOK'
    OBVIOUS
<1>2. HeldMeansInterruptsOff'
    BY DEF HeldMeansInterruptsOff, InSection, InCall
<1>3. NeverHalts' /\ CounterCountsHeld' /\ Parked' /\ OwnedIsHeld'
    BY DEF NeverHalts, CounterCountsHeld, Parked, OwnedIsHeld
<1>4. LockedIsOwned' /\ ArgFits'
    BY DEF LockedIsOwned, ArgFits, OwnedIsHeld
<1>5. IflagFits'
    BY DEF IflagFits, InSection, InCall
<1>6. NestingFits' /\ EntryFits'
    BY DEF NestingFits, EntryFits
<1>7. QED
    BY <1>1, <1>2, <1>3, <1>4, <1>5, <1>6

(* ifx(iflag) turns interrupts on only when no lock is held.               *)
LEMMA ReleaseIfxIInv == ASSUME IInv, ReleaseIfx PROVE IInv'
<1> USE DEF IInv, TypeOK, ReleaseIfx, At, Goto, Statements
<1>1. TypeOK'
    OBVIOUS
<1>2. HeldMeansInterruptsOff'
    BY DEF HeldMeansInterruptsOff, IflagFits, NestingFits, InSection, InCall
<1>3. NeverHalts' /\ CounterCountsHeld' /\ Parked' /\ OwnedIsHeld'
    BY DEF NeverHalts, CounterCountsHeld, Parked, OwnedIsHeld
<1>4. LockedIsOwned' /\ ArgFits'
    BY DEF LockedIsOwned, ArgFits
<1>5. IflagFits'
    BY DEF IflagFits, InSection, InCall
<1>6. NestingFits' /\ EntryFits'
    BY DEF NestingFits, EntryFits
<1>7. QED
    BY <1>1, <1>2, <1>3, <1>4, <1>5, <1>6

(* thread_switch resumes a thread that holds nothing, or the same one.     *)
LEMMA RescheduleIInv ==
    ASSUME IInv, NEW t \in Threads, ~halted,
           ~InSection(current), Reschedule(t)
    PROVE  IInv'
<1> USE DEF IInv, TypeOK, Reschedule, Statements, InSection, InCall
<1>0. ~locked[ActiveLock]
    BY LocksAssumption DEF LockedIsOwned, OwnedIsHeld
<1>1. TypeOK'
    BY <1>0
<1>2. HeldMeansInterruptsOff'
    BY <1>0 DEF HeldMeansInterruptsOff
<1>3. NeverHalts' /\ CounterCountsHeld'
    BY <1>0 DEF NeverHalts, CounterCountsHeld
<1>4. Parked'
    BY <1>0 DEF Parked
<1>5. OwnedIsHeld' /\ LockedIsOwned' /\ ArgFits'
    BY <1>0 DEF Parked, OwnedIsHeld, LockedIsOwned, ArgFits
<1>6. IflagFits' /\ NestingFits'
    BY <1>0 DEF Parked, IflagFits, NestingFits
<1>7. EntryFits'
    BY <1>0 DEF EntryFits
<1>8. QED
    BY <1>1, <1>2, <1>3, <1>4, <1>5, <1>6, <1>7

(* wchan_sleep hands over with its lock released.                          *)
LEMMA WchanSleepIInv ==
    ASSUME IInv, NEW l \in Locks, NEW t \in Threads, WchanSleep(l, t)
    PROVE  IInv'
<1> USE DEF IInv, TypeOK, WchanSleep, At, Statements
<1> DEFINE O == {m \in Locks : owned[m]}
<1>0. O = {l} /\ spinlocks = 1
    <2>1. O = {l}
        BY DEF OwnedIsHeld
    <2>2. QED
        BY <2>1, FS_Singleton DEF CounterCountsHeld
<1>1. ~(spinlocks # 1 \/ ~spinlock_held(l) \/ locked[ActiveLock])
    BY <1>0, LocksAssumption DEF spinlock_held, LockedIsOwned, OwnedIsHeld
<1>a. spinlocks' = 0
    BY <1>0, <1>1
<1>2. TypeOK'
    BY <1>a, <1>1
<1>3. HeldMeansInterruptsOff'
    BY <1>1 DEF HeldMeansInterruptsOff, InSection, InCall
<1>4. CounterCountsHeld'
    <2>1. {m \in Locks : owned'[m]} = {}
        BY <1>0, <1>1
    <2>2. QED
        BY <1>a, <2>1, FS_EmptySet DEF CounterCountsHeld
<1>5. NeverHalts' /\ Parked'
    BY <1>1 DEF NeverHalts, Parked
<1>6. held'[t] = {} /\ pc'[t] \in {"run", "check", "cli"}
    BY <1>1 DEF Parked
<1>7. OwnedIsHeld' /\ LockedIsOwned' /\ ArgFits'
    BY <1>1, <1>6 DEF OwnedIsHeld, LockedIsOwned, ArgFits
<1>8. IflagFits' /\ NestingFits'
    BY <1>1, <1>6 DEF IflagFits, NestingFits, InSection, InCall
<1>b. ~intr[current]
    BY DEF HeldMeansInterruptsOff, InSection
<1>9. EntryFits'
    BY <1>1, <1>b DEF EntryFits
<1>10. QED
    BY <1>2, <1>3, <1>4, <1>5, <1>7, <1>8, <1>9

(* cli and sti outside spinlock.c.                                         *)
LEMMA SetIFIInv == ASSUME IInv, NEW b \in BOOLEAN, SetIF(b) PROVE IInv'
<1> USE DEF IInv, TypeOK, SetIF, At, Statements
<1>1. TypeOK'
    OBVIOUS
<1>2. HeldMeansInterruptsOff'
    BY DEF HeldMeansInterruptsOff, InSection, InCall
<1>3. NeverHalts' /\ CounterCountsHeld' /\ Parked' /\ OwnedIsHeld'
    BY DEF NeverHalts, CounterCountsHeld, Parked, OwnedIsHeld
<1>4. LockedIsOwned' /\ ArgFits'
    BY DEF LockedIsOwned, ArgFits
<1>5. IflagFits'
    BY DEF IflagFits, InSection, InCall
<1>6. NestingFits' /\ EntryFits'
    BY DEF NestingFits, EntryFits
<1>7. QED
    BY <1>1, <1>2, <1>3, <1>4, <1>5, <1>6

(* A tick is taken only while no spinlock is held.                         *)
LEMMA TimerTickIInv ==
    ASSUME IInv, NEW t \in Threads, TimerTick(t) PROVE IInv'
<1>1. ~InSection(current)
    BY DEF IInv, TypeOK, HeldMeansInterruptsOff, TimerTick
<1>2. QED
    BY <1>1, RescheduleIInv DEF TimerTick

(* thread_yield is called with no spinlock held.                           *)
LEMMA ThreadYieldIInv ==
    ASSUME IInv, NEW t \in Threads, ThreadYield(t) PROVE IInv'
<1>1. ~halted /\ ~InSection(current)
    BY DEF ThreadYield, At, InSection, InCall
<1>2. QED
    BY <1>1, RescheduleIInv DEF ThreadYield

(* Every step keeps the inductive invariant.                               *)
LEMMA NextIInv == IInv /\ [Next]_vars => IInv'
<1> SUFFICES ASSUME IInv, [Next]_vars PROVE IInv'
    OBVIOUS
<1>1. CASE \E l \in Locks : AcquireCheck(l) \/ ReleaseCheck(l)
    BY <1>1, AcquireCheckIInv, ReleaseCheckIInv
<1>2. CASE AcquireCli \/ AcquireXchg \/ AcquireOwn
    BY <1>2, AcquireCliIInv, AcquireXchgIInv, AcquireOwnIInv
<1>3. CASE ReleaseDisown \/ ReleaseXchg \/ ReleaseIfx
    BY <1>3, ReleaseDisownIInv, ReleaseXchgIInv, ReleaseIfxIInv
<1>4. CASE \E t \in Threads : TimerTick(t) \/ ThreadYield(t)
    BY <1>4, TimerTickIInv, ThreadYieldIInv
<1>5. CASE \E l \in Locks, t \in Threads : WchanSleep(l, t)
    BY <1>5, WchanSleepIInv
<1>6. CASE \E b \in BOOLEAN : SetIF(b)
    BY <1>6, SetIFIInv
<1>7. CASE UNCHANGED vars
    BY <1>7 DEF vars, IInv, TypeOK, HeldMeansInterruptsOff, NeverHalts,
        CounterCountsHeld, Parked, OwnedIsHeld, LockedIsOwned, ArgFits,
        IflagFits, NestingFits, EntryFits, InSection, InCall
<1>8. QED
    BY <1>1, <1>2, <1>3, <1>4, <1>5, <1>6, <1>7 DEF Next
-----------------------------------------------------------------------------
(* The inductive invariant holds in every reachable state of spinlock.c    *)
(* under preemption, for any number of threads and of locks.               *)
THEOREM SpinlockInvariant == Spec => []IInv
<1>1. QED
    BY InitIInv, NextIInv, PTL DEF Spec

(* No spinlock is ever held with interrupts on.                            *)
THEOREM InterruptsOffWhileHeld == Spec => []HeldMeansInterruptsOff
<1>1. IInv => HeldMeansInterruptsOff
    BY DEF IInv
<1>2. QED
    BY <1>1, SpinlockInvariant, PTL

(* The loop of spinlock_acquire never waits and no assert of spinlock.c or *)
(* wchan_sleep fails, and thiscpu->spinlocks counts the locks held.        *)
THEOREM SpinlocksUncontended ==
    Spec => [](NeverSpins /\ NeverHalts /\ CounterCountsHeld)
<1>1. IInv => NeverSpins
    BY DEF IInv, TypeOK, NeverSpins, LockedIsOwned, OwnedIsHeld, ArgFits
<1>2. IInv => NeverHalts /\ CounterCountsHeld
    BY DEF IInv
<1>3. QED
    BY <1>1, <1>2, SpinlockInvariant, PTL

(* A step that changes the running thread leaves every spinlock free.      *)
THEOREM CriticalSectionsAtomic == Spec => SwitchLeavesLocksFree
<1>1. ASSUME IInv, IInv', [Next]_vars, current' # current,
             NEW l \in Locks
      PROVE  ~locked'[l]
    <2>1. \/ \E t \in Threads : TimerTick(t) \/ ThreadYield(t)
          \/ \E m \in Locks, t \in Threads : WchanSleep(m, t)
        BY <1>1 DEF Next, vars, AcquireCheck, ReleaseCheck, AcquireCli,
            AcquireXchg, AcquireOwn, ReleaseDisown, ReleaseXchg, ReleaseIfx,
            SetIF, Halt
    <2>2. held[current'] = {} /\ pc[current'] \in {"run", "check", "cli"}
        BY <1>1 DEF IInv, TypeOK, Parked
    <2>3. held'[current'] = {} /\ pc'[current'] \in {"run", "check", "cli"}
        BY <1>1, <2>1, <2>2 DEF IInv, TypeOK, TimerTick, ThreadYield,
            Reschedule, WchanSleep, Halt
    <2>4. QED
        BY <1>1, <2>3 DEF IInv, OwnedIsHeld, LockedIsOwned
<1>2. IInv /\ IInv' /\ [Next]_vars
      => [current' # current => \A l \in Locks : ~locked'[l]]_vars
    BY <1>1
<1>3. QED
    BY <1>2, SpinlockInvariant, PTL DEF Spec, SwitchLeavesLocksFree

(* A section that acquired one spinlock and did not sleep gives the caller *)
(* its interrupt flag back; any other leaves interrupts off.               *)
THEOREM FlatSectionsRestoreIF == Spec => RestoresOnlyFlatSections
<1>1. ASSUME IInv, [Next]_vars, pc[current] = "ifx",
             pc'[current] = "run", held[current] = {}
      PROVE  intr'[current] = (entry[current] /\ ~nested[current])
    <2>1. ReleaseIfx
        BY <1>1 DEF Next, vars, IInv, TypeOK, At, Goto, AcquireCheck,
            ReleaseCheck, AcquireCli, AcquireXchg, AcquireOwn, ReleaseDisown,
            ReleaseXchg, TimerTick, ThreadYield, Reschedule, WchanSleep,
            SetIF, Halt
    <2>2. ~intr[current] /\ (iflag <=> entry[current] /\ ~nested[current])
        BY <1>1 DEF IInv, TypeOK, HeldMeansInterruptsOff, IflagFits,
            InSection, InCall
    <2>3. QED
        BY <1>1, <2>1, <2>2 DEF ReleaseIfx, IInv, TypeOK
<1>2. IInv /\ [Next]_vars
      => [pc[current] = "ifx" /\ pc'[current] = "run" /\ held[current] = {}
          => intr'[current] = (entry[current] /\ ~nested[current])]_vars
    BY <1>1
<1>3. QED
    BY <1>2, SpinlockInvariant, PTL DEF Spec, RestoresOnlyFlatSections
=============================================================================
