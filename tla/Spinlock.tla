------------------------------ MODULE Spinlock ------------------------------
(***************************************************************************)
(* synch/spinlock.c, statement by statement, on the one processor the      *)
(* kernel runs on.  Threads interleave only where the hardware lets them:  *)
(* at a timer tick while EFLAGS.IF is set, or where a thread switches      *)
(* itself out (thread_yield, wchan_sleep).                                 *)
(*                                                                         *)
(* The flag saved by spinlock_acquire lives in ONE static variable, iflag, *)
(* shared by every spinlock of the kernel and overwritten by every         *)
(* acquire, the ones nested in it and the ones of the tick handler too.    *)
(***************************************************************************)
EXTENDS Integers, FiniteSets

CONSTANTS Threads,     \* the kernel threads of the processor
          Locks,       \* the spinlocks of the kernel
          ActiveLock   \* thiscpu->active_threads_lock, taken by every switch

ASSUME ThreadsAssumption == Threads # {}
ASSUME LocksAssumption == IsFiniteSet(Locks) /\ ActiveLock \in Locks

VARIABLES
    current,    \* thisthread
    intr,       \* EFLAGS.IF: of the running thread, and in the others' frames
    iflag,      \* spinlock.c: static bool iflag
    locked,     \* lk->locked # 0
    owned,      \* lk->cpu # NULL
    spinlocks,  \* thiscpu->spinlocks
    pc,         \* the next statement of spinlock.c, "run" outside of it
    arg,        \* the argument lk of the call a thread is in
    held,       \* the locks a thread acquired and did not begin to release
    entry,      \* history: IF when the thread entered its outermost section
    nested,     \* history: since then it acquired another lock, or slept
    halted      \* an assert failed: cli, hlt

vars == <<current, intr, iflag, locked, owned, spinlocks, pc, arg, held,
          entry, nested, halted>>

Statements == {"run", "check", "cli", "xchg", "own", "disown", "unlock", "ifx"}

TypeOK ==
    /\ current \in Threads
    /\ intr \in [Threads -> BOOLEAN]
    /\ iflag \in BOOLEAN
    /\ locked \in [Locks -> BOOLEAN]
    /\ owned \in [Locks -> BOOLEAN]
    /\ spinlocks \in Nat
    /\ pc \in [Threads -> Statements]
    /\ arg \in [Threads -> Locks]
    /\ held \in [Threads -> SUBSET Locks]
    /\ entry \in [Threads -> BOOLEAN]
    /\ nested \in [Threads -> BOOLEAN]
    /\ halted \in BOOLEAN

Init ==
    /\ current \in Threads
    /\ intr \in [Threads -> BOOLEAN]
    /\ iflag = FALSE
    /\ locked = [l \in Locks |-> FALSE]
    /\ owned = [l \in Locks |-> FALSE]
    /\ spinlocks = 0
    /\ pc = [t \in Threads |-> "run"]
    /\ arg = [t \in Threads |-> ActiveLock]
    /\ held = [t \in Threads |-> {}]
    /\ entry = intr
    /\ nested = [t \in Threads |-> FALSE]
    /\ halted = FALSE

At(s) == ~halted /\ pc[current] = s

Goto(s) == pc' = [pc EXCEPT ![current] = s]

Halt == halted' = TRUE /\ UNCHANGED <<current, intr, iflag, locked, owned,
                            spinlocks, pc, arg, held, entry, nested>>

spinlock_held(l) == locked[l] /\ owned[l]
-----------------------------------------------------------------------------
(* spinlock_acquire(l). *)

(* assert(!spinlock_held(lk)), with interrupts as the caller left them.    *)
AcquireCheck(l) ==
    /\ \/ At("run") /\ l \notin held[current]
       \/ At("check") /\ l = arg[current]
    /\ IF spinlock_held(l)
       THEN Halt
       ELSE /\ Goto("cli")
            /\ arg' = [arg EXCEPT ![current] = l]
            /\ IF pc[current] = "run" /\ held[current] = {}
               THEN /\ entry' = [entry EXCEPT ![current] = intr[current]]
                    /\ nested' = [nested EXCEPT ![current] = FALSE]
               ELSE UNCHANGED <<entry, nested>>
            /\ UNCHANGED <<current, intr, iflag, locked, owned, spinlocks,
                           held, halted>>

(* Mutant: the interrupts are not disabled.                                *)
AcquireCliOpen ==
    /\ At("cli")
    /\ iflag' = intr[current]
    /\ nested' = [nested EXCEPT ![current] = @ \/ held[current] # {}]
    /\ Goto("xchg")
    /\ UNCHANGED <<current, intr, locked, owned, spinlocks, arg, held, entry,
                   halted>>

(* Mutant: the flag is computed but not stored.                            *)
AcquireCliUnsaved ==
    /\ At("cli")
    /\ intr' = [intr EXCEPT ![current] = FALSE]
    /\ nested' = [nested EXCEPT ![current] = @ \/ held[current] # {}]
    /\ Goto("xchg")
    /\ UNCHANGED <<current, iflag, locked, owned, spinlocks, arg, held, entry,
                   halted>>

(* iflag = cli()                                                           *)
AcquireCli ==
    /\ At("cli")
    /\ iflag' = intr[current]
    /\ intr' = [intr EXCEPT ![current] = FALSE]
    /\ nested' = [nested EXCEPT ![current] = @ \/ held[current] # {}]
    /\ Goto("xchg")
    /\ UNCHANGED <<current, locked, owned, spinlocks, arg, held, entry, halted>>

(* while (xchg(&lk->locked, 1) != 0): goes round while the lock is taken.  *)
AcquireXchg ==
    /\ At("xchg")
    /\ locked' = [locked EXCEPT ![arg[current]] = TRUE]
    /\ Goto(IF locked[arg[current]] THEN "xchg" ELSE "own")
    /\ UNCHANGED <<current, intr, iflag, owned, spinlocks, arg, held, entry,
                   nested, halted>>

(* lk->cpu = thiscpu; lk->cpu->spinlocks++                                 *)
AcquireOwn ==
    /\ At("own")
    /\ owned' = [owned EXCEPT ![arg[current]] = TRUE]
    /\ spinlocks' = spinlocks + 1
    /\ held' = [held EXCEPT ![current] = @ \union {arg[current]}]
    /\ Goto("run")
    /\ UNCHANGED <<current, intr, iflag, locked, arg, entry, nested, halted>>
-----------------------------------------------------------------------------
(* spinlock_release(l). *)

(* assert(spinlock_held(lk))                                               *)
ReleaseCheck(l) ==
    /\ At("run")
    /\ l \in held[current]
    /\ IF spinlock_held(l)
       THEN /\ Goto("disown")
            /\ arg' = [arg EXCEPT ![current] = l]
            /\ UNCHANGED <<current, intr, iflag, locked, owned, spinlocks,
                           held, entry, nested, halted>>
       ELSE Halt

(* lk->cpu->spinlocks--; lk->cpu = NULL                                    *)
ReleaseDisown ==
    /\ At("disown")
    /\ owned' = [owned EXCEPT ![arg[current]] = FALSE]
    /\ spinlocks' = spinlocks - 1
    /\ held' = [held EXCEPT ![current] = @ \ {arg[current]}]
    /\ Goto("unlock")
    /\ UNCHANGED <<current, intr, iflag, locked, arg, entry, nested, halted>>

(* xchg(&lk->locked, 0)                                                    *)
ReleaseXchg ==
    /\ At("unlock")
    /\ locked' = [locked EXCEPT ![arg[current]] = FALSE]
    /\ Goto("ifx")
    /\ UNCHANGED <<current, intr, iflag, owned, spinlocks, arg, held, entry,
                   nested, halted>>

(* Mutant: interrupts come back on at every release.                       *)
ReleaseSti ==
    /\ At("ifx")
    /\ intr' = [intr EXCEPT ![current] = TRUE]
    /\ Goto("run")
    /\ UNCHANGED <<current, iflag, locked, owned, spinlocks, arg, held, entry,
                   nested, halted>>

(* ifx(iflag): sti only when the flag is set, and then return.             *)
ReleaseIfx ==
    /\ At("ifx")
    /\ intr' = [intr EXCEPT ![current] = iflag \/ @]
    /\ Goto("run")
    /\ UNCHANGED <<current, iflag, locked, owned, spinlocks, arg, held, entry,
                   nested, halted>>
-----------------------------------------------------------------------------
(* The rest of the kernel, as far as it meets the spinlocks.               *)

(* thread_switch(S_READY), entered with interrupts off: it acquires        *)
(* active_threads_lock, releases it and resumes thread t.  The resumed     *)
(* thread's IF comes from its frame.  Thread t is the running thread again *)
(* when no other is ready.  Finding the lock taken, by the interrupted     *)
(* thread, it stops the machine: in the assert, or in the loop.            *)
Reschedule(t) ==
    IF locked[ActiveLock]
    THEN Halt
    ELSE /\ iflag' = FALSE
         /\ current' = t
         /\ UNCHANGED <<intr, locked, owned, spinlocks, pc, arg, held, entry,
                        nested, halted>>

(* irq_handler_pit: a tick is taken at any statement reached with IF set.  *)
TimerTick(t) == ~halted /\ intr[current] /\ Reschedule(t)

(* thread_yield, called by code that holds no spinlock.                    *)
ThreadYield(t) == At("run") /\ held[current] = {} /\ Reschedule(t)

(* wchan_sleep(wc, l), up to the acquire it ends with: thread_wait enters  *)
(* thread_switch(S_SLEEP), which acquires active_threads_lock, releases l, *)
(* releases active_threads_lock and resumes thread t.  Called by code that *)
(* holds l alone, as the sleeping functions of synch/ do.                  *)
WchanSleep(l, t) ==
    /\ At("run")
    /\ l # ActiveLock
    /\ held[current] = {l}
    /\ IF spinlocks # 1 \/ ~spinlock_held(l) \/ locked[ActiveLock]
       THEN Halt
       ELSE /\ iflag' = FALSE
            /\ locked' = [locked EXCEPT ![l] = FALSE]
            /\ owned' = [owned EXCEPT ![l] = FALSE]
            /\ spinlocks' = spinlocks - 1
            /\ held' = [held EXCEPT ![current] = {}]
            /\ pc' = [pc EXCEPT ![current] = "check"]
            /\ arg' = [arg EXCEPT ![current] = l]
            /\ nested' = [nested EXCEPT ![current] = TRUE]
            /\ current' = t
            /\ UNCHANGED <<intr, entry, halted>>

(* cli() and sti() of code outside spinlock.c (lock_acquire, thread_fork,  *)
(* thread_join, thread_start...).  sti and ifx(true) are only reached with *)
(* no spinlock held: ifx(on) undoes a cli() of the same function, and a    *)
(* cli() under a spinlock returns false.                                   *)
SetIF(b) ==
    /\ At("run")
    /\ b => held[current] = {}
    /\ intr' = [intr EXCEPT ![current] = b]
    /\ UNCHANGED <<current, iflag, locked, owned, spinlocks, pc, arg, held,
                   entry, nested, halted>>

Next ==
    \/ \E l \in Locks : AcquireCheck(l) \/ ReleaseCheck(l)
    \/ AcquireCli \/ AcquireXchg \/ AcquireOwn
    \/ ReleaseDisown \/ ReleaseXchg \/ ReleaseIfx
    \/ \E t \in Threads : TimerTick(t) \/ ThreadYield(t)
    \/ \E l \in Locks, t \in Threads : WchanSleep(l, t)
    \/ \E b \in BOOLEAN : SetIF(b)

Spec == Init /\ [][Next]_vars
-----------------------------------------------------------------------------
InCall == {"xchg", "own", "disown", "unlock", "ifx"}

InSection(t) == held[t] # {} \/ pc[t] \in InCall

(* From its first cli to the end of its last release no code that holds a  *)
(* spinlock runs with interrupts on, however the sections nest and         *)
(* whatever the shared iflag was last overwritten with: no tick can arrive *)
(* while a spinlock is held.                                               *)
HeldMeansInterruptsOff == \A t \in Threads : InSection(t) => ~intr[t]

(* The loop around xchg never goes round.  On one processor it would spin  *)
(* for ever, with interrupts off, against a holder that cannot run.        *)
NeverSpins == pc[current] = "xchg" => ~locked[arg[current]]

(* No assert of spinlock.c or wchan_sleep fails, and the tick handler and  *)
(* thread_switch find active_threads_lock free, whoever they interrupt.    *)
NeverHalts == ~halted

(* thiscpu->spinlocks counts the locks held, so the assert in wchan_sleep  *)
(* that it is 1 means what its comment says, "must not hold other          *)
(* spinlocks".                                                             *)
CounterCountsHeld == spinlocks = Cardinality({l \in Locks : owned[l]})

(* Whenever the processor changes threads every spinlock is free: a        *)
(* spinlock is never carried across a switch, so a critical section is     *)
(* atomic for the other threads.                                           *)
SwitchLeavesLocksFree ==
    [][current' # current => \A l \in Locks : ~locked'[l]]_vars

(* What the shared iflag restores.  At the end of an outermost section     *)
(* interrupts are as they were before it if the section acquired one lock  *)
(* and did not sleep; after a section that nested another acquire, or      *)
(* slept, they are OFF, even if the caller had them on.                    *)
RestoresOnlyFlatSections ==
    [][pc[current] = "ifx" /\ pc'[current] = "run" /\ held[current] = {}
       => intr'[current] = (entry[current] /\ ~nested[current])]_vars
-----------------------------------------------------------------------------
(* The inductive invariant behind these properties.                        *)

(* A thread that is not running holds no spinlock and is in no section.    *)
Parked ==
    \A t \in Threads \ {current} :
        held[t] = {} /\ pc[t] \in {"run", "check", "cli"}

(* The fields of the locks say what the running thread holds.              *)
OwnedIsHeld == \A l \in Locks : owned[l] <=> l \in held[current]

LockedIsOwned ==
    \A l \in Locks :
        locked[l] <=> \/ owned[l]
                      \/ pc[current] \in {"own", "unlock"} /\ l = arg[current]

ArgFits ==
    /\ pc[current] \in {"cli", "xchg", "own", "unlock"}
         => arg[current] \notin held[current]
    /\ pc[current] = "disown" => arg[current] \in held[current]

(* Inside a section iflag holds what the section will restore.             *)
IflagFits ==
    InSection(current) => (iflag <=> entry[current] /\ ~nested[current])

(* A section in which two locks were held at a time has nested.            *)
NestingFits ==
    /\ \A l, m \in held[current] : l # m => nested[current]
    /\ pc[current] \in {"xchg", "own", "unlock", "ifx"} /\ held[current] # {}
         => nested[current]

(* A flag that the section's first cli has not stored yet.                 *)
EntryFits ==
    \A t \in Threads :
        /\ pc[t] = "check" => nested[t] /\ ~intr[t] /\ held[t] = {}
        /\ pc[t] = "cli" /\ held[t] = {}
             => (intr[t] <=> entry[t] /\ ~nested[t])

(* What the steps of spinlock.c, of the ticks and of the switches keep     *)
(* true together; it implies the invariants above.                         *)
IInv ==
    /\ TypeOK
    /\ HeldMeansInterruptsOff
    /\ NeverHalts
    /\ CounterCountsHeld
    /\ Parked
    /\ OwnedIsHeld
    /\ LockedIsOwned
    /\ ArgFits
    /\ IflagFits
    /\ NestingFits
    /\ EntryFits
=============================================================================
