------------------------------- MODULE Sched --------------------------------
(***************************************************************************)
(* The scheduler of thread/thread.c, as the modules of the blocking        *)
(* primitives use it.  The run queue and the wait channels are the         *)
(* sequences their threadlists hold.                                       *)
(*                                                                         *)
(* Code between cli (or the first spinlock_acquire) and the end of a       *)
(* section is one step here: module Spinlock shows that no other thread    *)
(* runs inside it.                                                         *)
(***************************************************************************)
EXTENDS Naturals, Sequences, FiniteSets, Functions

CONSTANT Threads   \* the threads of the processor

ASSUME ThreadsAssumption == IsFiniteSet(Threads) /\ Threads # {}

VARIABLES
    current,   \* thisthread
    active,    \* thiscpu->active_threads
    tstate,    \* thread->state
    intr,      \* EFLAGS.IF: of the running thread, and in the others' frames
    halt       \* "no", or why the processor stopped: "cpu_idle", "assert"

schedVars == <<current, active, tstate, intr, halt>>

States == {"S_RUN", "S_READY", "S_SLEEP", "S_ZOMBIE"}

SchedTypeOK ==
    /\ current \in Threads
    /\ active \in Seq(Threads)
    /\ tstate \in [Threads -> States]
    /\ intr \in [Threads -> BOOLEAN]
    /\ halt \in {"no", "cpu_idle", "assert"}

NoDup(s) == \A i, j \in 1..Len(s) : s[i] = s[j] => i = j

(* Some thread runs; the others are ready, in some order.                  *)
SchedInit ==
    /\ current \in Threads
    /\ active \in {s \in [1..(Cardinality(Threads) - 1) -> Threads] :
                     NoDup(s) /\ Range(s) = Threads \ {current}}
    /\ tstate = [t \in Threads |-> IF t = current THEN "S_RUN" ELSE "S_READY"]
    /\ intr \in [Threads -> BOOLEAN]
    /\ halt = "no"

(* thread_make_runnable of the threads of sequence w, one after the other. *)
MakeRunnable(s, w) ==
    [t \in Threads |-> IF t \in Range(w) THEN "S_READY" ELSE s[t]]

(* The end of thread_switch: the head of run queue q is resumed.  With     *)
(* nothing to run the processor calls cpu_idle, which panics.              *)
Dispatch(q, s) ==
    /\ IF q = <<>>
       THEN /\ halt' = "cpu_idle"
            /\ tstate' = s
            /\ UNCHANGED <<current, active>>
       ELSE /\ current' = Head(q)
            /\ active' = Tail(q)
            /\ tstate' = [s EXCEPT ![Head(q)] = "S_RUN"]
            /\ UNCHANGED halt

(* Mutant: the preempted thread goes back to the head of the queue.        *)
SwitchReadyFront ==
    IF active = <<>>
    THEN UNCHANGED <<current, active, tstate, halt>>
    ELSE Dispatch(<<current>> \o active,
                  [tstate EXCEPT ![current] = "S_READY"])

(* thread_switch(S_READY): the only thread keeps the processor.            *)
SwitchReady ==
    IF active = <<>>
    THEN UNCHANGED <<current, active, tstate, halt>>
    ELSE Dispatch(Append(active, current),
                  [tstate EXCEPT ![current] = "S_READY"])

(* thread_switch(S_SLEEP) with run queue q and states s; the caller puts   *)
(* the thread on its wait channel.  The flag in the sleeper's frame is     *)
(* clear: it slept under a spinlock.                                       *)
SwitchSleep(q, s) ==
    /\ Dispatch(q, [s EXCEPT ![current] = "S_SLEEP"])
    /\ intr' = [intr EXCEPT ![current] = FALSE]

(* irq_handler_pit: a tick preempts the thread that runs with IF set.      *)
TimerTick == halt = "no" /\ intr[current] /\ SwitchReady /\ UNCHANGED intr

(* Mutant: wchan_wakeone does not make the thread it removes runnable.     *)
WokenNone(wc) == <<>>

(* The threads wchan_wakeone takes off wait channel wc, and what it leaves.*)
WokenOne(wc) == IF wc = <<>> THEN <<>> ELSE <<Head(wc)>>

AfterOne(wc) == IF wc = <<>> THEN <<>> ELSE Tail(wc)

(* Mutant: wchan_wakeall forgets the last thread of its private list.      *)
WokenButLast(wc) == IF wc = <<>> THEN <<>> ELSE SubSeq(wc, 1, Len(wc) - 1)

(* The threads wchan_wakeall takes off wait channel wc, in order.          *)
WokenAll(wc) == wc

(* thread_yield: int 48, thread_switch(S_READY), whatever IF is.           *)
Yield == SwitchReady /\ UNCHANGED intr

(* cli() or sti() of the code that calls the primitives.                   *)
SetIF(b) ==
    /\ intr' = [intr EXCEPT ![current] = b]
    /\ UNCHANGED <<current, active, tstate, halt>>
=============================================================================
