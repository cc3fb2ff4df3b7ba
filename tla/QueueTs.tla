------------------------------ MODULE QueueTs -------------------------------
(***************************************************************************)
(* klib/queue_ts.c over klib/queue.c: a queue under a lock, with a         *)
(* condition variable for the consumers that block.  The lock and the      *)
(* condition variable are those of modules Lock and CondVar; the queue is  *)
(* the sequence module List implements.                                    *)
(***************************************************************************)
EXTENDS CondVar

CONSTANT Vals   \* the elements pushed; pop_blocking leaves a NULL in place

VARIABLES qu,   \* q->qu
          op    \* what each thread is doing: "idle" outside queue_ts

qVars == <<cvVars, qu, op>>

(* queue.c, whose calls are those of the list below it.                    *)
queue_push(q, v) == Append(q, v)
queue_isempty(q) == q = <<>>
queue_front(q) == IF q = <<>> THEN NULL ELSE Head(q)
queue_pop(q) == IF q = <<>> THEN q ELSE Tail(q)

QInit ==
    /\ CvInit
    /\ qu = <<>>
    /\ op = [t \in Threads |-> "idle"]

Ops == {"push", "pop", "pop_blocking", "isempty"}

Goes(o) == op' = [op EXCEPT ![current] = o]

(* The thread in operation o has lock_acquire behind it.                   *)
Holding(o) == At("run") /\ depth[current] > 0 /\ op[current] = o

(* The first step of every operation: assert(q != NULL) and lock_acquire.  *)
Call(o) ==
    /\ op[current] = "idle"
    /\ lock_acquire
    /\ Goes(o)
    /\ UNCHANGED <<cv_wchan, qu>>

queue_ts_push ==
    /\ Holding("push")
    /\ \E v \in Vals : qu' = queue_push(qu, v)
    /\ Goes("signal")
    /\ UNCHANGED cvVars

(* Mutant: only the push into an empty queue signals.                      *)
PushSignalEmptyOnly ==
    /\ Holding("signal")
    /\ IF Len(qu) = 1 THEN cv_signal ELSE UNCHANGED cvVars
    /\ Goes("release")
    /\ UNCHANGED qu

PushSignal ==
    /\ Holding("signal")
    /\ cv_signal
    /\ Goes("release")
    /\ UNCHANGED qu

queue_ts_pop ==
    /\ Holding("pop")
    /\ qu' = IF queue_isempty(qu) THEN qu ELSE queue_pop(qu)
    /\ Goes("release")
    /\ UNCHANGED cvVars

(* queue_ts_isempty, queue_ts_getsize and queue_ts_assertvalid.            *)
queue_ts_isempty ==
    /\ Holding("isempty")
    /\ Goes("release")
    /\ UNCHANGED <<cvVars, qu>>

(* queue_ts_pop_blocking: a round of its loop, and what follows it.        *)
PopWait ==
    /\ Holding("pop_blocking")
    /\ queue_isempty(qu)
    /\ cv_wait
    /\ UNCHANGED <<qu, op>>

queue_ts_pop_blocking ==
    /\ Holding("pop_blocking")
    /\ ~queue_isempty(qu)
    /\ qu' = IF queue_front(qu) # NULL THEN queue_pop(qu) ELSE qu
    /\ Goes("release")
    /\ UNCHANGED cvVars

Return ==
    /\ Holding("release")
    /\ lock_release
    /\ Goes("idle")
    /\ UNCHANGED <<cv_wchan, qu>>

(* The rest of lock_acquire and cv_wait, ticks and yields; the callers     *)
(* turn interrupts back on, which cv_signal and cv_wait leave off.         *)
Underneath ==
    /\ \/ (AcquireAwake \/ Elsewhere) /\ UNCHANGED cv_wchan
       \/ CvAwake
       \/ /\ At("run") /\ op[current] = "idle" /\ ~intr[current]
          /\ SetIF(TRUE)
          /\ UNCHANGED <<lockVars, pc, clientVars, cv_wchan>>
    /\ UNCHANGED <<qu, op>>

QNext ==
    \/ \E o \in Ops : Call(o)
    \/ queue_ts_push \/ PushSignal
    \/ queue_ts_pop
    \/ queue_ts_isempty
    \/ PopWait \/ queue_ts_pop_blocking
    \/ Return
    \/ Underneath

QSpec == QInit /\ [][QNext]_qVars
-----------------------------------------------------------------------------
(* The consumers on their way to an element: past their wakeup, or not yet *)
(* asleep.  A producer between its push and its cv_signal will wake one.   *)
Coming == {t \in Threads : op[t] = "pop_blocking" /\ t \notin Range(cv_wchan)}
Signalling == {t \in Threads : op[t] = "signal"}

(* No signal is missed: while consumers sleep, every element in the queue  *)
(* has a consumer coming for it or a signal still to be sent, whatever     *)
(* queue_ts_pop takes away in between.                                     *)
NoMissedSignal ==
    cv_wchan # <<>> => Len(qu) <= Cardinality(Coming) + Cardinality(Signalling)

(* The processor runs out of threads only when all of them wait for an     *)
(* element of an empty queue.                                              *)
IdleOnlyWhenEmpty ==
    /\ halt # "assert"
    /\ halt = "cpu_idle" => qu = <<>> /\ Range(cv_wchan) = Threads
=============================================================================
