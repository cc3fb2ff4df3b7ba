------------------------------- MODULE Pidreg -------------------------------
(***************************************************************************)
(* proc/pidreg.c: the registrar of process identifiers, used by threads    *)
(* that create and destroy processes (proc_create and proc_destroy are its *)
(* only callers).  Its recursive lock is that of module Lock; the locks of *)
(* its bitmap_ts and its queue_ts are only taken below it and never        *)
(* contended, so what is done under it is one step.                        *)
(***************************************************************************)
EXTENDS Lock

CONSTANTS NPID,     \* the number of pids, 0 included
          EMPROC,   \* the error code, a small positive number
          Hold      \* bound: the processes a thread keeps at a time

PID_MIN == 1

PidregAssumption == EMPROC \in PID_MIN..(NPID - 1) /\ Hold \in Nat

VARIABLES pmap,        \* the pids marked in kpidreg->pmap
          pid_reuse,   \* kpidreg->pid_reuse
          pcounter,    \* kpidreg->pcounter
          op,          \* the pidreg function each thread is in, or "idle"
          pid,         \* the argument or the result of that call
          held         \* the pids of the processes each thread created

regVars == <<pmap, pid_reuse, pcounter>>
pVars == <<vars, regVars, op, pid, held>>

PInit ==
    /\ Init
    /\ intr = [t \in Threads |-> TRUE]
    /\ pmap = {}
    /\ pid_reuse = <<>>
    /\ pcounter = PID_MIN
    /\ op = [t \in Threads |-> "idle"]
    /\ pid = [t \in Threads |-> 0]
    /\ held = [t \in Threads |-> <<>>]

Holding(o) == At("run") /\ lk_owner = current /\ op[current] = o

Goes(o) == op' = [op EXCEPT ![current] = o]

(* lock_acquire; calls is 1 for the first one of a call of the registrar,  *)
(* of which each thread makes at most Rounds.                              *)
Acquire(calls) ==
    /\ At("run")
    /\ left[current] >= calls
    /\ left' = [left EXCEPT ![current] = @ - calls]
    /\ iflag' = [iflag EXCEPT ![current] = intr[current]]
    /\ AcquireLoop(intr[current])
    /\ UNCHANGED <<if0, regVars>>

(* bitmap_ts_mark and queue_ts_push end in a cv_signal, which leaves       *)
(* interrupts off.                                                         *)
IntrOff ==
    /\ intr' = [intr EXCEPT ![current] = FALSE]
    /\ UNCHANGED <<current, active, tstate, lockVars, pc, clientVars>>

pid_available == pcounter < NPID \/ pid_reuse # <<>>

(* proc_create calls pidreg_getpid.                                        *)
CallGet ==
    /\ op[current] = "idle"
    /\ Len(held[current]) < Hold
    /\ Acquire(1)
    /\ Goes("getpid")
    /\ UNCHANGED <<pid, held>>

(* The next pid, and the queue and the counter without it.                 *)
TakePid ==
    IF pid_reuse # <<>>
    THEN <<Head(pid_reuse), Tail(pid_reuse), pcounter>>
    ELSE <<pcounter, pid_reuse, pcounter + 1>>

pidreg_getpid ==
    /\ Holding("getpid")
    /\ pid_available
    /\ pid' = [pid EXCEPT ![current] = TakePid[1]]
    /\ pid_reuse' = TakePid[2]
    /\ pcounter' = TakePid[3]
    /\ Assert(TakePid[1] \notin pmap)
    /\ pmap' = pmap \union {TakePid[1]}
    /\ Goes("got")
    /\ IntrOff
    /\ UNCHANGED held

(* pidreg_getpid fails: the error code is what proc_create takes for the   *)
(* pid, and the lock is not released.                                      *)
GetFails ==
    /\ Holding("getpid")
    /\ ~pid_available
    /\ held' = [held EXCEPT ![current] = Append(@, EMPROC)]
    /\ Goes("idle")
    /\ UNCHANGED <<vars, regVars, pid>>

GetReturns ==
    /\ Holding("got")
    /\ lock_release
    /\ held' = [held EXCEPT ![current] = Append(@, pid[current])]
    /\ Goes("idle")
    /\ UNCHANGED <<regVars, pid>>

(* proc_destroy calls pidreg_returnpid, which calls pid_used.              *)
CallReturn ==
    /\ op[current] = "idle"
    /\ \E i \in 1..Len(held[current]) :
          /\ pid' = [pid EXCEPT ![current] = held[current][i]]
          /\ held' = [held EXCEPT ![current] = SubSeq(@, 1, i - 1)
                                              \o SubSeq(@, i + 1, Len(@))]
    /\ Acquire(1)
    /\ Goes("pid_used")

(* Mutant: a pid is used only when it is below the last one handed out.    *)
UsedBelowLast(p) == p < pcounter - 1 /\ p \in pmap

(* The result of pid_used.                                                 *)
IsUsed(p) == p < pcounter /\ p \in pmap

(* pid_used looks under the lock; the assert of pidreg_returnpid on what   *)
(* it saw comes when another thread may have the lock already.             *)
pid_used ==
    /\ Holding("pid_used")
    /\ lock_release
    /\ Goes(IF pid[current] < NPID /\ IsUsed(pid[current])
            THEN "used" ELSE "unused")
    /\ UNCHANGED <<regVars, pid, held>>

AssertUsed ==
    /\ At("run") /\ op[current] = "unused"
    /\ halt' = "assert"
    /\ UNCHANGED <<current, active, tstate, intr, lockVars, pc, clientVars,
                   regVars, op, pid, held>>

AcquireAgain ==
    /\ op[current] = "used"
    /\ Acquire(0)
    /\ Goes("return")
    /\ UNCHANGED <<pid, held>>

(* Mutant: the pid is not queued for reuse.                                *)
ReturnNotQueued ==
    /\ Holding("return")
    /\ pmap' = pmap \ {pid[current]}
    /\ Goes("returned")
    /\ IntrOff
    /\ UNCHANGED <<halt, pid_reuse, pcounter, pid, held>>

pidreg_returnpid ==
    /\ Holding("return")
    /\ pmap' = pmap \ {pid[current]}
    /\ pid_reuse' = Append(pid_reuse, pid[current])
    /\ Goes("returned")
    /\ IntrOff
    /\ UNCHANGED <<halt, pcounter, pid, held>>

ReturnReturns ==
    /\ Holding("returned")
    /\ lock_release
    /\ Goes("idle")
    /\ UNCHANGED <<regVars, pid, held>>

(* The rest of lock_acquire, ticks and yields; the callers turn interrupts *)
(* back on.                                                                *)
Underneath ==
    /\ \/ AcquireAwake
       \/ Elsewhere
       \/ /\ At("run") /\ op[current] = "idle" /\ ~intr[current]
          /\ SetIF(TRUE)
          /\ UNCHANGED <<lockVars, pc, clientVars>>
    /\ UNCHANGED <<regVars, op, pid, held>>

InCall ==
    \/ pidreg_getpid \/ GetFails \/ GetReturns
    \/ pid_used \/ AssertUsed \/ AcquireAgain
    \/ pidreg_returnpid \/ ReturnReturns

PNext == CallGet \/ CallReturn \/ InCall \/ Underneath

PSpec == PInit /\ [][PNext]_pVars

(* A thread that gets the processor again and again gets on with the call  *)
(* it is in, and outside turns interrupts back on.  A tick that comes with *)
(* interrupts off is pending until they are on, so ticks are not missed by *)
(* a thread that turns them on only briefly.                               *)
PFairSpec ==
    /\ PSpec
    /\ SF_pVars(TimerTick /\ Underneath)
    /\ \A t \in Threads :
          /\ SF_pVars(current = t /\ InCall)
          /\ SF_pVars(current = t /\ AcquireAwake /\ Underneath)
          /\ SF_pVars(current = t /\ op[t] = "idle" /\ Underneath)
-----------------------------------------------------------------------------

(* Between calls every pid below the counter is marked as in use or queued *)
(* for reuse, once, and pid 0 is neither.                                  *)
RegistryExact ==
    (\A t \in Threads : op[t] \notin {"got", "returned"}) /\ halt = "no" =>
        /\ pmap \union Range(pid_reuse) = PID_MIN..(pcounter - 1)
        /\ pmap \intersect Range(pid_reuse) = {}
        /\ Cardinality(Range(pid_reuse)) = Len(pid_reuse)
        /\ pcounter <= NPID

(* No assert of pidreg.c fails for callers that give back what they got,   *)
(* although the check of pid_used and the return are separate sections, as *)
(* long as there are pids left.                                            *)
PidregNeverHalts == pcounter < NPID => halt # "assert"

(* pidreg_returnpid "makes a pid available again to the system", also when *)
(* another thread found none left.                                         *)
ReturnCompletes ==
    \A t \in Threads : op[t] \in {"pid_used", "used", "return"} ~> op[t] = "idle"
=============================================================================
