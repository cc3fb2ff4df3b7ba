------------------------------- MODULE Thread -------------------------------
(***************************************************************************)
(* The life of threads in thread/thread.c: thread_fork, thread_start,      *)
(* thread_join, thread_exit, thread_exorcise and thread_destroy, with the  *)
(* ticks and yields that interleave them.  Threads stands for the memory   *)
(* blocks thread structures are allocated in: a block is used again after  *)
(* thread_destroy.                                                         *)
(***************************************************************************)
EXTENDS Sched

CONSTANTS NULL,        \* the null pointer
          Boot,        \* bootthread: kmain's prompt loop, which never exits
          SelfJoin     \* whether threads also try to join themselves

ASSUME ThreadAssumption ==
    /\ NULL \notin Threads
    /\ Boot \in Threads
    /\ SelfJoin \in BOOLEAN

VARIABLES
    live,      \* the blocks that hold a thread structure
    zombies,   \* thiscpu->zombie_threads
    parent,    \* thread->parent
    psem,      \* *thread->psem, or NULL
    csem,      \* *thread->csem, or NULL
    rval,      \* thread->rval
    pc,        \* where a thread is: see TypeOK
    kids,      \* the handles from thread_out a thread has not yet joined
    target,    \* the argument of the thread_join a thread sleeps in, or NULL
    on,        \* the local flag of that thread_join, or TRUE
    ret        \* what a thread's last thread_join passed back

joinVars == <<parent, psem, csem, rval>>
handleVars == <<kids, target, on, ret>>
vars == <<schedVars, live, zombies, joinVars, pc, handleVars>>

Semaphores == [count : Nat, wc : Seq(Threads)]

(* A thread is about to enter thread_start, in its entrypoint, in the P of *)
(* thread_join or of thread_exit, or has left the processor for good.      *)
TypeOK ==
    /\ SchedTypeOK
    /\ live \in SUBSET Threads
    /\ zombies \in Seq(Threads)
    /\ parent \in [Threads -> Threads \union {NULL}]
    /\ psem \in [Threads -> Semaphores \union {NULL}]
    /\ csem \in [Threads -> Semaphores \union {NULL}]
    /\ rval \in [Threads -> {"unset", "exit value"}]
    /\ pc \in [Threads -> {"start", "body", "join", "exit", "gone"}]
    /\ kids \in [Threads -> SUBSET Threads]
    /\ target \in [Threads -> Threads \union {NULL}]
    /\ on \in [Threads -> BOOLEAN]
    /\ ret \in [Threads -> {"none", "unset", "exit value"}]

Init ==
    /\ current = Boot
    /\ active = <<>>
    /\ tstate = [t \in Threads |-> IF t = Boot THEN "S_RUN" ELSE "S_READY"]
    /\ intr = [t \in Threads |-> t = Boot]
    /\ halt = "no"
    /\ live = {Boot}
    /\ zombies = <<>>
    /\ parent = [t \in Threads |-> NULL]
    /\ psem = [t \in Threads |-> NULL]
    /\ csem = [t \in Threads |-> NULL]
    /\ rval = [t \in Threads |-> "unset"]
    /\ pc = [t \in Threads |-> IF t = Boot THEN "body" ELSE "gone"]
    /\ kids = [t \in Threads |-> {}]
    /\ target = [t \in Threads |-> NULL]
    /\ on = [t \in Threads |-> TRUE]
    /\ ret = [t \in Threads |-> "none"]

At(s) == halt = "no" /\ pc[current] = s

(* semaphore_create(name, 0); P when the count allows it; P that sleeps;   *)
(* V, which takes the threads WokenOne(sem.wc) off the channel.            *)
NewSemaphore == [count |-> 0, wc |-> <<>>]
Down(sem) == [sem EXCEPT !.count = @ - 1]
Wait(sem) == [sem EXCEPT !.wc = Append(@, current)]
Up(sem) == [count |-> sem.count + 1, wc |-> AfterOne(sem.wc)]
-----------------------------------------------------------------------------
(* Mutant: thread_exorcise finds no zombies.                               *)
ExorciseSkipped == UNCHANGED <<live, zombies>>

(* thread_exorcise: thread_destroy of every zombie.                        *)
Exorcise ==
    /\ live' = live \ Range(zombies)
    /\ zombies' = <<>>

(* thread_fork.  The new thread's frame has IF clear.  Without memory      *)
(* kmalloc panics, so the ENOMEM returns are not reached.                  *)
thread_fork(joinable) ==
    /\ At("body")
    /\ \E c \in Threads \ live :
         /\ live' = live \union {c}
         /\ active' = Append(active, c)
         /\ tstate' = [tstate EXCEPT ![c] = "S_READY"]
         /\ intr' = [intr EXCEPT ![c] = FALSE]
         /\ rval' = [rval EXCEPT ![c] = "unset"]
         /\ parent' = [parent EXCEPT ![c] = IF joinable THEN current ELSE NULL]
         /\ psem' = [psem EXCEPT ![c] = IF joinable THEN NewSemaphore ELSE NULL]
         /\ csem' = [csem EXCEPT ![c] = IF joinable THEN NewSemaphore ELSE NULL]
         /\ pc' = [pc EXCEPT ![c] = "start"]
         /\ kids' = [kids EXCEPT ![current] = IF joinable THEN @ \union {c}
                                                          ELSE @]
    /\ UNCHANGED <<current, halt, zombies, target, on, ret>>

(* thread_start, up to the call of the entrypoint.                         *)
thread_start ==
    /\ At("start")
    /\ Exorcise
    /\ intr' = [intr EXCEPT ![current] = TRUE]
    /\ pc' = [pc EXCEPT ![current] = "body"]
    /\ UNCHANGED <<current, active, tstate, halt, joinVars, handleVars>>
-----------------------------------------------------------------------------
(* Mutant: P takes the unit without looking whether there is one.          *)
JoinLoopUnchecked(c, flag) ==
    /\ psem' = [psem EXCEPT ![c] = Down(@)]
    /\ csem' = [csem EXCEPT ![c] = Up(@)]
    /\ active' = active \o WokenOne(csem[c].wc)
    /\ tstate' = MakeRunnable(tstate, WokenOne(csem[c].wc))
    /\ ret' = [ret EXCEPT ![current] = rval[c]]
    /\ parent' = [parent EXCEPT ![c] = NULL]
    /\ kids' = [kids EXCEPT ![current] = @ \ {c}]
    /\ intr' = [intr EXCEPT ![current] = flag]
    /\ pc' = [pc EXCEPT ![current] = "body"]
    /\ UNCHANGED <<current, halt, target, on>>

(* One round of P(thread->psem) in thread_join and what follows it.        *)
JoinLoop(c, flag) ==
    IF psem[c].count = 0
    THEN /\ psem' = [psem EXCEPT ![c] = Wait(@)]
         /\ pc' = [pc EXCEPT ![current] = "join"]
         /\ target' = [target EXCEPT ![current] = c]
         /\ on' = [on EXCEPT ![current] = flag]
         /\ SwitchSleep(active, tstate)
         /\ UNCHANGED <<csem, parent, kids, ret>>
    ELSE /\ psem' = [psem EXCEPT ![c] = Down(@)]
         /\ csem' = [csem EXCEPT ![c] = Up(@)]
         /\ active' = active \o WokenOne(csem[c].wc)
         /\ tstate' = MakeRunnable(tstate, WokenOne(csem[c].wc))
         /\ ret' = [ret EXCEPT ![current] = rval[c]]
         /\ parent' = [parent EXCEPT ![c] = NULL]
         /\ kids' = [kids EXCEPT ![current] = @ \ {c}]
         /\ intr' = [intr EXCEPT ![current] = flag]
         /\ pc' = [pc EXCEPT ![current] = "body"]
         /\ target' = [target EXCEPT ![current] = NULL]
         /\ on' = [on EXCEPT ![current] = TRUE]
         /\ UNCHANGED <<current, halt>>

(* thread_join, called with a handle thread_fork gave to this thread.      *)
thread_join ==
    /\ At("body")
    /\ \E c \in kids[current] : JoinLoop(c, intr[current])
    /\ UNCHANGED <<live, zombies, rval>>

(* thread_join, back from the sleep in P.                                  *)
JoinAwake ==
    /\ At("join")
    /\ JoinLoop(target[current], on[current])
    /\ UNCHANGED <<live, zombies, rval>>

(* thread_join of the calling thread: EDEADLK, with interrupts off.        *)
JoinSelf ==
    /\ SelfJoin
    /\ At("body")
    /\ parent[current] # NULL
    /\ intr' = [intr EXCEPT ![current] = FALSE]
    /\ UNCHANGED <<current, active, tstate, halt, live, zombies, joinVars, pc,
                   handleVars>>
-----------------------------------------------------------------------------
(* An assert fails, and the machine stops.                                 *)
Halts ==
    /\ halt' = "assert"
    /\ UNCHANGED <<current, active, tstate, intr, live, zombies, parent, psem,
                   csem, pc, handleVars>>

Unused(sem) == sem = NULL \/ sem.wc = <<>>

(* Mutant: the thread joins the zombies before it destroys them.           *)
ExitFinishLate(q, s, ps) ==
    /\ psem' = [ps EXCEPT ![current] = NULL]
    /\ csem' = [csem EXCEPT ![current] = NULL]
    /\ parent' = [parent EXCEPT ![current] = NULL]
    /\ live' = live \ Range(Append(zombies, current))
    /\ zombies' = <<>>
    /\ Dispatch(q, [s EXCEPT ![current] = "S_ZOMBIE"])
    /\ intr' = [intr EXCEPT ![current] = FALSE]
    /\ pc' = [pc EXCEPT ![current] = "gone"]
    /\ kids' = [kids EXCEPT ![current] = {}]
    /\ ret' = [ret EXCEPT ![current] = "none"]
    /\ UNCHANGED <<target, on>>

(* The end of thread_exit: the semaphores, unused by now, are destroyed;   *)
(* thread_switch(S_ZOMBIE) destroys the older zombies and joins the list.  *)
ExitFinish(q, s, ps) ==
    IF Unused(ps[current]) /\ Unused(csem[current])
    THEN /\ psem' = [ps EXCEPT ![current] = NULL]
         /\ csem' = [csem EXCEPT ![current] = NULL]
         /\ parent' = [parent EXCEPT ![current] = NULL]
         /\ live' = live \ Range(zombies)
         /\ zombies' = <<current>>
         /\ Dispatch(q, [s EXCEPT ![current] = "S_ZOMBIE"])
         /\ intr' = [intr EXCEPT ![current] = FALSE]
         /\ pc' = [pc EXCEPT ![current] = "gone"]
         /\ kids' = [kids EXCEPT ![current] = {}]
         /\ ret' = [ret EXCEPT ![current] = "none"]
         /\ UNCHANGED <<target, on>>
    ELSE Halts

(* Mutant: thread_exit does not wait for the parent.                       *)
ExitLoopNoWait(q, s, ps) == ExitFinish(q, s, ps)

(* One round of P(thisthread->csem) in thread_exit and what follows it,    *)
(* with run queue q, states s and semaphores ps.                           *)
ExitLoop(q, s, ps) ==
    IF csem[current].count = 0
    THEN /\ psem' = ps
         /\ csem' = [csem EXCEPT ![current] = Wait(@)]
         /\ pc' = [pc EXCEPT ![current] = "exit"]
         /\ SwitchSleep(q, s)
         /\ UNCHANGED <<live, zombies, parent, handleVars>>
    ELSE ExitFinish(q, s, ps)

(* thread_exit, called by thread_start behind its cli: V(psem) lets a      *)
(* parent in thread_join go on.  A detached thread is done at once.        *)
thread_exit ==
    LET woken == WokenOne(psem[current].wc)
    IN  /\ At("body")
        /\ current # Boot
        /\ rval' = [rval EXCEPT ![current] = "exit value"]
        /\ IF parent[current] = NULL
           THEN ExitFinish(active, tstate, psem)
           ELSE ExitLoop(active \o woken, MakeRunnable(tstate, woken),
                         [psem EXCEPT ![current] = Up(@)])

(* thread_exit, back from the sleep in P.                                  *)
ExitAwake ==
    /\ At("exit")
    /\ ExitLoop(active, tstate, psem)
    /\ UNCHANGED rval

(* Ticks and yields; thread_switch destroys the zombies first.             *)
Reschedule ==
    /\ TimerTick \/ (At("body") /\ Yield)
    /\ Exorcise
    /\ UNCHANGED <<joinVars, pc, handleVars>>

Next ==
    \/ \E joinable \in BOOLEAN : thread_fork(joinable)
    \/ thread_start
    \/ thread_join
    \/ JoinAwake
    \/ JoinSelf
    \/ thread_exit
    \/ ExitAwake
    \/ Reschedule

Spec == Init /\ [][Next]_vars

(* The timer keeps ticking while interrupts are on, and a thread that gets *)
(* the processor again and again leaves thread_start, P and the rest of    *)
(* thread_join and thread_exit.                                            *)
Fairness ==
    /\ WF_vars(Reschedule /\ TimerTick)
    /\ \A t \in Threads :
         SF_vars(current = t /\ (thread_start \/ JoinAwake \/ ExitAwake))

FairSpec == Spec /\ Fairness
-----------------------------------------------------------------------------
(* The waiters on the semaphores of thread t.                              *)
Waiting(sem) == IF sem = NULL THEN {} ELSE Range(sem.wc)

Asleep == UNION {Waiting(psem[t]) \union Waiting(csem[t]) : t \in Threads}

(* Every allocated thread is in one place, and its state says which: what  *)
(* the asserts of thread_destroy and thread_exorcise rely on.              *)
OnePlace ==
    LET listed == <<current>> \o active \o zombies
    IN  halt = "no" =>
          /\ TypeOK
          /\ NoDup(listed)
          /\ Range(listed) \intersect Asleep = {}
          /\ Range(listed) \union Asleep = live
          /\ \A t \in live :
               tstate[t] = CASE t = current -> "S_RUN"
                             [] t \in Range(active) -> "S_READY"
                             [] t \in Range(zombies) -> "S_ZOMBIE"
                             [] OTHER -> "S_SLEEP"

(* A handle thread_fork passed back stays valid until it is joined: the    *)
(* child is still allocated, with its semaphores, and is still the child   *)
(* of the thread that holds the handle, however its block was used before. *)
HandlesStayValid ==
    \A p \in live : \A c \in kids[p] :
        c \in live /\ parent[c] = p /\ psem[c] # NULL /\ csem[c] # NULL

(* thread_join passes back the value the child gave to thread_exit, never  *)
(* the -1 of thread_create.                                                *)
JoinGetsExitValue == \A t \in Threads : ret[t] # "unset"

(* Fork, join and exit never stop the machine: no assert fails (joined     *)
(* semaphores are unused when destroyed), and cpu_idle is not reached:     *)
(* while threads wait for one another in thread_join some thread can run.  *)
NeverHalts == halt = "no"

(* No thread's structure and stack are freed while it runs on them.        *)
NotFreedWhileRunning == [][{current} \subseteq live']_vars

(* A thread whose child is in thread_exit returns from thread_join.        *)
JoinReturns ==
    \A t \in Threads :
        pc[t] = "join" /\ rval[target[t]] # "unset" ~> pc[t] = "body"

(* Every zombie is destroyed.                                              *)
ZombiesReaped == \A t \in Threads : t \in Range(zombies) ~> t \notin live
=============================================================================
