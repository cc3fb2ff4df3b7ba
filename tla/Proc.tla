-------------------------------- MODULE Proc --------------------------------
(***************************************************************************)
(* Processes and the threads in them: proc/proc.c, the parts of            *)
(* thread/thread.c that put a thread into a process and take it out, and   *)
(* the page registrar of mem/pmm.c the stacks come from.  All of it runs   *)
(* with interrupts off: thread_fork and thread_exit turn them off, and the *)
(* processes are created before kmain turns them on.  The registrar of     *)
(* pids is that of module Pidreg, here without contention: proc_program    *)
(* and proc_destroy are the boot thread's, which the lock it keeps when    *)
(* pids run out does not stop, as the holder may acquire it again.         *)
(***************************************************************************)
EXTENDS Integers, FiniteSets, Sequences, SequencesExt

CONSTANTS Threads,   \* struct threads
          Procs,     \* struct procs; the kernel's is kproc
          kproc, boot, NULL,
          NPID,
          EMPROC,    \* errno.h: a positive number, so also a pid
          NPAGES     \* the pages the registrar may take from kpalloc

PID_MIN == 1

VARIABLES
    pid,          \* proc->pid, NULL before proc_create
    threads,      \* proc->threads, a thread array
    proc,         \* thread->proc
    stack,        \* thread->stack
    pgdir,        \* proc->page_directory of a process with a program
    tlife,        \* "none", "live", "zombie" (left thread_exit)
    pmap, pid_reuse, pcounter,   \* the pid registrar
    kept,         \* pidreg_getpid returned EMPROC, its lock kept
    page_reuse, page_count,      \* the page registrar
    halt

pidVars == <<pmap, pid_reuse, pcounter, kept>>
pageVars == <<page_reuse, page_count>>
procVars == <<pid, threads, proc, stack, pgdir, tlife, pidVars, pageVars, halt>>

(* init_proc: proc_create takes pid 1 from the registrar; then the boot    *)
(* process gets pid 0.                                                     *)
Init ==
    /\ pid = [p \in Procs |-> IF p = kproc THEN 0 ELSE NULL]
    /\ threads = [p \in Procs |-> IF p = kproc THEN <<boot>> ELSE <<>>]
    /\ proc = [t \in Threads |-> IF t = boot THEN kproc ELSE NULL]
    /\ stack = [t \in Threads |-> 0]
    /\ pgdir = [p \in Procs |-> 0]
    /\ tlife = [t \in Threads |-> IF t = boot THEN "live" ELSE "none"]
    /\ pmap = {PID_MIN}
    /\ pid_reuse = <<>>
    /\ pcounter = PID_MIN + 1
    /\ kept = FALSE
    /\ page_reuse = <<>>
    /\ page_count = 0
    /\ halt = FALSE

(* Mutant: a pid given back is handed out without leaving the queue.       *)
GetPidKeeps(r) ==
    LET last == IF r.reuse # <<>> THEN Head(r.reuse) ELSE r.counter
    IN  IF r.counter >= NPID /\ r.reuse = <<>>
        THEN [r EXCEPT !.last = EMPROC, !.kept = TRUE]
        ELSE [last |-> last, map |-> r.map \union {last}, reuse |-> r.reuse,
              counter |-> IF r.reuse = <<>> THEN r.counter + 1 ELSE r.counter,
              kept |-> r.kept, failed |-> r.failed \/ last \in r.map]

(* pidreg_getpid on registrar r: the pid it returns as last, and the       *)
(* registrar after it.  With no pid left it returns EMPROC, the lock kept, *)
(* and the assert that the pid is unmarked may fail.                       *)
GetPid(r) ==
    LET last == IF r.reuse # <<>> THEN Head(r.reuse) ELSE r.counter
    IN  IF r.counter >= NPID /\ r.reuse = <<>>
        THEN [r EXCEPT !.last = EMPROC, !.kept = TRUE]
        ELSE [last |-> last, map |-> r.map \union {last},
              reuse |-> IF r.reuse = <<>> THEN <<>> ELSE Tail(r.reuse),
              counter |-> IF r.reuse = <<>> THEN r.counter + 1 ELSE r.counter,
              kept |-> r.kept, failed |-> r.failed \/ last \in r.map]

(* proc_create stores what pidreg_getpid returns, unchecked.               *)
proc_create(r) == GetPid(r)

(* Mutant: the array keeps the thread that leaves.                         *)
RemoveNone(ts, i) == ts

(* threadarray_remove.                                                     *)
ArrayRemove(ts, i) == RemoveAt(ts, i)

(* Mutant: a page given back is used again without being taken off.        *)
PageGetKeeps(r) ==
    IF r.reuse # <<>>
    THEN [r EXCEPT !.last = Head(r.reuse)]
    ELSE [r EXCEPT !.last = r.count + 1, !.count = @ + 1,
                   !.failed = @ \/ r.count >= NPAGES]

(* page_get on registrar r, in the same way; new pages are numbered from   *)
(* 1.  It panics when no page is left.                                     *)
page_get(r) ==
    IF r.reuse # <<>>
    THEN [r EXCEPT !.last = Head(r.reuse), !.reuse = Tail(@)]
    ELSE [r EXCEPT !.last = r.count + 1, !.count = @ + 1,
                   !.failed = @ \/ r.count >= NPAGES]

PidRegistrar == [last |-> NULL, map |-> pmap, reuse |-> pid_reuse,
                 counter |-> pcounter, kept |-> kept, failed |-> FALSE]
PageRegistrar == [last |-> NULL, reuse |-> page_reuse, count |-> page_count,
                  failed |-> FALSE]

(* A panic or a failing assert: the machine stops as it is.                *)
Panic == halt' = TRUE /\ UNCHANGED <<pid, threads, proc, stack, pgdir, tlife, pidVars, pageVars>>

(* thread_fork of thread t into process p, its stack from registrar r:     *)
(* proc_addthread asserts that the thread is in no process.                *)
Fork(p, t, r) ==
    /\ stack' = [stack EXCEPT ![t] = r.last]
    /\ page_reuse' = r.reuse
    /\ page_count' = r.count
    /\ halt' = (proc[t] # NULL)
    /\ threads' = [threads EXCEPT ![p] = Append(@, t)]
    /\ proc' = [proc EXCEPT ![t] = p]
    /\ tlife' = [tlife EXCEPT ![t] = "live"]

(* thread_fork by a live thread, into its own process.                     *)
thread_fork(t, u) ==
    /\ ~halt /\ tlife[t] = "live" /\ tlife[u] = "none"
    /\ LET r == page_get(PageRegistrar)
       IN  IF r.failed
           THEN Panic
           ELSE Fork(proc[t], u, r) /\ UNCHANGED <<pid, pgdir, pidVars>>

(* proc_program: proc_create takes a pid, unchecked; pgdir_create takes a  *)
(* page; a second pidreg_getpid, unchecked too, overwrites the pid;        *)
(* load_icode forks the first thread.                                      *)
proc_program(p, t) ==
    /\ ~halt /\ pid[p] = NULL /\ tlife[t] = "none"
    /\ LET r == GetPid(proc_create(PidRegistrar))
           directory == page_get(PageRegistrar)
           s == page_get(directory)
       IN  IF r.failed \/ s.failed
           THEN Panic
           ELSE /\ pid' = [pid EXCEPT ![p] = r.last]
                /\ pmap' = r.map
                /\ pid_reuse' = r.reuse
                /\ pcounter' = r.counter
                /\ kept' = r.kept
                /\ pgdir' = [pgdir EXCEPT ![p] = directory.last]
                /\ Fork(p, t, s)

(* proc_destroy, of a process whose threads are gone, as the assert in     *)
(* threadarray_cleanup requires.  pidreg_returnpid asserts that the pid is *)
(* in use; the page directory is not given back.                           *)
proc_destroy(p) ==
    /\ ~halt /\ p # kproc /\ pid[p] # NULL /\ threads[p] = <<>>
    /\ IF pid[p] < pcounter /\ pid[p] \in pmap
       THEN /\ pmap' = pmap \ {pid[p]}
            /\ pid_reuse' = Append(pid_reuse, pid[p])
            /\ pid' = [pid EXCEPT ![p] = NULL]
            /\ pgdir' = [pgdir EXCEPT ![p] = 0]
            /\ UNCHANGED <<threads, proc, stack, tlife, pcounter, kept, pageVars, halt>>
       ELSE Panic

(* thread_exit: proc_remthread looks the thread up in its process and      *)
(* panics if it is not there.  thread_checkstack never stops it: its       *)
(* asserts assign the guard words of the stack instead of comparing them.  *)
thread_exit(t) ==
    /\ ~halt /\ tlife[t] = "live" /\ t # boot
    /\ LET ts == threads[proc[t]]
           at == {i \in 1..Len(ts) : ts[i] = t}
       IN  IF at = {}
           THEN halt' = TRUE /\ UNCHANGED <<threads, proc, tlife>>
           ELSE /\ threads' = [threads EXCEPT ![proc[t]] =
                                 ArrayRemove(@, CHOOSE i \in at : \A j \in at : i <= j)]
                /\ proc' = [proc EXCEPT ![t] = NULL]
                /\ tlife' = [tlife EXCEPT ![t] = "zombie"]
                /\ UNCHANGED halt
    /\ UNCHANGED <<pid, stack, pgdir, pidVars, pageVars>>

(* thread_destroy of a zombie: the stack goes back to the registrar.       *)
thread_destroy(t) ==
    /\ ~halt /\ tlife[t] = "zombie"
    /\ halt' = (proc[t] # NULL)
    /\ page_reuse' = Append(page_reuse, stack[t])
    /\ stack' = [stack EXCEPT ![t] = 0]
    /\ tlife' = [tlife EXCEPT ![t] = "none"]
    /\ UNCHANGED <<pid, threads, proc, pgdir, pidVars, page_count>>

Next ==
    \/ \E t, u \in Threads : thread_fork(t, u)
    \/ \E p \in Procs, t \in Threads : proc_program(p, t)
    \/ \E p \in Procs : proc_destroy(p)
    \/ \E t \in Threads : thread_exit(t) \/ thread_destroy(t)

Spec == Init /\ [][Next]_procVars
-----------------------------------------------------------------------------
(* thread->proc and the array of the process agree: a thread is in the     *)
(* array of its process, once, and in no other, so proc_remthread's panic  *)
(* "has escaped from its process" and the asserts on t->proc never happen; *)
(* the machine stops only out of pages, or once EMPROC went out as a pid.  *)
MembersAgree ==
    /\ \A p \in Procs : \A t \in Threads :
          Cardinality({i \in 1..Len(threads[p]) : threads[p][i] = t})
            = (IF proc[t] = p THEN 1 ELSE 0)
    /\ halt => kept \/ NPAGES - page_count + Len(page_reuse) < 2

(* Threads that are not destroyed yet have stacks of their own, which are  *)
(* not the page directory of a process, and none of these pages is queued  *)
(* for reuse: a zombie still stands on its stack.                          *)
StacksApart ==
    LET stacked == {t \in Threads \ {boot} : tlife[t] # "none"}
        mapped == {p \in Procs : pgdir[p] # 0}
    IN  /\ \A t, u \in stacked : stack[t] = stack[u] => t = u
        /\ \A p, q \in mapped : pgdir[p] = pgdir[q] => p = q
        /\ \A t \in stacked, p \in mapped : stack[t] # pgdir[p]
        /\ \A i \in DOMAIN page_reuse :
              /\ \A t \in stacked : page_reuse[i] # stack[t]
              /\ \A p \in mapped : page_reuse[i] # pgdir[p]

(* Processes have different pids, marked in the registrar, and pid 0 is    *)
(* that of the boot process.  The exception is exact: proc_create and      *)
(* proc_program store what pidreg_getpid returns, so once it has returned  *)
(* EMPROC that one number may be the pid of two processes, or of one whose *)
(* pid was given back by the other.                                        *)
PidsApart ==
    /\ pid[kproc] = 0
    /\ \A p \in Procs \ {kproc} : pid[p] # NULL /\ (kept => pid[p] # EMPROC) =>
          /\ pid[p] \in pmap
          /\ \A q \in Procs : pid[q] = pid[p] => p = q
=============================================================================
