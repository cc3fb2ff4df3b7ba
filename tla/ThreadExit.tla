----------------------------- MODULE ThreadExit -----------------------------
(***************************************************************************)
(* Thread, with entrypoints that call thread_exit themselves instead of    *)
(* returning to thread_start, which turns interrupts off first.            *)
(***************************************************************************)
EXTENDS Thread

(* thread_exit, called with interrupts on: its first assert fails.         *)
ExitWithIF ==
    /\ At("body")
    /\ current # Boot
    /\ intr[current]
    /\ Halts
    /\ UNCHANGED rval

ExitNext == Next \/ ExitWithIF

ExitSpec == Init /\ [][ExitNext]_vars

(* thread.h:100-103, of thread_exit: "Interrupts need not be disabled."    *)
ExitNeedsNoCli == halt # "assert"
=============================================================================
