------------------------------ MODULE MCKernel ------------------------------
(***************************************************************************)
(* The memory, process, device and interrupt parts of the kernel and the   *)
(* clients of its locks for TLC.  As in MCKlib, the initial state picks    *)
(* one component, which then runs by itself in the variables x1, x2, ...;  *)
(* the rest of them stay 0.                                                *)
(***************************************************************************)
EXTENDS Integers, Sequences, FiniteSets

CONSTANTS boot, t1, t2, t3, kproc, p1, p2, v1, null

VARIABLES component,
          x1, x2, x3, x4, x5, x6, x7, x8, x9, x10, x11, x12, x13, x14, x15,
          x16, x17, x18, x19

vars == <<component, x1, x2, x3, x4, x5, x6, x7, x8, x9, x10, x11, x12, x13,
          x14, x15, x16, x17, x18, x19>>

(* A component with k variables runs and the others stay unused.           *)
Unused(k) ==
    /\ IF k < 2 THEN x2 = 0 ELSE TRUE
    /\ IF k < 3 THEN x3 = 0 ELSE TRUE
    /\ IF k < 4 THEN x4 = 0 ELSE TRUE
    /\ IF k < 5 THEN x5 = 0 ELSE TRUE
    /\ IF k < 6 THEN x6 = 0 ELSE TRUE
    /\ IF k < 7 THEN x7 = 0 ELSE TRUE
    /\ IF k < 8 THEN x8 = 0 ELSE TRUE
    /\ IF k < 9 THEN x9 = 0 ELSE TRUE
    /\ IF k < 10 THEN x10 = 0 ELSE TRUE
    /\ IF k < 11 THEN x11 = 0 ELSE TRUE
    /\ IF k < 12 THEN x12 = 0 ELSE TRUE
    /\ IF k < 13 THEN x13 = 0 ELSE TRUE
    /\ IF k < 14 THEN x14 = 0 ELSE TRUE
    /\ IF k < 15 THEN x15 = 0 ELSE TRUE
    /\ IF k < 16 THEN x16 = 0 ELSE TRUE
    /\ IF k < 17 THEN x17 = 0 ELSE TRUE
    /\ IF k < 18 THEN x18 = 0 ELSE TRUE
    /\ IF k < 19 THEN x19 = 0 ELSE TRUE

Kept(k) ==
    /\ IF k < 2 THEN x2' = x2 ELSE TRUE
    /\ IF k < 3 THEN x3' = x3 ELSE TRUE
    /\ IF k < 4 THEN x4' = x4 ELSE TRUE
    /\ IF k < 5 THEN x5' = x5 ELSE TRUE
    /\ IF k < 6 THEN x6' = x6 ELSE TRUE
    /\ IF k < 7 THEN x7' = x7 ELSE TRUE
    /\ IF k < 8 THEN x8' = x8 ELSE TRUE
    /\ IF k < 9 THEN x9' = x9 ELSE TRUE
    /\ IF k < 10 THEN x10' = x10 ELSE TRUE
    /\ IF k < 11 THEN x11' = x11 ELSE TRUE
    /\ IF k < 12 THEN x12' = x12 ELSE TRUE
    /\ IF k < 13 THEN x13' = x13 ELSE TRUE
    /\ IF k < 14 THEN x14' = x14 ELSE TRUE
    /\ IF k < 15 THEN x15' = x15 ELSE TRUE
    /\ IF k < 16 THEN x16' = x16 ELSE TRUE
    /\ IF k < 17 THEN x17' = x17 ELSE TRUE
    /\ IF k < 18 THEN x18' = x18 ELSE TRUE
    /\ IF k < 19 THEN x19' = x19 ELSE TRUE

Starts(name, k) == component = name /\ Unused(k)
Runs(name, k) == component = name /\ Kept(k) /\ UNCHANGED component
-----------------------------------------------------------------------------
(* Memory maps: two regions, next to each other or apart, of either type,  *)
(* which end inside a page or at its boundary, and some behind the largest *)
(* address.                                                                *)
Bounds == {3, 6, 7, 8, 11, 12, 16, 18}
Entry(a, b, ty) == [addr |-> a, len |-> b - a, type |-> ty]
TwoRegions ==
    {<<Entry(0, p[1], p[4]), Entry(p[2], p[3], p[5])>> :
        p \in {q \in Bounds \X Bounds \X Bounds \X {1, 2} \X {1, 2} :
                 q[1] <= q[2] /\ q[2] < q[3]}}

(* A program of one segment that starts inside a page, and one of two      *)
(* segments under two directory entries.                                   *)
Programs == {<<<<6, 3>>>>, <<<<4, 4>>, <<37, 3>>>>}
-----------------------------------------------------------------------------
MM == INSTANCE Mm WITH
        PG_SIZE <- 8, InitPages <- 2, MaxPages <- 4, Slots <- {1, 2, 3},
        Requests <- {1, 18, 26}, MaxCalls <- 5,
        mem <- x1, kbrk <- x2, kbrk_max <- x3, ptr <- x4, asked <- x5,
        calls <- x6, halt <- x7

R == INSTANCE MmRealloc WITH
        PG_SIZE <- 8, InitPages <- 3, MaxPages <- 4, Slots <- {1, 2, 3},
        Requests <- {1, 18, 44}, MaxCalls <- 5,
        mem <- x1, kbrk <- x2, kbrk_max <- x3, ptr <- x4, asked <- x5,
        calls <- x6, halt <- x7, gap <- x8

PM == INSTANCE Pmm WITH
        Maps <- TwoRegions, SizeMax <- 16, KbrkPages <- 2,
        e820_map <- x1, entry <- x2, npages <- x3, physmap <- x4, owned <- x5,
        panic <- x6

VM == INSTANCE Vmm WITH
        NULL <- null, Procs <- {p1, p2}, npages <- 16, KbrkPages <- 2, Segments <- Programs,
        physmap <- x1, table <- x2, kpd <- x3, pgdir <- x4, toload <- x5,
        base <- x6, page_reuse <- x7, panic <- x8

PR == INSTANCE Proc WITH
        NULL <- null, Threads <- {boot, t1, t2}, Procs <- {kproc, p1, p2},
        NPID <- 7, EMPROC <- 6, NPAGES <- 6,
        pid <- x1, threads <- x2, proc <- x3, stack <- x4, tlife <- x5,
        pmap <- x6, pid_reuse <- x7, pcounter <- x8, page_reuse <- x9,
        page_count <- x10, halt <- x11, pgdir <- x12, kept <- x13

P == INSTANCE Pidreg WITH
        NULL <- null, Threads <- {t1, t2}, MaxDepth <- 2, Rounds <- 4, NPID <- 4,
        EMPROC <- 2, Hold <- 2,
        current <- x1, active <- x2, tstate <- x3, intr <- x4, halt <- x5,
        lk_owner <- x6, lk_count <- x7, lk_wchan <- x8, pc <- x9,
        iflag <- x10, depth <- x11, left <- x12, if0 <- x13,
        pmap <- x14, pid_reuse <- x15, pcounter <- x16, op <- x17,
        pid <- x18, held <- x19

Q == INSTANCE QueueTs WITH
        NULL <- null, Threads <- {t1, t2, t3}, MaxDepth <- 1, Rounds <- 2, Vals <- {v1},
        current <- x1, active <- x2, tstate <- x3, intr <- x4, halt <- x5,
        lk_owner <- x6, lk_count <- x7, lk_wchan <- x8, pc <- x9,
        iflag <- x10, depth <- x11, left <- x12, if0 <- x13, cv_wchan <- x14,
        qu <- x15, op <- x16

BT == INSTANCE BitmapTs WITH
        NULL <- null, Threads <- {t1, t2, t3}, MaxDepth <- 1, Rounds <- 2, Bits <- {0, 1},
        Ops <- {"alloc", "mark", "unmark", "isset", "isset_blocking"},
        Marker <- t1,
        current <- x1, active <- x2, tstate <- x3, intr <- x4, halt <- x5,
        lk_owner <- x6, lk_count <- x7, lk_wchan <- x8, pc <- x9,
        iflag <- x10, depth <- x11, left <- x12, if0 <- x13, cv_wchan <- x14,
        marked <- x15, op <- x16, index <- x17, owned <- x18

K == INSTANCE Kbd WITH
        Keys <- {"lshift", "rshift", "ctl", "rctl", "caps", "a", "up"},
        MaxPort <- 3,
        down <- x1, nlock <- x2, event <- x3, port <- x4, shift <- x5,
        out <- x6

C == INSTANCE Console WITH
        CONSBUFSIZE <- 3, BUFLEN <- 6, MAXARGS <- 3, Before <- 2,
        Chars <- {"x", "sp", "bs", "del", "nl", "key", "nul"},
        buf <- x1, rpos <- x2, wpos <- x3, odd <- x4, unread <- x5,
        line <- x6, shown <- x7, ran <- x8

G == INSTANCE Cga WITH CRT_ROWS <- 2, CRT_COLS <- 5, crt <- x1

I == INSTANCE Irq WITH
        Threads <- {t1, t2}, Lines <- {0, 4, 8, 9}, Exceptions <- {13, 14},
        MaxFrames <- 3,
        pic <- x1, apic <- x2, cur <- x3, ready <- x4, asleep <- x5,
        frames <- x6, ifl <- x7, halted <- x8

ASSUME MM!MmAssumption /\ R!MmAssumption
ASSUME PM!PmmAssumption
ASSUME VM!VmmAssumption
ASSUME P!PidregAssumption
ASSUME BT!BitmapTsAssumption
ASSUME K!KbdAssumption
ASSUME G!CgaAssumption
ASSUME I!IrqAssumption
-----------------------------------------------------------------------------
Init ==
    \/ Starts("mm", 7) /\ MM!Init
    \/ Starts("krealloc", 8) /\ R!RInit
    \/ Starts("pmm", 6) /\ PM!Init
    \/ Starts("vmm", 8) /\ VM!Init
    \/ Starts("proc", 13) /\ PR!Init
    \/ Starts("pidreg", 19) /\ P!PInit
    \/ Starts("queue_ts", 16) /\ Q!QInit
    \/ Starts("bitmap_ts", 18) /\ BT!BInit
    \/ Starts("kbd", 6) /\ K!Init
    \/ Starts("console", 8) /\ C!Init
    \/ Starts("cga", 1) /\ G!Init
    \/ Starts("irq", 8) /\ I!Init

Next ==
    \/ Runs("mm", 7) /\ MM!Next
    \/ Runs("krealloc", 8) /\ R!RNext
    \/ Runs("pmm", 6) /\ PM!Next
    \/ Runs("vmm", 8) /\ VM!Next
    \/ Runs("proc", 13) /\ PR!Next
    \/ Runs("pidreg", 19) /\ P!PNext
    \/ Runs("queue_ts", 16) /\ Q!QNext
    \/ Runs("bitmap_ts", 18) /\ BT!BNext
    \/ Runs("kbd", 6) /\ K!Next
    \/ Runs("console", 8) /\ C!Next
    \/ Runs("cga", 1) /\ G!Next
    \/ Runs("irq", 8) /\ I!Next

Spec == Init /\ [][Next]_vars
-----------------------------------------------------------------------------
(* mm.c and kmm.c: kmalloc, kfree, krealloc and kpalloc in any order keep  *)
(* boundary tags, footers and free list consistent, lose no block, and     *)
(* leave the callers' data alone; kmalloc grows the heap only when it must.*)
HeapConsistent ==
    /\ [](component = "mm" =>
            /\ MM!HeapTiled /\ MM!FreeListExact
            /\ MM!UsedBlocksOwned /\ MM!PayloadKept)
    /\ [](component = "krealloc" => R!ReallocKeepsHeap /\ R!ReallocKeepsPayload)
    /\ [][component = "mm" => MM!GrowsOnlyWhenFull]_vars

(* pmm.c: from every small memory map init_pmm panics exactly if two       *)
(* available regions touch a page, and otherwise the bitmap hands out each *)
(* page once, never the kernel's, and loses none.                          *)
PagesAccounted ==
    component = "pmm" =>
        /\ PM!OwnedExactly /\ PM!KernelPagesKept
        /\ PM!BootNeedsGaps /\ PM!NoPageLost

(* vmm.c and proc.c: processes loaded in any order see the same kernel,    *)
(* are apart from each other, have all they asked for mapped and keep it.  *)
AddressSpaces ==
    /\ [](component = "vmm" =>
            /\ VM!KernelViewShared /\ VM!PhysicalMapped
            /\ VM!ProcessesApart /\ VM!LoadedMapped)
    /\ [][component = "vmm" => VM!MappingsStay]_vars

(* proc.c, thread.c, pidreg.c and pagereg: threads and the arrays of their *)
(* processes agree, and no stack and no pid is used twice.                 *)
ProcessesConsistent ==
    component = "proc" => PR!MembersAgree /\ PR!StacksApart /\ PR!PidsApart

(* pidreg.c: between the calls of concurrent threads every pid that was    *)
(* ever handed out is in use or queued once; no assert fails while there   *)
(* are pids.                                                               *)
RegistryExact == component = "pidreg" => P!RegistryExact /\ P!PidregNeverHalts

(* queue_ts.c and bitmap_ts.c: no consumer sleeps through an element, no   *)
(* bit goes to two threads, and a wait for a bit ends with it clear.       *)
SharedContainers ==
    /\ component = "queue_ts" => Q!NoMissedSignal /\ Q!IdleOnlyWhenEmpty
    /\ component = "bitmap_ts" => BT!BitsOwnedOnce /\ BT!BlockingReturnsClear

(* kbd.c, console.c and cga.c: no modifier sticks and letters have the     *)
(* right case, a line reaches readline and the commands as it was typed    *)
(* and as the screen shows it, and the cursor stays on the screen.         *)
TerminalFaithful ==
    /\ component = "kbd" => K!NoStuckModifier /\ K!CaseRight
    /\ component = "console" =>
          C!ReadInOrder /\ C!EchoMatchesLine /\ C!ArgumentsRight
    /\ component = "cga" => G!CursorOnScreen /\ G!EraseUndoes

(* irq.c and asm.S: the second controller is acknowledged once for each of *)
(* its interrupts, however handlers nest and threads are switched.         *)
SlaveInService == component = "irq" => I!SlaveInService
=============================================================================
