-------------------------------- MODULE Vmm ---------------------------------
(***************************************************************************)
(* Virtual memory: mem/vmm.c with the page registrar of mem/pmm.c below it *)
(* and the program loader of proc/proc.c above it.  Page tables are        *)
(* physical pages from pp_alloc, reached through the kernel's own mapping  *)
(* of all of physical memory; page directories are pages of the kernel     *)
(* heap.  The scale: TBL_SIZE entries a table, addresses in pages.         *)
(***************************************************************************)
EXTENDS Integers, FiniteSets, FiniteSetsExt, Sequences, Functions

CONSTANTS Procs,      \* the processes created
          npages,     \* physical pages
          KbrkPages,  \* the pages of the kernel
          Segments,   \* the segments of a program: <<vaddr, memsz>>, in bytes
          NULL

TBL_SIZE == 8
PG_SIZE == 4          \* bytes, for the rounding of region_alloc
PT_SIZE == TBL_SIZE   \* pages below a directory entry
KADDR == 6 * PT_SIZE
BSTACK == 2           \* pages of the boot stack, mapped below KADDR
MMIOLIM == KADDR - PT_SIZE
MMIOBASE == MMIOLIM - PT_SIZE
UTOP == MMIOBASE
USTACKTOP == UTOP - 2
PDX(va) == va \div PT_SIZE
PTX(va) == va % PT_SIZE

VmmAssumption ==
    /\ npages <= 2 * PT_SIZE          \* KADDR + npages does not wrap
    /\ KbrkPages \in 1..npages

VARIABLES physmap,     \* the marked physical pages
          table,       \* the page tables, by physical page
          kpd,         \* the kernel's page directory
          pgdir,       \* those of the processes, or NULL
          toload,      \* the addresses the loader still has to map
          base,        \* mmio_map's static base
          page_reuse,  \* the number of pages in the registrar's queue
          panic

vmVars == <<physmap, table, kpd, pgdir, toload, base, page_reuse, panic>>

Absent == [present |-> FALSE, write |-> FALSE, user |-> FALSE, addr |-> 0]
Entry(pno, w, u) == [present |-> TRUE, write |-> w, user |-> u, addr |-> pno]
EmptyTable == [i \in 0..(TBL_SIZE - 1) |-> Absent]

(* What pp_alloc returns: the lowest free page.                            *)
FirstFree(pm) == Min((0..(npages - 1)) \ pm)

(* The memory an operation on page tables changes: the directory it walks, *)
(* the tables and the bitmap.                                              *)
Mem(pd, tb, pm) == [pd |-> pd, table |-> tb, physmap |-> pm]

(* pgdir_walk with alloc set: the table for va exists.                     *)
pgdir_walk(m, va, w, u) ==
    IF m.pd[PDX(va)].present
    THEN m
    ELSE LET pno == FirstFree(m.physmap)
         IN  Mem([m.pd EXCEPT ![PDX(va)] = Entry(pno, w, u)],
                 [m.table EXCEPT ![pno] = EmptyTable],
                 m.physmap \union {pno})

(* The entry for va after such a walk, and its assignment.                 *)
Pte(m, va) == m.table[m.pd[PDX(va)].addr][PTX(va)]
SetPte(m, va, e) ==
    [m EXCEPT !.table[m.pd[PDX(va)].addr][PTX(va)] = e]

(* Mutant: the last page is not mapped.                                    *)
BootMapShort(mem, va, pa, n, w, u) ==
    LET after[i \in 0..n] ==
          IF i = 0 THEN mem
          ELSE SetPte(pgdir_walk(after[i - 1], va + i - 1, w, u),
                      va + i - 1, Entry(pa + i - 1, w, u))
    IN  after[n - 1]

(* boot_map of n pages, one after the other; n is at least 1.              *)
boot_map(mem, va, pa, n, w, u) ==
    LET after[i \in 0..n] ==
          IF i = 0 THEN mem
          ELSE SetPte(pgdir_walk(after[i - 1], va + i - 1, w, u),
                      va + i - 1, Entry(pa + i - 1, w, u))
    IN  after[n]

(* init_vmm: all of physical memory at KADDR, the boot stack below it.     *)
BootMem ==
    LET start == Mem(EmptyTable, [p \in 0..(npages - 1) |-> EmptyTable],
                     0..(KbrkPages - 1))
        kernel == boot_map(start, KADDR, 0, npages, TRUE, FALSE)
    IN  boot_map(kernel, KADDR - BSTACK, 0, BSTACK, TRUE, FALSE)

Init ==
    /\ kpd = BootMem.pd
    /\ table = BootMem.table
    /\ physmap = BootMem.physmap
    /\ pgdir = [p \in Procs |-> NULL]
    /\ toload = [p \in Procs |-> <<>>]
    /\ base = MMIOBASE
    /\ page_reuse = 0
    /\ panic = FALSE

(* mmio_map of n pages at physical page pa; init_lapic calls it before any *)
(* process exists, later drivers may.                                      *)
mmio_map(pa, n) ==
    /\ ~panic
    /\ panic' = (base + n > MMIOLIM)
    /\ IF panic'
       THEN UNCHANGED <<kpd, table, physmap, base>>
       ELSE LET m == boot_map(Mem(kpd, table, physmap), base, pa, n, TRUE, FALSE)
            IN  /\ kpd' = m.pd /\ table' = m.table /\ physmap' = m.physmap
                /\ base' = base + n
    /\ UNCHANGED <<pgdir, toload, page_reuse>>

ROUNDDOWN(a) == a \div PG_SIZE
ROUNDUP(a) == (a + PG_SIZE - 1) \div PG_SIZE

(* Mutant: the length is rounded without the offset in the first page.     *)
RegionPagesShort(seg) ==
    [i \in 1..ROUNDUP(seg[2]) |-> ROUNDDOWN(seg[1]) + i - 1]

(* The pages region_alloc maps for a segment, in order.                    *)
RegionPages(seg) ==
    [i \in 1..(ROUNDUP(seg[1] + seg[2]) - ROUNDDOWN(seg[1])) |->
        ROUNDDOWN(seg[1]) + i - 1]

(* Those load_icode maps for a program: its segments, then the stack page. *)
LoadPages(prog) ==
    LET upto[i \in 0..Len(prog)] ==
          IF i = 0 THEN <<>> ELSE upto[i - 1] \o RegionPages(prog[i])
    IN  Append(upto[Len(prog)], USTACKTOP - 1)

(* Mutant: the first directory entry above UTOP is not shared.             *)
PgdirCreateAbove(p, prog) ==
    /\ ~panic /\ pgdir[p] = NULL /\ base > MMIOBASE
    /\ pgdir' = [pgdir EXCEPT ![p] =
                   [i \in 0..(TBL_SIZE - 1) |->
                       IF i > PDX(UTOP) THEN kpd[i] ELSE Absent]]
    /\ toload' = [toload EXCEPT ![p] = LoadPages(prog)]
    /\ page_reuse' = Max({page_reuse - 1, 0})
    /\ UNCHANGED <<physmap, table, kpd, base, panic>>

(* pgdir_create, for proc_program: a page of the registrar, an old one     *)
(* first, cleared; the entries from UTOP up are the kernel's.  init_lapic  *)
(* has run.                                                                *)
pgdir_create(p, prog) ==
    /\ ~panic /\ pgdir[p] = NULL /\ base > MMIOBASE
    /\ pgdir' = [pgdir EXCEPT ![p] =
                   [i \in 0..(TBL_SIZE - 1) |->
                       IF i >= PDX(UTOP) THEN kpd[i] ELSE Absent]]
    /\ toload' = [toload EXCEPT ![p] = LoadPages(prog)]
    /\ page_reuse' = Max({page_reuse - 1, 0})
    /\ UNCHANGED <<physmap, table, kpd, base, panic>>

(* pgdir_delete: the page goes back to the registrar; the tables and the   *)
(* pages below it stay allocated.                                          *)
pgdir_delete(p) ==
    /\ ~panic /\ pgdir[p] # NULL /\ toload[p] = <<>>
    /\ pgdir' = [pgdir EXCEPT ![p] = NULL]
    /\ page_reuse' = page_reuse + 1
    /\ UNCHANGED <<physmap, table, kpd, toload, base, panic>>

(* Mutant: the walk makes a new table each time.                           *)
InsertFresh(m, pno, va, w, u) ==
    SetPte(pgdir_walk([m EXCEPT !.pd[PDX(va)] = Absent], va, w, u),
           va, Entry(pno, w, u))

(* Mutant: the page inserted is left free for the next pp_alloc.           *)
InsertUnmarked(m, pno, va, w, u) ==
    LET n == SetPte(pgdir_walk(m, va, w, u), va, Entry(pno, w, u))
    IN  [n EXCEPT !.physmap = @ \ {pno}]

(* page_insert of page pno at va in memory m; the walk comes first.        *)
page_insert(m, pno, va, w, u) ==
    SetPte(pgdir_walk(m, va, w, u), va, Entry(pno, w, u))

(* A round of region_alloc: pp_alloc and page_insert.                      *)
region_alloc(p) ==
    /\ ~panic /\ toload[p] # <<>>
    /\ LET va == Head(toload[p])
           need == IF pgdir[p][PDX(va)].present THEN 1 ELSE 2
           free == (0..(npages - 1)) \ physmap
           pno == Min(free)
           start == Mem(pgdir[p], table, physmap \union {pno})
           m == page_insert(start, pno, va, TRUE, TRUE)
       IN  IF \/ Cardinality(free) < need
              \/ need = 1 /\ Pte(Mem(pgdir[p], table, physmap), va).present
           THEN /\ panic' = TRUE
                /\ UNCHANGED <<pgdir, table, physmap, toload>>
           ELSE /\ pgdir' = [pgdir EXCEPT ![p] = m.pd]
                /\ table' = m.table
                /\ physmap' = m.physmap
                /\ toload' = [toload EXCEPT ![p] = Tail(@)]
                /\ UNCHANGED panic
    /\ UNCHANGED <<kpd, base, page_reuse>>

Next ==
    \/ \E pa \in {npages}, n \in 1..2 : mmio_map(pa, n)
    \/ \E p \in Procs, prog \in Segments : pgdir_create(p, prog)
    \/ \E p \in Procs : region_alloc(p) \/ pgdir_delete(p)

Spec == Init /\ [][Next]_vmVars
-----------------------------------------------------------------------------
Live == {p \in Procs : pgdir[p] # NULL}
UserDirs == 0..(PDX(UTOP) - 1)

(* The physical page va is mapped to, as the MMU reads directory pd, or    *)
(* NULL.                                                                   *)
Translate(pd, va) ==
    IF ~pd[PDX(va)].present THEN NULL
    ELSE LET e == table[pd[PDX(va)].addr][PTX(va)]
         IN  IF e.present THEN e.addr ELSE NULL

(* The pages user code of process p can reach: both levels say so.         *)
UserPages(p) ==
    {table[pgdir[p][d].addr][i].addr :
        <<d, i>> \in {x \in (0..(TBL_SIZE - 1)) \X (0..(TBL_SIZE - 1)) :
                        /\ pgdir[p][x[1]].present /\ pgdir[p][x[1]].user
                        /\ table[pgdir[p][x[1]].addr][x[2]].present
                        /\ table[pgdir[p][x[1]].addr][x[2]].user}}

TablePages(pd, dirs) == {pd[d].addr : d \in {x \in dirs : pd[x].present}}

(* Every process sees the kernel as the kernel does: PM2VA works and the   *)
(* MMIO mappings are there whichever directory is loaded.  The directories *)
(* are copied once, so this rests on mmio_map having run before.           *)
KernelViewShared ==
    \A p \in Live : \A va \in UTOP..(TBL_SIZE * PT_SIZE - 1) :
        Translate(pgdir[p], va) = Translate(kpd, va)

(* The kernel reaches physical page i at PM2VA(i), page tables included.   *)
PhysicalMapped == \A i \in 0..(npages - 1) : Translate(kpd, KADDR + i) = i

(* User code reaches no page of the kernel, no page table, and no page of  *)
(* another process.                                                        *)
ProcessesApart ==
    \A p \in Live :
        /\ UserPages(p) \intersect (0..(KbrkPages - 1)) = {}
        /\ UserPages(p) \intersect TablePages(kpd, 0..(TBL_SIZE - 1)) = {}
        /\ \A q \in Live :
              /\ UserPages(p) \intersect TablePages(pgdir[q], UserDirs) = {}
              /\ p # q => /\ UserPages(p) \intersect UserPages(q) = {}
                          /\ TablePages(pgdir[p], UserDirs)
                               \intersect TablePages(pgdir[q], UserDirs) = {}

(* A loaded program has every page of its segments and its stack, and the  *)
(* page below UTOP that guards the stack stays unmapped.                   *)
LoadedMapped ==
    \A p \in Live : toload[p] = <<>> /\ ~panic =>
        /\ Translate(pgdir[p], USTACKTOP - 1) # NULL
        /\ Translate(pgdir[p], USTACKTOP) = NULL
        /\ \E prog \in Segments : \A i \in 1..Len(prog) :
              \A b \in prog[i][1]..(prog[i][1] + prog[i][2] - 1) :
                  Translate(pgdir[p], b \div PG_SIZE) # NULL

(* A step takes no page from a live process: what region_alloc mapped      *)
(* stays mapped to the same page.                                          *)
MappingsStay ==
    \A p \in Live : p \in Live' =>
        \A va \in 0..(UTOP - 1) :
            Translate(pgdir[p], va) # NULL =>
                Translate(pgdir[p], va)' = Translate(pgdir[p], va)
=============================================================================
