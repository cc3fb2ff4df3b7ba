-------------------------------- MODULE Pmm ---------------------------------
(***************************************************************************)
(* The physical pages of mem/pmm.c: what init_pmm makes of the memory map, *)
(* and the allocation of single pages from the bitmap physmap.  Addresses  *)
(* are in units of half a page, so that regions may end inside one.  The   *)
(* map has 64-bit numbers, which the code cuts to a size_t.                *)
(***************************************************************************)
EXTENDS Integers, FiniteSets, FiniteSetsExt, Sequences

CONSTANTS Maps,       \* the memory maps: sequences of [addr, len, type]
          SizeMax,    \* a size_t counts modulo SizeMax
          KbrkPages   \* PA2PM(PADDR(_kbrk)): the pages below belong to the kernel

PG_SIZE == 2
E820_AVAILABLE == 1

Cut(pa) == pa % SizeMax
PA2PM(pa) == Cut(pa) \div PG_SIZE

VARIABLES e820_map,   \* the map the boot loader left
          entry,      \* the entry init_pmm's second loop is at
          npages,
          physmap,    \* the pages marked in the bitmap: not free
          owned,      \* history: pages handed out and not given back
          panic

pmmVars == <<e820_map, entry, npages, physmap, owned, panic>>

EndOf(e) == e.addr + e.len
RamEnd(map) == Max({0} \union {Cut(EndOf(map[i])) : i \in DOMAIN map})

MAX(a, b) == IF a > b THEN a ELSE b
MIN(a, b) == IF a < b THEN a ELSE b

PmmAssumption ==
    /\ KbrkPages \in Nat \ {0} /\ SizeMax \in Nat \ {0}
    /\ \A map \in Maps :
          /\ Len(map) \in Nat /\ DOMAIN map = 1..Len(map)
          /\ \A i \in DOMAIN map : map[i].addr \in Nat /\ map[i].len \in Nat
          /\ RamEnd(map) \in Nat

(* Mutant: the pages of the kernel are freed with the region they are in.  *)
FreedByAll(e, n) ==
    IF e.type # E820_AVAILABLE
    THEN {}
    ELSE MAX(PA2PM(e.addr), 1)..(MIN(PA2PM(EndOf(e)) + 1, n) - 1)

(* Mutant: a region's last whole page is lost.                             *)
FreedByShort(e, n) ==
    IF e.type # E820_AVAILABLE
    THEN {}
    ELSE (MAX(PA2PM(e.addr), 1)..(MIN(PA2PM(EndOf(e)) - 1, n) - 1))
             \ (0..(KbrkPages - 1))

(* The pages the second loop of init_pmm unmarks for entry e.              *)
FreedBy(e, n) ==
    IF e.type # E820_AVAILABLE
    THEN {}
    ELSE (MAX(PA2PM(e.addr), 1)..(MIN(PA2PM(EndOf(e)) + 1, n) - 1))
             \ (0..(KbrkPages - 1))

(* init_pmm up to its second loop: every page is marked.                   *)
Init ==
    /\ e820_map \in Maps
    /\ entry = 1
    /\ npages = PA2PM(RamEnd(e820_map))
    /\ physmap = 0..(npages - 1)
    /\ owned = {}
    /\ panic = FALSE

Booted == entry \notin DOMAIN e820_map

(* Mutant: bitmap_unmark accepts a page that is not marked.                *)
UnmarkAgain ==
    /\ ~panic /\ ~Booted
    /\ physmap' = physmap \ FreedBy(e820_map[entry], npages)
    /\ entry' = entry + 1
    /\ UNCHANGED <<e820_map, npages, owned, panic>>

(* One turn of the second loop: bitmap_unmark asserts that a page it       *)
(* unmarks is marked.  What a panic leaves half done is not looked at.     *)
UnmarkEntry ==
    /\ ~panic /\ ~Booted
    /\ IF FreedBy(e820_map[entry], npages) \subseteq physmap
       THEN /\ physmap' = physmap \ FreedBy(e820_map[entry], npages)
            /\ entry' = entry + 1
            /\ UNCHANGED panic
       ELSE panic' = TRUE /\ UNCHANGED <<physmap, entry>>
    /\ UNCHANGED <<e820_map, npages, owned>>

Free == (0..(npages - 1)) \ physmap

(* pp_alloc: bitmap_alloc takes the lowest clear bit.                      *)
pp_alloc ==
    /\ ~panic /\ Booted
    /\ IF Free = {}
       THEN panic' = TRUE /\ UNCHANGED <<physmap, owned>>
       ELSE /\ physmap' = physmap \union {Min(Free)}
            /\ owned' = owned \union {Min(Free)}
            /\ UNCHANGED panic
    /\ UNCHANGED <<e820_map, entry, npages>>

(* Mutant: the page below is given back.                                   *)
FreeBelow(idx) ==
    /\ ~panic /\ Booted
    /\ panic' = (idx >= npages \/ idx \notin physmap)
    /\ physmap' = physmap \ {idx - 1}
    /\ owned' = owned \ {idx}
    /\ UNCHANGED <<e820_map, entry, npages>>

(* pp_free, of a page its caller has.                                      *)
pp_free(idx) ==
    /\ ~panic /\ Booted
    /\ panic' = (idx >= npages \/ idx \notin physmap)
    /\ physmap' = physmap \ {idx}
    /\ owned' = owned \ {idx}
    /\ UNCHANGED <<e820_map, entry, npages>>

(* pa_alloc: a given page, behind an allocated one.                        *)
pa_alloc(idx) ==
    /\ ~panic /\ Booted
    /\ panic' = ~(idx < npages /\ idx - 1 \in physmap /\ idx \notin physmap)
    /\ IF panic'
       THEN UNCHANGED <<physmap, owned>>
       ELSE physmap' = physmap \union {idx} /\ owned' = owned \union {idx}
    /\ UNCHANGED <<e820_map, entry, npages>>

Next ==
    \/ UnmarkEntry
    \/ pp_alloc
    \/ \E idx \in owned : pp_free(idx)
    \/ \E idx \in Free \ {0} : pa_alloc(idx)

Spec == Init /\ [][Next]_pmmVars
-----------------------------------------------------------------------------
(* The pages of the kernel image and its heap are never handed out: they   *)
(* stay marked through every allocation and release.                       *)
KernelPagesKept == \A i \in 0..(npages - 1) : i < KbrkPages => i \in physmap \ owned

(* Page p begins at or before the end of entry e and ends behind its       *)
(* start, both as the code sees them; so does the page behind a region     *)
(* that ends on a page boundary.                                           *)
Touches(e, p) == /\ e.type = E820_AVAILABLE /\ KbrkPages <= p
                 /\ p * PG_SIZE <= Cut(EndOf(e)) /\ Cut(e.addr) < (p + 1) * PG_SIZE

(* After init_pmm no page is both free and with an owner, and a page stays *)
(* marked exactly when it has an owner or no available region touches it.  *)
OwnedExactly ==
    Booted =>
      /\ owned \subseteq physmap
      /\ \A p \in 0..(npages - 1) :
            p \in physmap \ owned <=> \A i \in DOMAIN e820_map : ~Touches(e820_map[i], p)

(* The comment of init_pmm "assumes that the e820 map references           *)
(* non-overlapping regions".  More is needed: the assert of bitmap_unmark  *)
(* stops the boot exactly when two available regions touch one page, as    *)
(* adjacent ones do, and regions above 4 GB once they are cut.             *)
BootNeedsGaps ==
    LET shared == \E i, j \in DOMAIN e820_map, p \in 0..(npages - 1) :
                     i < j /\ Touches(e820_map[i], p) /\ Touches(e820_map[j], p)
    IN  /\ Booted => ~shared
        /\ panic /\ ~Booted => shared

(* Every page that lies in an available region above the kernel is free    *)
(* after init_pmm or has been handed out, if the region ends below 4 GB.   *)
NoPageLost ==
    Booted =>
      \A i \in KbrkPages..(npages - 1) :
        (\E k \in DOMAIN e820_map :
            /\ e820_map[k].type = E820_AVAILABLE
            /\ e820_map[k].addr <= i * PG_SIZE
            /\ (i + 1) * PG_SIZE <= EndOf(e820_map[k])
            /\ EndOf(e820_map[k]) < SizeMax)
        => i \in owned \/ i \notin physmap
=============================================================================
