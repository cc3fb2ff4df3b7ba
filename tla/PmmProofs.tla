------------------------------ MODULE PmmProofs -----------------------------
(***************************************************************************)
(* Proofs about Pmm for any memory map and any size of the kernel: which   *)
(* pages are marked, and that the kernel's pages are never handed out.     *)
(***************************************************************************)
EXTENDS Pmm, WellFoundedInduction, TLAPS

(* pp_alloc's choice, the lowest clear bit, is a clear bit.                *)
LEMMA MinIsMember ==
    ASSUME NEW S, S \subseteq Nat, S # {} PROVE Min(S) \in S
<1> DEFINE R == {ss \in Nat \X Nat : ss[1] < ss[2]}
<1>1. IsWellFoundedOn(R, Nat)
    BY NatLessThanWellFounded, Zenon DEF OpToRel
<1>2. PICK x \in S : \A y \in S : ~(<<y, x>> \in R)
    BY <1>1, WFMin
<1>3. ASSUME NEW y \in S PROVE x <= y
    <2>1. x \in Nat /\ y \in Nat
        OBVIOUS
    <2>2. y < x => <<y, x>> \in R
        BY <2>1
    <2>3. QED
        BY <1>2, <2>1, <2>2
<1>4. QED
    BY <1>3 DEF Min

(* The page of an address.                                                 *)
LEMMA PageOf ==
    ASSUME NEW a \in Nat
    PROVE  /\ a \div 2 \in Int
           /\ 2 * (a \div 2) <= a /\ a < 2 * (a \div 2) + 2
OBVIOUS

(* A page is freed by an entry exactly when the entry touches it.          *)
LEMMA FreedIsTouched ==
    ASSUME PmmAssumption, NEW e, e.addr \in Nat, e.len \in Nat,
           NEW n \in Int, NEW p
    PROVE  p \in FreedBy(e, n) <=> p \in 0..(n - 1) /\ Touches(e, p)
<1> DEFINE lo == Cut(e.addr)
           hi == Cut(EndOf(e))
<1>1. lo \in Nat /\ hi \in Nat
    BY DEF PmmAssumption, Cut, EndOf
<1>0. PA2PM(e.addr) = lo \div 2 /\ PA2PM(EndOf(e)) = hi \div 2
    BY DEF PA2PM, PG_SIZE
<1> HIDE DEF lo, hi
<1> DEFINE x == PA2PM(e.addr)
           y == PA2PM(EndOf(e))
<1>2. x = PA2PM(e.addr) /\ x \in Int /\ 2 * x <= lo /\ lo < 2 * x + 2
    BY <1>1, <1>0, PageOf, Zenon
<1>3. y = PA2PM(EndOf(e)) /\ y \in Int /\ 2 * y <= hi /\ hi < 2 * y + 2
    BY <1>1, <1>0, PageOf, Zenon
<1> HIDE DEF x, y
<1>4. CASE e.type # E820_AVAILABLE
    BY <1>4 DEF FreedBy, Touches
<1>5. CASE e.type = E820_AVAILABLE
    <2>1. FreedBy(e, n) = (MAX(x, 1)..(MIN(y + 1, n) - 1)) \ (0..(KbrkPages - 1))
        BY <1>2, <1>3, <1>5 DEF FreedBy
    <2>2. ASSUME p \in FreedBy(e, n) PROVE p \in 0..(n - 1) /\ Touches(e, p)
        <3>1. /\ p \in Int /\ x <= p /\ 1 <= p /\ p <= y /\ p <= n - 1
              /\ KbrkPages <= p
            <4>1. /\ p \in MAX(x, 1)..(MIN(y + 1, n) - 1)
                  /\ p \notin 0..(KbrkPages - 1)
                BY <2>1, <2>2
            <4>2. KbrkPages \in Nat \ {0}
                BY DEF PmmAssumption
            <4>3. p \in Int /\ x <= p /\ 1 <= p /\ p <= y /\ p <= n - 1
                BY <4>1, <1>2, <1>3 DEF MAX, MIN
            <4>4. QED
                BY <4>1, <4>2, <4>3
        <3>2. p * 2 <= hi /\ lo < (p + 1) * 2
            BY <3>1, <1>1, <1>2, <1>3
        <3>3. QED
            BY <3>1, <3>2, <1>5 DEF Touches, PG_SIZE, lo, hi
    <2>3. ASSUME p \in 0..(n - 1), Touches(e, p) PROVE p \in FreedBy(e, n)
        <3>1. /\ p \in Int /\ KbrkPages <= p /\ p * 2 <= hi /\ lo < (p + 1) * 2
              /\ KbrkPages \in Nat \ {0} /\ p <= n - 1
            BY <2>3 DEF Touches, PG_SIZE, PmmAssumption, lo, hi
        <3>2. x <= p /\ 1 <= p /\ p <= y
            BY <3>1, <1>1, <1>2, <1>3
        <3>3. QED
            BY <2>1, <3>1, <3>2, <1>2, <1>3 DEF MAX, MIN
    <2>4. QED
        BY <2>2, <2>3
<1>6. QED
    BY <1>4, <1>5

(* The pages freed by the entries before the one the loop is at.           *)
Freed == UNION {FreedBy(e820_map[i], npages) : i \in {i \in DOMAIN e820_map : i < entry}}

(* The marked pages are those not freed yet and, apart from them, the      *)
(* owned ones; the entries done so far free no page twice, and a panic     *)
(* before the loop is over is due to a page that would be.                 *)
PagesSplit ==
    /\ npages \in Int /\ entry \in Int /\ e820_map \in Maps
    /\ owned \subseteq Freed
    /\ physmap = ((0..(npages - 1)) \ Freed) \union owned
    /\ \A i, j \in DOMAIN e820_map : i < j /\ j < entry =>
          FreedBy(e820_map[i], npages) \intersect FreedBy(e820_map[j], npages) = {}
    /\ 1 <= entry /\ entry <= Len(e820_map) + 1
    /\ ~Booted => owned = {}
    /\ panic /\ ~Booted => \E i \in DOMAIN e820_map :
          /\ i < entry
          /\ FreedBy(e820_map[i], npages)
               \intersect FreedBy(e820_map[entry], npages) # {}

(* Before the second loop every page is marked.                            *)
LEMMA InitSplit ==
    ASSUME PmmAssumption, Init PROVE PagesSplit
<1>1. DOMAIN e820_map = 1..Len(e820_map) /\ Len(e820_map) \in Nat
    BY DEF PmmAssumption, Init
<1>2. {i \in DOMAIN e820_map : i < entry} = {}
    BY <1>1 DEF Init
<1>3. Freed = {}
    BY <1>2 DEF Freed
<1>4. RamEnd(e820_map) \in Nat /\ SizeMax \in Nat \ {0}
    BY DEF PmmAssumption, Init
<1>5. npages \in Int
    <2>1. Cut(RamEnd(e820_map)) \in Nat
        BY <1>4 DEF Cut
    <2>2. QED
        BY <2>1, PageOf DEF Init, PA2PM, PG_SIZE
<1>6. QED
    BY <1>1, <1>3, <1>5 DEF Init, PagesSplit

(* A turn of the second loop frees pages that are marked, or panics over   *)
(* one that an earlier turn freed.                                         *)
LEMMA UnmarkSplit ==
    ASSUME PmmAssumption, PagesSplit, UnmarkEntry PROVE PagesSplit'
<1> DEFINE F(i) == FreedBy(e820_map[i], npages)
<1>1. /\ DOMAIN e820_map = 1..Len(e820_map) /\ Len(e820_map) \in Nat
      /\ entry \in DOMAIN e820_map /\ entry \in Int /\ npages \in Int
      /\ owned = {} /\ physmap = (0..(npages - 1)) \ Freed
    BY DEF PmmAssumption, PagesSplit, UnmarkEntry, Booted
<1>2. e820_map' = e820_map /\ npages' = npages /\ owned' = owned
    BY DEF UnmarkEntry
<1>3. CASE F(entry) \subseteq physmap
    <2>1. entry' = entry + 1 /\ physmap' = physmap \ F(entry) /\ panic' = panic
        BY <1>3 DEF UnmarkEntry
    <2>2. {i \in DOMAIN e820_map : i < entry + 1}
            = {i \in DOMAIN e820_map : i < entry} \union {entry}
        BY <1>1
    <2>3. Freed' = Freed \union F(entry)
        BY <1>2, <2>1, <2>2 DEF Freed
    <2>4. physmap' = ((0..(npages - 1)) \ Freed') \union owned
        BY <1>1, <2>1, <2>3
    <2>5. \A i \in DOMAIN e820_map : i < entry => F(i) \intersect F(entry) = {}
        <3>1. \A i \in DOMAIN e820_map : i < entry => F(i) \subseteq Freed
            BY DEF Freed
        <3>2. QED
            BY <1>1, <1>3, <3>1
    <2>6. \A i, j \in DOMAIN e820_map : i < j /\ j < entry + 1 =>
            F(i) \intersect F(j) = {}
        <3>1. ASSUME NEW i \in DOMAIN e820_map, NEW j \in DOMAIN e820_map,
                     i < j, j < entry + 1
              PROVE  F(i) \intersect F(j) = {}
            <4>1. j = entry \/ j < entry
                BY <1>1, <3>1
            <4>2. CASE j = entry
                BY <2>5, <3>1, <4>2
            <4>3. CASE j < entry
                BY <3>1, <4>3 DEF PagesSplit
            <4>4. QED
                BY <4>1, <4>2, <4>3
        <3>2. QED
            BY <3>1
    <2>7. entry + 1 \in Int /\ 1 <= entry + 1 /\ entry + 1 <= Len(e820_map) + 1
        BY <1>1
    <2>8. ~panic
        BY DEF UnmarkEntry
    <2> HIDE DEF F
    <2>9. QED
        BY <1>1, <1>2, <2>1, <2>4, <2>6, <2>7, <2>8 DEF PagesSplit, F
<1>4. CASE ~(F(entry) \subseteq physmap)
    <2>1. entry' = entry /\ physmap' = physmap
        BY <1>4 DEF UnmarkEntry
    <2>2. PICK q \in F(entry) : q \notin physmap
        BY <1>4
    <2>3. q \in 0..(npages - 1)
        <3>1. e820_map[entry].addr \in Nat /\ e820_map[entry].len \in Nat
            BY <1>1 DEF PmmAssumption, PagesSplit
        <3>2. QED
            BY <1>1, <2>2, <3>1, FreedIsTouched
    <2>4. q \in Freed
        BY <1>1, <2>2, <2>3
    <2>5. PICK i \in DOMAIN e820_map : i < entry /\ q \in F(i)
        BY <2>4 DEF Freed
    <2>6. F(i) \intersect F(entry) # {}
        BY <2>2, <2>5
    <2>7. Freed' = Freed /\ Booted' = Booted
        BY <1>2, <2>1 DEF Freed, Booted
    <2>8. QED
        BY <1>1, <1>2, <2>1, <2>5, <2>6, <2>7 DEF PagesSplit
<1>5. QED
    BY <1>3, <1>4

(* A step of an allocation or release leaves the map and the loop alone.   *)
LEMMA SplitKept ==
    ASSUME PagesSplit, Booted, UNCHANGED <<e820_map, entry, npages>>,
           owned' \subseteq Freed,
           physmap' = ((0..(npages - 1)) \ Freed) \union owned'
    PROVE  PagesSplit'
<1>1. Freed' = Freed /\ Booted'
    BY DEF Freed, Booted
<1>2. QED
    BY <1>1 DEF PagesSplit

(* Every step keeps the split: allocation and release move a page between  *)
(* the free and the owned.                                                 *)
LEMMA NextSplit ==
    ASSUME PmmAssumption, PagesSplit, [Next]_pmmVars PROVE PagesSplit'
<1>1. CASE UNCHANGED pmmVars
    <2>1. Freed' = Freed /\ Booted' = Booted
        BY <1>1 DEF pmmVars, Freed, Booted
    <2>2. QED
        BY <1>1, <2>1 DEF pmmVars, PagesSplit
<1>2. CASE UnmarkEntry
    BY <1>2, UnmarkSplit
<1>3. CASE pp_alloc
    <2>1. Booted /\ UNCHANGED <<e820_map, entry, npages>>
        BY <1>3 DEF pp_alloc
    <2>2. CASE Free = {}
        BY <1>3, <2>1, <2>2, SplitKept DEF pp_alloc, PagesSplit
    <2>3. CASE Free # {}
        <3>1. Min(Free) \in Free
            BY <2>3, MinIsMember DEF Free, PagesSplit
        <3>2. Min(Free) \in Freed
            BY <3>1 DEF Free, PagesSplit
        <3>3. /\ physmap' = physmap \union {Min(Free)}
              /\ owned' = owned \union {Min(Free)}
            BY <1>3, <2>3 DEF pp_alloc
        <3>4. QED
            BY <2>1, <3>2, <3>3, SplitKept DEF PagesSplit
    <2>4. QED
        BY <2>2, <2>3
<1>4. ASSUME NEW idx \in owned, pp_free(idx) PROVE PagesSplit'
    <2>1. /\ Booted /\ UNCHANGED <<e820_map, entry, npages>>
          /\ physmap' = physmap \ {idx} /\ owned' = owned \ {idx}
        BY <1>4 DEF pp_free
    <2>2. QED
        BY <2>1, SplitKept DEF PagesSplit
<1>5. ASSUME NEW idx \in Free \ {0}, pa_alloc(idx) PROVE PagesSplit'
    <2>1. Booted /\ UNCHANGED <<e820_map, entry, npages>>
        BY <1>5 DEF pa_alloc
    <2>2. idx \in Freed
        BY DEF Free, PagesSplit
    <2>3. \/ physmap' = physmap /\ owned' = owned
          \/ physmap' = physmap \union {idx} /\ owned' = owned \union {idx}
        BY <1>5 DEF pa_alloc
    <2>4. QED
        BY <2>1, <2>2, <2>3, SplitKept DEF PagesSplit
<1>6. QED
    BY <1>1, <1>2, <1>3, <1>4, <1>5 DEF Next

(* In terms of the memory map: once the loop is over Freed are the pages   *)
(* some available region touches, and no two touch the same page.          *)
LEMMA SplitSuffices ==
    ASSUME PmmAssumption, PagesSplit
    PROVE  OwnedExactly /\ KernelPagesKept /\ BootNeedsGaps
<1> DEFINE F(i) == FreedBy(e820_map[i], npages)
           T(i, p) == Touches(e820_map[i], p)
<1>1. \A i \in DOMAIN e820_map : \A p : p \in F(i) <=> p \in 0..(npages - 1) /\ T(i, p)
    <2>1. ASSUME NEW i \in DOMAIN e820_map, NEW p
          PROVE  p \in F(i) <=> p \in 0..(npages - 1) /\ T(i, p)
        <3>1. e820_map[i].addr \in Nat /\ e820_map[i].len \in Nat /\ npages \in Int
            BY DEF PmmAssumption, PagesSplit
        <3>2. QED
            BY <3>1, FreedIsTouched
    <2>2. QED
        BY <2>1
<1>2. DOMAIN e820_map = 1..Len(e820_map) /\ Len(e820_map) \in Nat
    BY DEF PmmAssumption, PagesSplit
<1>3. Booted => \A i \in DOMAIN e820_map : i < entry
    BY <1>2 DEF Booted, PagesSplit
<1>4. Booted => \A p : p \in Freed <=> \E i \in DOMAIN e820_map : p \in F(i)
    BY <1>3 DEF Freed
<1>5. \A p \in Freed : p \in 0..(npages - 1)
    BY <1>1 DEF Freed
<1>6. OwnedExactly
    <2>1. SUFFICES ASSUME Booted
                   PROVE  /\ owned \subseteq physmap
                          /\ \A p \in 0..(npages - 1) : p \in physmap \ owned
                                <=> \A i \in DOMAIN e820_map : ~T(i, p)
        BY DEF OwnedExactly
    <2>2. \A p \in 0..(npages - 1) :
            p \in Freed <=> \E i \in DOMAIN e820_map : T(i, p)
        BY <1>1, <1>4, <2>1
    <2>3. QED
        BY <2>2 DEF PagesSplit
<1>7. KernelPagesKept
    <2>1. SUFFICES ASSUME NEW p \in 0..(npages - 1), p < KbrkPages
                   PROVE  p \notin Freed
        BY DEF KernelPagesKept, PagesSplit
    <2>2. \A i : ~T(i, p)
        <3>1. ~(KbrkPages <= p)
            BY <2>1 DEF PmmAssumption, PagesSplit
        <3>2. QED
            BY <3>1 DEF Touches
    <2>3. QED
        BY <1>1, <2>2 DEF Freed
<1>8. BootNeedsGaps
    <2> DEFINE Shared(i, j) == \E p \in 0..(npages - 1) : T(i, p) /\ T(j, p)
    <2>1. \A i, j \in DOMAIN e820_map : Shared(i, j) <=> F(i) \intersect F(j) # {}
        BY <1>1
    <2>2. Booted => \A i, j \in DOMAIN e820_map : i < j => ~Shared(i, j)
        BY <1>3, <2>1 DEF PagesSplit
    <2>3. panic /\ ~Booted => \E i, j \in DOMAIN e820_map : i < j /\ Shared(i, j)
        <3>1. SUFFICES ASSUME panic, ~Booted
                       PROVE  \E i, j \in DOMAIN e820_map : i < j /\ Shared(i, j)
            OBVIOUS
        <3>2. entry \in DOMAIN e820_map
            BY <3>1 DEF Booted
        <3>3. QED
            BY <2>1, <3>1, <3>2 DEF PagesSplit
    <2>4. QED
        BY <2>2, <2>3 DEF BootNeedsGaps
<1>9. QED
    BY <1>6, <1>7, <1>8

(* For every memory map: init_pmm panics exactly when two available        *)
(* regions, as the code sees them, touch a common page above the kernel;   *)
(* otherwise, through any sequence of pp_alloc, pp_free and pa_alloc, a    *)
(* page stays marked exactly when it has an owner or no available region   *)
(* touches it, and no page of the kernel is ever handed out.               *)
THEOREM PagesOwnedOnce ==
    ASSUME PmmAssumption
    PROVE  Spec => []OwnedExactly /\ []KernelPagesKept /\ []BootNeedsGaps
<1>1. Init => PagesSplit
    BY InitSplit
<1>2. PagesSplit /\ [Next]_pmmVars => PagesSplit'
    BY NextSplit
<1>3. PagesSplit => OwnedExactly /\ KernelPagesKept /\ BootNeedsGaps
    BY SplitSuffices
<1>4. QED
    BY <1>1, <1>2, <1>3, PTL DEF Spec

(* pp_free of a page that its caller has passes its asserts.               *)
FreePasses == \A idx \in owned : pp_free(idx) => ~panic'

(* The asserts of pp_free never fail for a page that was allocated and not *)
(* yet released, whatever else was allocated and released in between.      *)
THEOREM FreeNeverFails ==
    ASSUME PmmAssumption PROVE Spec => [][FreePasses]_pmmVars
<1>1. Init => PagesSplit
    BY InitSplit
<1>2. PagesSplit /\ [Next]_pmmVars => PagesSplit'
    BY NextSplit
<1>3. PagesSplit /\ [Next]_pmmVars => [FreePasses]_pmmVars
    <2>1. ASSUME PagesSplit, NEW idx \in owned, pp_free(idx) PROVE ~panic'
        <3>1. idx \in 0..(npages - 1)
            <4>1. PICK i \in DOMAIN e820_map : idx \in FreedBy(e820_map[i], npages)
                BY <2>1 DEF PagesSplit, Freed
            <4>2. /\ e820_map[i].addr \in Nat /\ e820_map[i].len \in Nat
                  /\ npages \in Int
                BY <2>1 DEF PagesSplit, PmmAssumption
            <4>3. QED
                BY <4>1, <4>2, FreedIsTouched
        <3>2. ~(idx >= npages \/ idx \notin physmap)
            BY <2>1, <3>1 DEF PagesSplit
        <3>3. QED
            BY <2>1, <3>2 DEF pp_free
    <2>2. QED
        BY <2>1 DEF FreePasses
<1>4. QED
    BY <1>1, <1>2, <1>3, PTL DEF Spec
=============================================================================
