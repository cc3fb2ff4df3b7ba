--------------------------------- MODULE Mm ---------------------------------
(***************************************************************************)
(* The kernel heap of mem/mm.c over mem/mem.c, at the level of its words:  *)
(* boundary tags, footers and the doubly linked free list live in the      *)
(* memory they describe.  Addresses and sizes are in words (WORD_SIZE is   *)
(* ALIGNMENT), so sizeAndTags is 4 * size + tags and 0, the word that      *)
(* holds FREE_LIST_HEAD, serves as NULL.  kmalloc and kfree run under      *)
(* mem_lock with interrupts off: each is one step.                         *)
(***************************************************************************)
EXTENDS Integers, FiniteSets

CONSTANTS PG_SIZE,    \* words of a page
          InitPages,  \* pages init_mm asks for (32 in the code)
          MaxPages,   \* pages up to kbrk_max (MAX_HEAP / PG_SIZE in the code)
          Slots,      \* numbers of the pointers the callers hold
          Requests,   \* sizes in bytes the callers ask for
          MaxCalls    \* bound: calls that allocate

MmAssumption ==
    /\ PG_SIZE \in Nat \ {0}
    /\ InitPages \in 1..MaxPages
    /\ PG_SIZE * InitPages > 5
    /\ Slots \subseteq Nat
    /\ Requests \subseteq Nat \ {0}
    /\ MaxCalls \in Nat

VARIABLES mem,        \* the words of the heap's address range
          kbrk,       \* the end of the heap
          kbrk_max,   \* the bound mem_sbrk checks, and kpalloc lowers
          ptr,        \* the pointer a caller holds, or NULL
          asked,      \* the bytes it asked for
          calls,      \* the allocations so far, up to MaxCalls
          halt        \* "no", or why the kernel stopped

heapVars == <<mem, kbrk, kbrk_max>>
vars == <<heapVars, ptr, asked, calls, halt>>

NULL == 0
FREE_LIST_HEAD == 0
MIN_BLOCK_SIZE == 4

(* The fields of struct block and the macros on its tags.                  *)
Size(m, b) == m[b] \div 4
BLOCK_IS_USED(m, b) == m[b] % 2 = 1
PREV_BLOCK_IS_USED(m, b) == (m[b] \div 2) % 2 = 1
Tags(size, used, prevUsed) ==
    4 * size + (IF used THEN 1 ELSE 0) + (IF prevUsed THEN 2 ELSE 0)
Next_(b) == b + 1
Prev_(b) == b + 2
Footer(b, size) == b + size - 1

(* Bytes rounded up to words.                                              *)
Words(bytes) == (bytes + 3) \div 4

(* valid_size: the words of a block for a request, header included.        *)
valid_size(bytes) ==
    LET w == Words(bytes) + 1
    IN  IF w <= MIN_BLOCK_SIZE THEN MIN_BLOCK_SIZE ELSE w

RoundUpPage(w) == ((w + PG_SIZE - 1) \div PG_SIZE) * PG_SIZE

(* Mutant: the footer is written too, though used blocks have none.        *)
SetPrevUsedFooter(m, b, u) ==
    LET w == Tags(Size(m, b), BLOCK_IS_USED(m, b), u)
    IN  IF Size(m, b) = 0 THEN [m EXCEPT ![b] = w]
        ELSE [m EXCEPT ![b] = w, ![Footer(b, Size(m, b))] = w]

SetPrevUsed(m, b, u) == [m EXCEPT ![b] = Tags(Size(m, b), BLOCK_IS_USED(m, b), u)]
-----------------------------------------------------------------------------
(* The first free block of at least size words, NULL if there is none.     *)
RECURSIVE FindFrom(_, _, _)
FindFrom(m, b, size) ==
    IF b = NULL \/ Size(m, b) >= size THEN b ELSE FindFrom(m, m[Next_(b)], size)

(* Mutant: only the first block of the list is looked at.                  *)
FindAtHead(m, size) ==
    LET b == m[FREE_LIST_HEAD]
    IN  IF b = NULL \/ Size(m, b) >= size THEN b ELSE NULL

find_free_block(m, size) == FindFrom(m, m[FREE_LIST_HEAD], size)

(* Mutant: the old head is not linked back to the block put before it.     *)
InsertNoBackLink(m, b) ==
    [m EXCEPT ![Next_(b)] = m[FREE_LIST_HEAD], ![FREE_LIST_HEAD] = b]

(* The prev field of the new head is left as it is.                        *)
insert_free_block(m, b) ==
    LET old == m[FREE_LIST_HEAD]
        m1  == IF old = NULL THEN m ELSE [m EXCEPT ![Prev_(old)] = b]
    IN  [m1 EXCEPT ![Next_(b)] = old, ![FREE_LIST_HEAD] = b]

remove_free_block(m, b) ==
    LET n  == m[Next_(b)]
        p  == m[Prev_(b)]
        m1 == IF n = NULL THEN m ELSE [m EXCEPT ![Prev_(n)] = p]
    IN  IF b = m[FREE_LIST_HEAD]
        THEN [m1 EXCEPT ![FREE_LIST_HEAD] = n]
        ELSE [m1 EXCEPT ![Next_(p)] = n]

(* The first loop of coalesce_free_block: the free blocks before b leave   *)
(* the list; the result is the memory and the lowest of them.              *)
RECURSIVE AbsorbBefore(_, _)
AbsorbBefore(m, b) ==
    IF PREV_BLOCK_IS_USED(m, b) THEN <<m, b>>
    ELSE LET f == b - Size(m, b - 1)
         IN  AbsorbBefore(remove_free_block(m, f), f)

(* The second loop: the free blocks from b on; the first used one after.   *)
RECURSIVE AbsorbAfter(_, _)
AbsorbAfter(m, b) ==
    IF BLOCK_IS_USED(m, b) THEN <<m, b>>
    ELSE AbsorbAfter(remove_free_block(m, b), b + Size(m, b))

coalesce_free_block(m, b) ==
    LET lo == AbsorbBefore(m, b)
        hi == AbsorbAfter(lo[1], b + Size(m, b))
        w  == Tags(hi[2] - lo[2], FALSE, TRUE)
    IN  IF hi[2] - lo[2] = Size(m, b) THEN m
        ELSE insert_free_block([remove_free_block(hi[1], b) EXCEPT
                                    ![lo[2]] = w, ![hi[2] - 1] = w], lo[2])

(* free_block: what block b of size words has beyond keep becomes free.    *)
free_block(m, b, size, keep) ==
    LET s  == b + keep
        w  == Tags(size - keep, FALSE, keep > 0 \/ PREV_BLOCK_IS_USED(m, b))
        m1 == [m EXCEPT ![s] = w, ![Footer(b, size)] = w]
    IN  coalesce_free_block(
            insert_free_block(SetPrevUsed(m1, b + size, FALSE), s), s)

(* increase_heap: the old heap footer becomes the header of the new block. *)
increase_heap(m, brk, size) ==
    LET total == RoundUpPage(size)
        b     == brk - 1
        w     == Tags(total, FALSE, PREV_BLOCK_IS_USED(m, b))
    IN  coalesce_free_block(
            insert_free_block([m EXCEPT ![b] = w,
                                        ![Footer(b, total)] = w,
                                        ![b + total] = Tags(0, TRUE, FALSE)],
                              b), b)

(* Mutant: a block taken whole is not announced to its successor.          *)
TakeSilently(m, b, size, alloc) ==
    IF size - alloc >= MIN_BLOCK_SIZE
    THEN free_block([m EXCEPT ![b] = Tags(alloc, TRUE, PREV_BLOCK_IS_USED(m, b))],
                    b, size, alloc)
    ELSE [m EXCEPT ![b] = Tags(size, TRUE, PREV_BLOCK_IS_USED(m, b))]

(* Block b, of size words and off the free list, is used for alloc words;  *)
(* what is left over becomes a free block if it is large enough for one.   *)
Take(m, b, size, alloc) ==
    IF size - alloc >= MIN_BLOCK_SIZE
    THEN free_block([m EXCEPT ![b] = Tags(alloc, TRUE, PREV_BLOCK_IS_USED(m, b))],
                    b, size, alloc)
    ELSE SetPrevUsed([m EXCEPT ![b] = Tags(size, TRUE, PREV_BLOCK_IS_USED(m, b))],
                     b + size, TRUE)

(* What the caller of slot s keeps in word i of its block: every word is   *)
(* different, and no header looks like one.                                *)
Token(s, i) == 1000 + 100 * s + i

(* The caller of slot s, with payload p, writes its words from first up to *)
(* the one before end.                                                     *)
Write(m, p, s, first, end) ==
    [a \in DOMAIN m |-> IF a - p \in first..(end - 1) THEN Token(s, a - p) ELSE m[a]]
-----------------------------------------------------------------------------
(* init_mem, init_mm and init_kmm.                                         *)
Init ==
    LET brk == InitPages * PG_SIZE
        w   == Tags(brk - 2, FALSE, TRUE)
    IN  /\ mem = [[a \in 0..(MaxPages * PG_SIZE - 1) |-> 0] EXCEPT
                     ![1] = w, ![Footer(1, brk - 2)] = w,
                     ![brk - 1] = Tags(0, TRUE, FALSE), ![FREE_LIST_HEAD] = 1]
        /\ kbrk = brk
        /\ kbrk_max = MaxPages * PG_SIZE
        /\ ptr = [s \in Slots |-> NULL]
        /\ asked = [s \in Slots |-> 0]
        /\ calls = 0
        /\ halt = "no"

Running == halt = "no"

(* No page kpalloc handed out is part of the heap.  No code checks it: a   *)
(* kpalloc can end it, and clears live blocks then.  The heap operations   *)
(* are followed up to that point; behind it their loops walk cleared tags, *)
(* and need not end.                                                       *)
Apart == kbrk <= kbrk_max

(* kmalloc; mem_sbrk panics when the heap would pass kbrk_max.  memset     *)
(* clears the block after mem_lock is released; the caller then fills it.  *)
(* The callers are interchangeable: the first one without a block calls.   *)
kmalloc(s, bytes) ==
    LET alloc == valid_size(bytes)
        full  == find_free_block(mem, alloc) = NULL
        m     == IF full THEN increase_heap(mem, kbrk, alloc) ELSE mem
        b     == find_free_block(m, alloc)
    IN  /\ Running /\ Apart /\ calls < MaxCalls
        /\ calls' = calls + 1
        /\ ptr[s] = NULL
        /\ \A t \in Slots : t < s => ptr[t] # NULL
        /\ IF full /\ kbrk + RoundUpPage(alloc) > kbrk_max
           THEN /\ halt' = "panic"
                /\ UNCHANGED <<heapVars, ptr, asked>>
           ELSE /\ mem' = Write(Take(remove_free_block(m, b), b, Size(m, b), alloc),
                                b + 1, s, 0, Words(bytes))
                /\ kbrk' = IF full THEN kbrk + RoundUpPage(alloc) ELSE kbrk
                /\ ptr' = [ptr EXCEPT ![s] = b + 1]
                /\ asked' = [asked EXCEPT ![s] = bytes]
                /\ UNCHANGED <<kbrk_max, halt>>

(* Mutant: the wrong tag is looked at.                                     *)
KfreePrevTag(s) ==
    LET b == ptr[s] - 1
    IN  /\ Running /\ Apart
        /\ ptr[s] # NULL
        /\ mem' = IF PREV_BLOCK_IS_USED(mem, b)
                  THEN free_block(mem, b, Size(mem, b), 0) ELSE mem
        /\ ptr' = [ptr EXCEPT ![s] = NULL]
        /\ asked' = [asked EXCEPT ![s] = 0]
        /\ UNCHANGED <<kbrk, kbrk_max, calls, halt>>

(* kfree, of a pointer kmalloc returned.                                   *)
kfree(s) ==
    LET b == ptr[s] - 1
    IN  /\ Running /\ Apart
        /\ ptr[s] # NULL
        /\ mem' = IF BLOCK_IS_USED(mem, b)
                  THEN free_block(mem, b, Size(mem, b), 0) ELSE mem
        /\ ptr' = [ptr EXCEPT ![s] = NULL]
        /\ asked' = [asked EXCEPT ![s] = 0]
        /\ UNCHANGED <<kbrk, kbrk_max, calls, halt>>

(* kpalloc: a page from the top of the range, cleared, down to the start   *)
(* of the range.  Nothing compares it with kbrk.                           *)
kpalloc ==
    /\ Running /\ kbrk_max > 0
    /\ kbrk_max' = kbrk_max - PG_SIZE
    /\ mem' = [a \in DOMAIN mem |->
                 IF a \in kbrk_max'..(kbrk_max - 1) THEN 0 ELSE mem[a]]
    /\ UNCHANGED <<kbrk, ptr, asked, calls, halt>>

Next ==
    \/ \E s \in Slots, n \in Requests : kmalloc(s, n)
    \/ \E s \in Slots : kfree(s)
    \/ kpalloc

Spec == Init /\ [][Next]_vars
-----------------------------------------------------------------------------
(* The headers met on the way from block b to the heap's footer; {0} marks *)
(* a walk that leaves the heap or meets a block too small to be one.       *)
RECURSIVE Walk(_)
Walk(b) ==
    IF b = kbrk - 1 THEN {}
    ELSE IF b > kbrk - 1 \/ Size(mem, b) < MIN_BLOCK_SIZE THEN {0}
    ELSE {b} \union Walk(b + Size(mem, b))

Blocks == Walk(1)
FreeBlocks == {b \in Blocks : ~BLOCK_IS_USED(mem, b)}

(* The blocks tile the heap from its first word to its footer, every       *)
(* header tells whether the block before is used, a free block ends in the *)
(* footer kfree of its successor will read, and free blocks never touch,   *)
(* as long as kpalloc has taken no page of the heap.                       *)
HeapTiled ==
    Running /\ Apart =>
        /\ 0 \notin Blocks
        /\ PREV_BLOCK_IS_USED(mem, 1)
        /\ \A b \in Blocks :
              LET n == b + Size(mem, b)
              IN  /\ PREV_BLOCK_IS_USED(mem, n) <=> BLOCK_IS_USED(mem, b)
                  /\ b \in FreeBlocks => /\ Size(mem, n - 1) = Size(mem, b)
                                         /\ n \notin FreeBlocks
        /\ Size(mem, kbrk - 1) = 0 /\ BLOCK_IS_USED(mem, kbrk - 1)

(* The list from FREE_LIST_HEAD, cut where it leaves the free blocks or    *)
(* meets one again.                                                        *)
RECURSIVE Listed(_, _)
Listed(b, seen) ==
    IF b \notin FreeBlocks \ seen THEN seen \union {b}
    ELSE Listed(mem[Next_(b)], seen \union {b})

(* The free list holds every free block once, ends in NULL, and all its    *)
(* back links but the head's (which nothing reads) are right, as long as   *)
(* kpalloc has taken no page of the heap.                                  *)
FreeListExact ==
    Running /\ Apart =>
        /\ Listed(mem[FREE_LIST_HEAD], {}) = FreeBlocks \union {NULL}
        /\ \A b \in FreeBlocks :
              mem[Next_(b)] # NULL => mem[Prev_(mem[Next_(b)])] = b

(* What a caller wrote in its block stays there until it frees it: no two  *)
(* live blocks overlap and the allocator's own tags and links keep out.    *)
(* Only kpalloc takes it away, and only the words of pages it handed out.  *)
PayloadKept ==
    Running => \A s \in Slots : \A i \in 0..(Words(asked[s]) - 1) :
                  ptr[s] # NULL => mem[ptr[s] + i] =
                      IF ptr[s] + i < kbrk_max THEN Token(s, i) ELSE 0

(* Every live pointer is the payload of a used block of the heap and every *)
(* used block is some caller's: nothing leaks through splits and merges,   *)
(* as long as kpalloc has taken no page of the heap.                       *)
UsedBlocksOwned ==
    Running /\ Apart =>
        {ptr[s] - 1 : s \in {t \in Slots : ptr[t] # NULL}} = Blocks \ FreeBlocks

(* A step grows the heap only for a request no free block can serve.       *)
GrowsOnlyWhenFull ==
    kbrk' > kbrk => \E s \in Slots :
        /\ ptr[s] = NULL /\ ptr'[s] # NULL
        /\ \A b \in FreeBlocks : Size(mem, b) < valid_size(asked'[s])
=============================================================================
