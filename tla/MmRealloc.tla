----------------------------- MODULE MmRealloc ------------------------------
(***************************************************************************)
(* krealloc of mem/mm.c beside kmalloc and kfree, on the heap of module Mm.*)
(* Each way krealloc can serve a request is an action; they exclude each   *)
(* other in the order the code tries them.  Called with a null pointer or  *)
(* size 0 it is kmalloc or kfree, which the next-state relation has.       *)
(***************************************************************************)
EXTENDS Mm

VARIABLE gap   \* history: a heap extension left words no block describes

rvars == <<vars, gap>>

RInit == Init /\ gap = FALSE

(* The block of slot s, its neighbours and their sizes.                    *)
Block(s) == ptr[s] - 1
BlockSize(s) == Size(mem, Block(s))
NextBlock(s) == Block(s) + BlockSize(s)
NextFree(s) == ~BLOCK_IS_USED(mem, NextBlock(s))
WithNext(s) == BlockSize(s) + (IF NextFree(s) THEN Size(mem, NextBlock(s)) ELSE 0)
PrevFree(s) == ~PREV_BLOCK_IS_USED(mem, Block(s))
PrevSize(s) == Size(mem, Block(s) - 1)
PrevBlock(s) == Block(s) - PrevSize(s)
AfterNext(s) == NextBlock(s) + Size(mem, NextBlock(s))

(* The two tests for the end of the heap: block, or the free block behind  *)
(* it, is followed by the footer of size 0.                                *)
IsLast(s) == Size(mem, NextBlock(s)) = 0
NextIsLast(s) == NextFree(s) /\ Size(mem, AfterNext(s)) = 0

(* Mutant: the words are copied from the last to the first.                *)
CopyDownwards(m, src, dst) ==
    LET n == Size(m, src) - 1
        copied[i \in 0..n] ==
            IF i = 0 THEN m
            ELSE [copied[i - 1] EXCEPT ![dst + n + 1 - i] = copied[i - 1][src + n + 1 - i]]
    IN  copied[n]

(* copy_payload: word by word from the first to the last, where the two    *)
(* payloads may overlap.                                                   *)
copy_payload(m, src, dst) ==
    LET n == Size(m, src) - 1
        copied[i \in 0..n] ==
            IF i = 0 THEN m
            ELSE [copied[i - 1] EXCEPT ![dst + i] = copied[i - 1][src + i]]
    IN  copied[n]

(* The call: the caller holds a block and asks for another size.  Data it  *)
(* will have no room for it clears first.                                  *)
Calls(s, bytes) ==
    /\ Running /\ Apart /\ ~gap /\ calls < MaxCalls
    /\ ptr[s] # NULL /\ asked[s] # bytes
    /\ calls' = calls + 1

(* The return, with memory m and payload p: the caller uses the room it    *)
(* gained, and finds its old data in the rest.                             *)
Returns(s, bytes, m, p) ==
    /\ mem' = Write(m, p, s, Words(asked[s]), Words(bytes))
    /\ ptr' = [ptr EXCEPT ![s] = p]
    /\ asked' = [asked EXCEPT ![s] = bytes]

Cleared(s, bytes) ==
    [a \in DOMAIN mem |-> IF a - ptr[s] \in Words(bytes)..(Words(asked[s]) - 1)
                          THEN 0 ELSE mem[a]]

(* A request the block has room for; the excess is freed if possible.      *)
Shrink(s, bytes) ==
    LET alloc == valid_size(bytes)
        m     == Cleared(s, bytes)
    IN  /\ Calls(s, bytes)
        /\ alloc <= BlockSize(s)
        /\ mem' = (IF BlockSize(s) - alloc >= MIN_BLOCK_SIZE
                   THEN Take(m, Block(s), BlockSize(s), alloc)
                   ELSE Write(m, ptr[s], s, Words(asked[s]), Words(bytes)))
        /\ asked' = [asked EXCEPT ![s] = bytes]
        /\ UNCHANGED <<kbrk, kbrk_max, ptr, halt, gap>>

(* mem_sbrk extends the heap by the missing words, rounded up to pages;    *)
(* the block gets what it asked for, the last word becomes the footer.     *)
Extend(s, bytes, m, missing) ==
    IF kbrk + RoundUpPage(missing) > kbrk_max
    THEN halt' = "panic" /\ UNCHANGED <<mem, kbrk, ptr, asked, gap>>
    ELSE /\ kbrk' = kbrk + RoundUpPage(missing)
         /\ Returns(s, bytes,
                [m EXCEPT ![Block(s)] = Tags(valid_size(bytes), TRUE,
                                             PREV_BLOCK_IS_USED(m, Block(s))),
                          ![kbrk' - 1] = Tags(0, TRUE, TRUE)], ptr[s])
         /\ gap' = (RoundUpPage(missing) # missing)
         /\ UNCHANGED halt

ExtendLast(s, bytes) ==
    LET alloc == valid_size(bytes)
    IN  /\ Calls(s, bytes)
        /\ alloc > BlockSize(s)
        /\ IsLast(s)
        /\ Extend(s, bytes, mem, alloc - BlockSize(s))
        /\ UNCHANGED kbrk_max

(* Mutant: the block merged stays on the free list.                        *)
MergeNextListed(s, bytes) ==
    LET alloc == valid_size(bytes)
    IN  /\ Calls(s, bytes)
        /\ alloc > BlockSize(s)
        /\ ~IsLast(s) /\ NextFree(s) /\ WithNext(s) >= alloc
        /\ Returns(s, bytes, Take(mem, Block(s), WithNext(s), alloc), ptr[s])
        /\ UNCHANGED <<kbrk, kbrk_max, halt, gap>>

(* The free block behind makes up for what is missing.                     *)
MergeNext(s, bytes) ==
    LET alloc == valid_size(bytes)
    IN  /\ Calls(s, bytes)
        /\ alloc > BlockSize(s)
        /\ ~IsLast(s) /\ NextFree(s) /\ WithNext(s) >= alloc
        /\ Returns(s, bytes, Take(remove_free_block(mem, NextBlock(s)),
                                  Block(s), WithNext(s), alloc), ptr[s])
        /\ UNCHANGED <<kbrk, kbrk_max, halt, gap>>

(* It does not, but it is the last block of the heap.                      *)
MergeNextExtend(s, bytes) ==
    LET alloc == valid_size(bytes)
    IN  /\ Calls(s, bytes)
        /\ ~IsLast(s) /\ WithNext(s) < alloc /\ NextIsLast(s)
        /\ Extend(s, bytes, remove_free_block(mem, NextBlock(s)),
                  alloc - WithNext(s))
        /\ UNCHANGED kbrk_max

(* None of the above serves a request larger than the block.               *)
NotInPlace(s, bytes) ==
    LET alloc == valid_size(bytes)
    IN  /\ Calls(s, bytes)
        /\ alloc > BlockSize(s)
        /\ ~IsLast(s)
        /\ NextFree(s) => WithNext(s) < alloc /\ ~NextIsLast(s)

(* Mutant: the data stays where it was when the block moves down.          *)
MergePrevNoCopy(s, bytes) ==
    LET alloc == valid_size(bytes)
        m     == remove_free_block(mem, PrevBlock(s))
    IN  /\ NotInPlace(s, bytes)
        /\ PrevFree(s) /\ PrevSize(s) + WithNext(s) >= alloc
        /\ Returns(s, bytes, Take(IF NextFree(s)
                                  THEN remove_free_block(m, NextBlock(s)) ELSE m,
                                  PrevBlock(s), PrevSize(s) + WithNext(s), alloc),
                   PrevBlock(s) + 1)
        /\ UNCHANGED <<kbrk, kbrk_max, halt, gap>>

(* The free block before, with the free block behind if there is one,      *)
(* makes up for it; the data moves down.  (With a free block behind, the   *)
(* last attempt, without it, can never be the one that succeeds.)          *)
MergePrev(s, bytes) ==
    LET alloc == valid_size(bytes)
        m1    == IF NextFree(s) THEN remove_free_block(mem, NextBlock(s)) ELSE mem
        m     == remove_free_block(m1, PrevBlock(s))
    IN  /\ NotInPlace(s, bytes)
        /\ PrevFree(s) /\ PrevSize(s) + WithNext(s) >= alloc
        /\ Returns(s, bytes, Take(copy_payload(m, Block(s), PrevBlock(s)),
                                  PrevBlock(s), PrevSize(s) + WithNext(s), alloc),
                   PrevBlock(s) + 1)
        /\ UNCHANGED <<kbrk, kbrk_max, halt, gap>>

(* kmalloc, called with mem_lock held: the assert of spinlock_acquire.     *)
FallBack(s, bytes) ==
    /\ NotInPlace(s, bytes)
    /\ PrevFree(s) => PrevSize(s) + WithNext(s) < valid_size(bytes)
    /\ halt' = "assert"
    /\ UNCHANGED <<heapVars, ptr, asked, gap>>

krealloc(s, bytes) ==
    \/ Shrink(s, bytes)
    \/ ExtendLast(s, bytes)
    \/ MergeNext(s, bytes)
    \/ MergeNextExtend(s, bytes)
    \/ MergePrev(s, bytes)
    \/ FallBack(s, bytes)

RNext ==
    \/ ~gap /\ (\E s \in Slots, n \in Requests : kmalloc(s, n)) /\ UNCHANGED gap
    \/ ~gap /\ (\E s \in Slots : kfree(s)) /\ UNCHANGED gap
    \/ ~gap /\ kpalloc /\ UNCHANGED gap
    \/ \E s \in Slots, n \in Requests : krealloc(s, n)

RSpec == RInit /\ [][RNext]_rvars
-----------------------------------------------------------------------------
(* krealloc keeps the structure of the heap, whichever way it serves the   *)
(* request, as long as no extension leaves a gap and kpalloc takes no page *)
(* of the heap.                                                            *)
ReallocKeepsHeap ==
    ~gap => HeapTiled /\ FreeListExact /\ UsedBlocksOwned

(* krealloc keeps what the caller wrote, in place or moved down over the   *)
(* block before, where the copy overlaps what it copies, and everybody     *)
(* else's data.                                                            *)
ReallocKeepsPayload == PayloadKept
=============================================================================
