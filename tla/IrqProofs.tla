------------------------------ MODULE IrqProofs -----------------------------
(***************************************************************************)
(* Proofs about Irq for any threads, lines and depth of nesting: pushing   *)
(* and popping a frame changes the frames of the second controller as      *)
(* delivering and acknowledging change its lines in service.               *)
(***************************************************************************)
EXTENDS Irq, FiniteSetTheorems, SequenceTheorems,
        WellFoundedInduction, TLAPS

Frames == [int_no : Nat, masked : BOOLEAN]

(* The types the steps rely on, and the depth of the stacks.               *)
IrqTypes ==
    /\ pic \in [irr : SUBSET Lines, master : SUBSET (0..15), slave : SUBSET (SLAVE..15)]
    /\ cur \in Threads
    /\ ready \in Seq(Threads)
    /\ asleep \subseteq Threads
    /\ frames \in [Threads -> Seq(Frames)]
    /\ ~halted => \A t \in Threads : Len(frames[t]) <= MaxFrames

IInv == IrqTypes /\ SlaveInService

IsSlave(s, i) == i <= Len(s) /\ s[i].int_no >= IRQ_OFFSET + SLAVE

(* Both sets that are counted are finite.                                  *)
LEMMA Finite ==
    ASSUME IrqAssumption, IrqTypes
    PROVE  IsFiniteSet(pic.slave) /\ IsFiniteSet(SlaveFrames)
<1>1. IsFiniteSet(pic.slave)
    <2>1. IsFiniteSet(8..15)
        <3>1. PICK a \in Int, b \in Int : a = 8 /\ b = 15
            OBVIOUS
        <3>2. IsFiniteSet(a..b)
            BY FS_Interval
        <3>3. QED
            BY <3>1, <3>2
    <2>2. pic.slave \in SUBSET (8..15)
        BY DEF IrqTypes, SLAVE
    <2>3. QED
        BY <2>1, <2>2, FS_Subset
<1>2. IsFiniteSet(Threads \X (1..MaxFrames))
    <2>1. IsFiniteSet(1..MaxFrames)
        BY FS_Interval DEF IrqAssumption
    <2>2. QED
        BY <2>1, FS_Product DEF IrqAssumption
<1>3. SlaveFrames \subseteq Threads \X (1..MaxFrames)
    BY DEF SlaveFrames
<1>4. QED
    BY <1>1, <1>2, <1>3, FS_Subset

(* Membership in SlaveFrames, frame by frame.                              *)
LEMMA SlaveFramesElements ==
    /\ \A f \in SlaveFrames : f \in Threads \X (1..MaxFrames) /\ f = <<f[1], f[2]>>
    /\ \A t \in Threads, i \in 1..MaxFrames :
          <<t, i>> \in SlaveFrames <=> IsSlave(frames[t], i)
    BY DEF SlaveFrames, IsSlave

(* The same in the next state.                                             *)
LEMMA SlaveFramesElementsNext ==
    /\ \A f \in SlaveFrames' : f \in Threads \X (1..MaxFrames) /\ f = <<f[1], f[2]>>
    /\ \A t \in Threads, i \in 1..MaxFrames :
          <<t, i>> \in SlaveFrames' <=> IsSlave(frames'[t], i)
    BY DEF SlaveFrames, IsSlave

(* Two sets of frames with the same elements are the same.                 *)
LEMMA SamePairs ==
    ASSUME NEW T, NEW U, NEW A \in SUBSET (T \X U), NEW B \in SUBSET (T \X U),
           \A t \in T, i \in U : <<t, i>> \in A <=> <<t, i>> \in B
    PROVE  A = B
<1>1. ASSUME NEW f \in T \X U PROVE f \in A <=> f \in B
    <2>1. PICK t \in T, i \in U : f = <<t, i>>
        BY SMT
    <2>2. QED
        BY <2>1, Zenon
<1>2. QED
    BY <1>1, Zenon

(* A stub that pushes the frame of a line adds it, if the line is one of   *)
(* the second controller's.                                                *)
LEMMA EnterAdds ==
    ASSUME IrqAssumption, IrqTypes, NEW v \in Nat, Enter(v),
           Len(frames[cur]) < MaxFrames
    PROVE  /\ <<cur, Len(frames[cur]) + 1>> \notin SlaveFrames
           /\ SlaveFrames' = IF v >= IRQ_OFFSET + SLAVE
                             THEN SlaveFrames \union {<<cur, Len(frames[cur]) + 1>>}
                             ELSE SlaveFrames
<1> DEFINE s == frames[cur]
           n == Len(s) + 1
           big == v >= IRQ_OFFSET + SLAVE
           e == [int_no |-> v, masked |-> GateMasks]
<1>1. /\ s \in Seq(Frames) /\ e \in Frames /\ Len(s) \in Nat /\ MaxFrames \in Nat
      /\ n \in 1..MaxFrames
    BY DEF IrqTypes, IrqAssumption, Frames, GateMasks
<1>2. /\ frames'[cur] = Append(s, e)
      /\ \A t \in Threads : t # cur => frames'[t] = frames[t]
    BY DEF Enter, IrqTypes
<1>3. \A i \in 1..MaxFrames : /\ i # n => (IsSlave(Append(s, e), i) <=> IsSlave(s, i))
                              /\ ~IsSlave(s, n)
                              /\ IsSlave(Append(s, e), n) <=> big
    <2> HIDE DEF s, e
    <2>1. /\ Len(Append(s, e)) = Len(s) + 1
          /\ \A i \in 1..Len(s) : Append(s, e)[i] = s[i]
          /\ Append(s, e)[n] = e
        BY <1>1
    <2>2. e.int_no = v
        BY DEF e
    <2>3. QED
        BY <1>1, <2>1, <2>2 DEF IsSlave
<1>4. cur \in Threads /\ frames[cur] = s
    BY DEF IrqTypes
<1> HIDE DEF s, n, e, big
<1>5. \A t \in Threads, i \in 1..MaxFrames :
         ~(t = cur /\ i = n) => (<<t, i>> \in SlaveFrames' <=> <<t, i>> \in SlaveFrames)
    <2>1. ASSUME NEW t \in Threads, NEW i \in 1..MaxFrames, t # cur
          PROVE  <<t, i>> \in SlaveFrames' <=> <<t, i>> \in SlaveFrames
        BY <1>2, <2>1, SlaveFramesElements, SlaveFramesElementsNext
    <2>2. ASSUME NEW i \in 1..MaxFrames, i # n
          PROVE  <<cur, i>> \in SlaveFrames' <=> <<cur, i>> \in SlaveFrames
        <3>1. IsSlave(frames'[cur], i) <=> IsSlave(frames[cur], i)
            BY <1>2, <1>3, <1>4, <2>2, Zenon
        <3>2. QED
            BY <1>4, <3>1, SlaveFramesElements, SlaveFramesElementsNext, Zenon
    <2>3. QED
        BY <2>1, <2>2
<1>6. <<cur, n>> \notin SlaveFrames
    BY <1>1, <1>3, <1>4, SlaveFramesElements
<1>7. <<cur, n>> \in SlaveFrames' <=> big
    BY <1>1, <1>2, <1>3, <1>4, SlaveFramesElementsNext
<1>8. CASE big
    <2>1. SlaveFrames' = SlaveFrames \union {<<cur, n>>}
        BY <1>1, <1>4, <1>5, <1>7, <1>8, SlaveFramesElements, SlaveFramesElementsNext
    <2>2. QED
        BY <1>6, <1>8, <2>1 DEF big, n, s
<1>9. CASE ~big
    <2>1. SlaveFrames' = SlaveFrames
        <3>1. \A t \in Threads, i \in 1..MaxFrames :
                 <<t, i>> \in SlaveFrames' <=> <<t, i>> \in SlaveFrames
            BY <1>5, <1>6, <1>7, <1>9
        <3>2. QED
            BY <3>1, SamePairs DEF SlaveFrames
    <2>2. QED
        BY <1>6, <1>9, <2>1 DEF big, n, s
<1>10. QED
    BY <1>8, <1>9

(* What popping does to a stack.                                           *)
LEMMA PopFacts ==
    ASSUME NEW S, NEW q \in Seq(S), Len(q) >= 1
    PROVE  /\ Len(SubSeq(q, 1, Len(q) - 1)) = Len(q) - 1
           /\ \A i \in 1..(Len(q) - 1) : SubSeq(q, 1, Len(q) - 1)[i] = q[i]
           /\ SubSeq(q, 1, Len(q) - 1) \in Seq(S)
<1>1. PICK k \in Nat : k = Len(q) - 1
    OBVIOUS
<1>2. \A i \in 1..k : q[i] \in S
    BY <1>1
<1>3. /\ SubSeq(q, 1, k) \in Seq(S)
      /\ Len(SubSeq(q, 1, k)) = IF 1 <= k THEN k - 1 + 1 ELSE 0
      /\ \A i \in 1..(k - 1 + 1) : SubSeq(q, 1, k)[i] = q[1 + i - 1]
    BY <1>2, SubSeqProperties
<1>4. QED
    BY <1>1, <1>3

(* iret pops the innermost frame of the thread.                            *)
LEMMA ReturnRemoves ==
    ASSUME IrqAssumption, IrqTypes, Return, frames[cur] # << >>,
           Len(frames[cur]) <= MaxFrames
    PROVE  /\ SlaveFrames' = SlaveFrames \ {<<cur, Len(frames[cur])>>}
           /\ <<cur, Len(frames[cur])>> \in SlaveFrames
                 <=> Top(cur).int_no >= IRQ_OFFSET + SLAVE
<1> DEFINE s == frames[cur]
           n == Len(s)
           r == SubSeq(s, 1, n - 1)
<1>1. /\ s \in Seq(Frames) /\ MaxFrames \in Nat /\ n \in 1..MaxFrames /\ cur \in Threads
    BY DEF IrqTypes, IrqAssumption
<1>2. /\ frames'[cur] = r
      /\ \A t \in Threads : t # cur => frames'[t] = frames[t]
    BY DEF Return, Popped, IrqTypes
<1>3. \A i \in 1..MaxFrames : IsSlave(r, i) <=> i # n /\ IsSlave(s, i)
    <2>1. /\ Len(r) = n - 1
          /\ \A i \in 1..(n - 1) : r[i] = s[i]
        BY <1>1, PopFacts
    <2> HIDE DEF s, r
    <2>2. QED
        BY <1>1, <2>1 DEF IsSlave
<1>4. IsSlave(s, n) <=> Top(cur).int_no >= IRQ_OFFSET + SLAVE
    BY <1>1 DEF IsSlave, Top
<1>5. frames[cur] = s
    OBVIOUS
<1> HIDE DEF s, n, r
<1>6. \A t \in Threads, i \in 1..MaxFrames :
         <<t, i>> \in SlaveFrames' <=> <<t, i>> \in SlaveFrames /\ ~(t = cur /\ i = n)
    <2>1. SUFFICES ASSUME NEW t \in Threads, NEW i \in 1..MaxFrames
          PROVE  <<t, i>> \in SlaveFrames' <=>
                    <<t, i>> \in SlaveFrames /\ ~(t = cur /\ i = n)
        OBVIOUS
    <2>2. CASE t # cur
        BY <1>2, <2>2, SlaveFramesElements, SlaveFramesElementsNext
    <2>3. CASE t = cur
        BY <1>2, <1>3, <1>5, <2>3, SlaveFramesElements, SlaveFramesElementsNext
    <2>4. QED
        BY <2>2, <2>3
<1>7. SlaveFrames' = SlaveFrames \ {<<cur, n>>}
    BY <1>1, <1>6, SlaveFramesElements, SlaveFramesElementsNext
<1>8. <<cur, n>> \in SlaveFrames <=> Top(cur).int_no >= IRQ_OFFSET + SLAVE
    BY <1>1, <1>4, <1>5, SlaveFramesElements
<1>9. QED
    BY <1>7, <1>8 DEF n, s

(* The cli of a stub changes the flag of the innermost frame only.         *)
LEMMA StubKeeps ==
    ASSUME IrqAssumption, IrqTypes, NEW n \in 1..MaxFrames, StubCli(n)
    PROVE  SlaveFrames' = SlaveFrames /\ IrqTypes'
<1> DEFINE s == frames[cur]
           r == SubSeq(s, 1, Len(s) - 1)
           e == [Top(cur) EXCEPT !.masked = TRUE]
<1>1. /\ s \in Seq(Frames) /\ n = Len(s) /\ cur \in Threads /\ n \in Nat /\ n >= 1
      /\ MaxFrames \in Nat
    BY DEF IrqTypes, StubCli, IrqAssumption
<1>2. /\ frames' = [frames EXCEPT ![cur] = Append(r, e)]
      /\ Top(cur) = s[n]
    BY <1>1 DEF StubCli, Popped, Top
<1>3. e \in Frames /\ e.int_no = s[n].int_no
    <2>1. s[n] \in Frames
        BY <1>1
    <2>2. QED
        BY <1>2, <2>1 DEF Frames
<1>4. /\ r \in Seq(Frames) /\ Len(r) = n - 1
      /\ \A i \in 1..(n - 1) : r[i] = s[i]
    BY <1>1, PopFacts
<1> HIDE DEF s, r, e
<1>5. /\ Append(r, e) \in Seq(Frames) /\ Len(Append(r, e)) = n
      /\ \A i \in 1..(n - 1) : Append(r, e)[i] = s[i]
      /\ Append(r, e)[n] = e
    BY <1>1, <1>3, <1>4
<1>6. \A i \in 1..MaxFrames : IsSlave(Append(r, e), i) <=> IsSlave(s, i)
    BY <1>1, <1>3, <1>5 DEF IsSlave
<1>7. /\ frames'[cur] = Append(r, e)
      /\ \A t \in Threads : t # cur => frames'[t] = frames[t]
      /\ frames' \in [Threads -> Seq(Frames)]
    BY <1>1, <1>2, <1>5 DEF IrqTypes
<1>8. IrqTypes'
    BY <1>1, <1>5, <1>7 DEF IrqTypes, StubCli
<1>9. \A t \in Threads, i \in 1..MaxFrames :
         <<t, i>> \in SlaveFrames' <=> <<t, i>> \in SlaveFrames
    <2>1. \A t \in Threads, i \in 1..MaxFrames :
             IsSlave(frames'[t], i) <=> IsSlave(frames[t], i)
        BY <1>6, <1>7, Zenon DEF s
    <2>2. QED
        BY <2>1, SlaveFramesElements, SlaveFramesElementsNext, Zenon
<1>10. QED
    BY <1>8, <1>9, SamePairs DEF SlaveFrames

(* The foremost of some lines in service is one of them.                   *)
LEMMA MinIsMember ==
    ASSUME NEW S \in SUBSET Nat, S # {} PROVE Min(S) \in S
<1> DEFINE R == {ss \in Nat \X Nat : ss[1] < ss[2]}
<1>1. IsWellFoundedOn(R, Nat)
    BY NatLessThanWellFounded, Zenon DEF OpToRel
<1>2. PICK x \in S : \A y \in S : ~(<<y, x>> \in R)
    BY <1>1, WFMin
<1>3. ASSUME NEW y \in S PROVE x <= y
    <2>1. x \in Nat /\ y \in Nat
        OBVIOUS
    <2>2. y < x => <<y, x>> \in R
        BY <2>1
    <2>3. QED
        BY <1>2, <2>1, <2>2
<1>4. QED
    BY <1>3 DEF Min

(* An end of interrupt takes exactly one line out of service, if any is.   *)
LEMMA EoiRemovesOne ==
    ASSUME NEW S \in SUBSET Nat, IsFiniteSet(S)
    PROVE  /\ Eoi(S) \subseteq S
           /\ S # {} => Cardinality(Eoi(S)) = Cardinality(S) - 1
    BY MinIsMember, FS_RemoveElement DEF Eoi

(* After a handler's frame is popped the types still hold.                 *)
LEMMA ReturnTypes ==
    ASSUME IrqTypes, Return, frames[cur] # << >>, ~halted
    PROVE  /\ frames' \in [Threads -> Seq(Frames)]
           /\ MaxFrames \in Nat => \A t \in Threads : Len(frames'[t]) <= MaxFrames
<1>1. /\ frames[cur] \in Seq(Frames) /\ cur \in Threads
      /\ Len(frames[cur]) \in Nat /\ Len(frames[cur]) >= 1
    BY DEF IrqTypes
<1>2. Popped(cur) \in Seq(Frames) /\ Len(Popped(cur)) = Len(frames[cur]) - 1
    BY <1>1, PopFacts DEF Popped
<1>3. frames' \in [Threads -> Seq(Frames)]
    BY <1>1, <1>2 DEF Return, IrqTypes
<1>4. \A t \in Threads : frames'[t] = IF t = cur THEN Popped(cur) ELSE frames[t]
    BY DEF Return, IrqTypes
<1>5. MaxFrames \in Nat => \A t \in Threads : Len(frames'[t]) <= MaxFrames
    BY <1>1, <1>2, <1>4 DEF IrqTypes
<1>6. QED
    BY <1>3, <1>5

(* An interrupt's frame keeps the types.                                   *)
LEMMA EnterTypes ==
    ASSUME IrqTypes, NEW v \in Nat, Enter(v), MaxFrames \in Nat
    PROVE  /\ frames' \in [Threads -> Seq(Frames)]
           /\ Interruptible => \A t \in Threads : Len(frames'[t]) <= MaxFrames
<1> DEFINE e == [int_no |-> v, masked |-> GateMasks]
<1>1. frames[cur] \in Seq(Frames) /\ cur \in Threads /\ e \in Frames
    BY DEF IrqTypes, Frames, GateMasks
<1>2. /\ Append(frames[cur], e) \in Seq(Frames)
      /\ Len(Append(frames[cur], e)) = Len(frames[cur]) + 1 /\ Len(frames[cur]) \in Nat
    BY <1>1
<1>3. /\ frames' = [frames EXCEPT ![cur] = Append(frames[cur], e)]
      /\ \A t \in Threads : frames'[t] = IF t = cur THEN Append(frames[cur], e)
                                                    ELSE frames[t]
    BY DEF Enter, IrqTypes
<1> HIDE DEF e
<1>4. frames' \in [Threads -> Seq(Frames)]
    BY <1>1, <1>2, <1>3 DEF IrqTypes
<1>5. Interruptible => \A t \in Threads : Len(frames'[t]) <= MaxFrames
    BY <1>1, <1>2, <1>3 DEF Interruptible, IrqTypes
<1>6. QED
    BY <1>4, <1>5

(* No line of the second controller is delivered twice: its frame and the  *)
(* line in service are added together.                                     *)
LEMMA DeliverIInv ==
    ASSUME IrqAssumption, IInv, NEW l \in Lines, Deliver(l) PROVE IInv'
<1>1. /\ l \in 0..15 /\ MaxFrames \in Nat /\ IRQ_OFFSET + l \in Nat
      /\ Len(frames[cur]) < MaxFrames /\ IrqTypes
    BY DEF IrqAssumption, IRQ_OFFSET, Deliver, Interruptible, IInv
<1>2. IrqTypes'
    <2>1. /\ frames' \in [Threads -> Seq(Frames)]
          /\ \A t \in Threads : Len(frames'[t]) <= MaxFrames
        BY <1>1, EnterTypes DEF Deliver
    <2>2. pic' \in [irr : SUBSET Lines, master : SUBSET (0..15), slave : SUBSET (SLAVE..15)]
        BY <1>1 DEF IrqTypes, Deliver, MasterLine, SLAVE, IRQ_SLAVE
    <2>3. QED
        BY <1>1, <2>1, <2>2 DEF IrqTypes, Deliver
<1>3. CASE l >= SLAVE
    <2>1. pic'.slave = pic.slave \union {l} /\ l \notin pic.slave
        BY <1>1, <1>3 DEF Deliver, Deliverable, IrqTypes, SLAVE
    <2>2. /\ SlaveFrames' = SlaveFrames \union {<<cur, Len(frames[cur]) + 1>>}
          /\ <<cur, Len(frames[cur]) + 1>> \notin SlaveFrames
        <3>1. IRQ_OFFSET + l >= IRQ_OFFSET + SLAVE
            BY <1>1, <1>3 DEF IRQ_OFFSET, SLAVE
        <3>2. QED
            BY <1>1, <3>1, EnterAdds DEF Deliver
    <2>3. /\ Cardinality(pic'.slave) = Cardinality(pic.slave) + 1
          /\ Cardinality(SlaveFrames') = Cardinality(SlaveFrames) + 1
        BY <1>1, <2>1, <2>2, Finite, FS_AddElement
    <2>4. QED
        BY <1>2, <2>3 DEF IInv, SlaveInService
<1>4. CASE ~(l >= SLAVE)
    <2>1. pic'.slave = pic.slave
        BY <1>4 DEF Deliver
    <2>2. SlaveFrames' = SlaveFrames
        <3>1. ~(IRQ_OFFSET + l >= IRQ_OFFSET + SLAVE)
            BY <1>1, <1>4 DEF IRQ_OFFSET, SLAVE
        <3>2. QED
            BY <1>1, <3>1, EnterAdds DEF Deliver
    <2>3. QED
        BY <1>2, <2>1, <2>2 DEF IInv, SlaveInService
<1>5. QED
    BY <1>3, <1>4

(* irq_handler acknowledges the second controller for a frame of it, which *)
(* it pops, and for no other.                                              *)
LEMMA HandlerIInv ==
    ASSUME IrqAssumption, IInv, NEW l \in Lines, irq_handler(l) PROVE IInv'
<1>1. /\ l \in 0..15 /\ MaxFrames \in Nat /\ IrqTypes
      /\ Return /\ frames[cur] # << >> /\ ~halted /\ cur \in Threads
      /\ Top(cur).int_no = IRQ_OFFSET + l
      /\ Len(frames[cur]) <= MaxFrames
    BY DEF IrqAssumption, irq_handler, Handling, IInv, IrqTypes
<1>2. /\ pic.slave \in SUBSET Nat /\ IsFiniteSet(pic.slave)
      /\ pic.master \in SUBSET Nat /\ IsFiniteSet(SlaveFrames)
    <2>1. IsFiniteSet(pic.slave) /\ IsFiniteSet(SlaveFrames)
        BY <1>1, Finite
    <2>2. pic.slave \in SUBSET Nat /\ pic.master \in SUBSET Nat
        <3>1. SLAVE..15 \subseteq Nat /\ 0..15 \subseteq Nat
            BY DEF SLAVE
        <3>2. pic.slave \subseteq SLAVE..15 /\ pic.master \subseteq 0..15
            BY <1>1 DEF IrqTypes
        <3>3. QED
            BY <3>1, <3>2, Zenon
    <2>3. QED
        BY <2>1, <2>2
<1>3. /\ pic'.slave = IF l >= SLAVE THEN Eoi(pic.slave) ELSE pic.slave
      /\ pic'.master = Eoi(pic.master)
      /\ pic'.irr = pic.irr
      /\ pic' = [irr |-> pic'.irr, master |-> pic'.master, slave |-> pic'.slave]
    <2>1. IRQ_OFFSET + l >= 40 <=> l >= SLAVE
        BY <1>1 DEF IRQ_OFFSET, SLAVE
    <2>2. pic' = [pic EXCEPT !.slave = IF l >= SLAVE THEN Eoi(@) ELSE @,
                             !.master = Eoi(@)]
        BY <2>1 DEF irq_handler, Acknowledge
    <2>3. QED
        BY <1>1, <2>2 DEF IrqTypes
<1>4. Eoi(pic.slave) \subseteq pic.slave /\ Eoi(pic.master) \subseteq pic.master
    BY <1>2, MinIsMember DEF Eoi
<1>5. IrqTypes'
    <2>1. /\ frames' \in [Threads -> Seq(Frames)]
          /\ \A t \in Threads : Len(frames'[t]) <= MaxFrames
        BY <1>1, ReturnTypes
    <2>2. pic' \in [irr : SUBSET Lines, master : SUBSET (0..15), slave : SUBSET (SLAVE..15)]
        BY <1>3, <1>4 DEF IrqTypes, IInv
    <2>3. QED
        BY <1>1, <2>1, <2>2 DEF IrqTypes, irq_handler
<1>6. /\ SlaveFrames' = SlaveFrames \ {<<cur, Len(frames[cur])>>}
      /\ <<cur, Len(frames[cur])>> \in SlaveFrames <=> l >= SLAVE
    BY <1>1, ReturnRemoves DEF IRQ_OFFSET, SLAVE
<1>7. CASE l >= SLAVE
    <2>1. Cardinality(SlaveFrames') = Cardinality(SlaveFrames) - 1
        <3>1. PICK x \in SlaveFrames : SlaveFrames' = SlaveFrames \ {x}
            BY <1>6, <1>7, Zenon
        <3>2. QED
            BY <1>2, <3>1, FS_RemoveElement
    <2>2. pic.slave # {}
        BY <1>2, <1>6, <1>7, FS_EmptySet DEF IInv, SlaveInService
    <2>3. Cardinality(pic'.slave) = Cardinality(pic.slave) - 1
        BY <1>2, <1>3, <1>7, <2>2, EoiRemovesOne
    <2>4. QED
        BY <1>5, <2>1, <2>3 DEF IInv, SlaveInService
<1>8. CASE ~(l >= SLAVE)
    <2>1. SlaveFrames' = SlaveFrames /\ pic'.slave = pic.slave
        BY <1>3, <1>6, <1>8
    <2>2. QED
        BY <1>5, <2>1 DEF IInv, SlaveInService
<1>9. QED
    BY <1>7, <1>8

(* A tick pops its frame, which is not the second controller's, whether it *)
(* switches threads or returns.                                            *)
LEMMA TickIInv ==
    ASSUME IrqAssumption, IInv, TickSwitches \/ TickReturns PROVE IInv'
<1>1. /\ MaxFrames \in Nat /\ IrqTypes
      /\ Return /\ frames[cur] # << >> /\ ~halted /\ cur \in Threads
      /\ Top(cur).int_no = 32 /\ Len(frames[cur]) <= MaxFrames
      /\ UNCHANGED <<asleep, halted>>
    BY DEF IrqAssumption, TickSwitches, TickReturns, Handling, IInv, IrqTypes,
        IRQ_OFFSET, IRQ_TIMER
<1>2. SlaveFrames' = SlaveFrames
    <2>1. <<cur, Len(frames[cur])>> \notin SlaveFrames
        BY <1>1, ReturnRemoves DEF IRQ_OFFSET, SLAVE
    <2>2. SlaveFrames' = SlaveFrames \ {<<cur, Len(frames[cur])>>}
        BY <1>1, ReturnRemoves
    <2>3. QED
        BY <2>1, <2>2, Zenon
<1>3. /\ pic'.slave = pic.slave
      /\ pic' \in [irr : SUBSET Lines, master : SUBSET (0..15), slave : SUBSET (SLAVE..15)]
    <2>1. CASE TickSwitches
        BY <1>1, <2>1 DEF TickSwitches, IrqTypes
    <2>2. CASE TickReturns
        <3>1. pic' = [pic EXCEPT !.slave = pic.slave, !.master = Eoi(pic.master)]
            <4>1. ~(IRQ_OFFSET + IRQ_TIMER >= 40)
                BY DEF IRQ_OFFSET, IRQ_TIMER
            <4>2. QED
                BY <2>2, <4>1 DEF TickReturns, Acknowledge
        <3>2. Eoi(pic.master) \subseteq pic.master
            BY DEF Eoi
        <3>3. QED
            BY <1>1, <3>1, <3>2 DEF IrqTypes
    <2>3. QED
        BY <2>1, <2>2
<1>4. cur' \in Threads /\ ready' \in Seq(Threads)
    <2>1. CASE TickSwitches
        <3>1. Append(ready, cur) \in Seq(Threads) /\ Append(ready, cur) # << >>
            BY <1>1, AppendProperties DEF IrqTypes
        <3>2. QED
            BY <2>1, <3>1, HeadTailProperties DEF TickSwitches, SwitchTo
    <2>2. CASE TickReturns
        BY <1>1, <2>2 DEF TickReturns, IrqTypes
    <2>3. QED
        BY <2>1, <2>2
<1>5. /\ frames' \in [Threads -> Seq(Frames)]
      /\ \A t \in Threads : Len(frames'[t]) <= MaxFrames
    BY <1>1, ReturnTypes
<1>6. QED
    BY <1>1, <1>2, <1>3, <1>4, <1>5 DEF IInv, IrqTypes, SlaveInService

(* The interrupts of the local APIC and exceptions push frames that are    *)
(* not the second controller's.                                            *)
LEMMA OtherEntryIInv ==
    ASSUME IrqAssumption, IInv, DeliverApic \/ \E v \in Exceptions : Exception(v)
    PROVE  IInv'
<1>1. PICK v \in Nat : Enter(v) /\ v < 40
    BY DEF DeliverApic, Exception, IRQ_OFFSET, IRQ_TIMER, IrqAssumption
<1>2. /\ IrqTypes /\ MaxFrames \in Nat /\ MaxFrames > 0
      /\ UNCHANGED <<pic, cur, ready, asleep>>
      /\ halted' \/ Interruptible
    BY DEF IInv, IrqAssumption, DeliverApic, Exception
<1>3. Len(frames[cur]) < MaxFrames
    BY <1>2 DEF DeliverApic, Exception, InThread, Interruptible
<1>4. SlaveFrames' = SlaveFrames
    BY <1>1, <1>2, <1>3, EnterAdds DEF IRQ_OFFSET, SLAVE
<1>5. IrqTypes'
    <2>1. /\ frames' \in [Threads -> Seq(Frames)]
          /\ Interruptible => \A t \in Threads : Len(frames'[t]) <= MaxFrames
        BY <1>1, <1>2, EnterTypes
    <2>2. QED
        BY <1>2, <2>1 DEF IrqTypes
<1>6. QED
    BY <1>2, <1>4, <1>5 DEF IInv, SlaveInService

(* Steps that push and pop no frame: devices, and threads outside handlers. *)
LEMMA PlainStepIInv ==
    ASSUME IrqAssumption, IInv,
           (\E l \in Lines : Raise(l)) \/ ApicTick \/ ThreadStep \/ UNCHANGED vars
    PROVE  IInv'
<1>1. IrqTypes /\ UNCHANGED <<frames, halted>> /\ pic'.slave = pic.slave
    BY DEF IInv, IrqTypes, Raise, ApicTick, ThreadStep, Cli, Sti, ThreadYield,
        ThreadWait, Wake, vars
<1>2. pic' \in [irr : SUBSET Lines, master : SUBSET (0..15), slave : SUBSET (SLAVE..15)]
    BY <1>1 DEF IrqTypes, Raise, ApicTick, ThreadStep, Cli, Sti, ThreadYield,
        ThreadWait, Wake, vars
<1>3. cur' \in Threads /\ ready' \in Seq(Threads) /\ asleep' \subseteq Threads
    <2>1. CASE ThreadYield
        <3>1. Append(ready, cur) \in Seq(Threads) /\ Append(ready, cur) # << >>
            BY <1>1, AppendProperties DEF IrqTypes
        <3>2. QED
            BY <1>1, <2>1, <3>1, HeadTailProperties DEF ThreadYield, SwitchTo, IrqTypes
    <2>2. CASE ThreadWait
        <3>1. Head(ready) \in Threads /\ Tail(ready) \in Seq(Threads)
            BY <1>1, <2>2, HeadTailProperties DEF ThreadWait, IrqTypes
        <3>2. QED
            BY <1>1, <2>2, <3>1 DEF ThreadWait, SwitchTo, IrqTypes
    <2>3. ASSUME NEW t \in Threads, Wake(t)
          PROVE  cur' \in Threads /\ ready' \in Seq(Threads) /\ asleep' \subseteq Threads
        BY <1>1, <2>3 DEF Wake, IrqTypes
    <2>4. CASE (\E l \in Lines : Raise(l)) \/ ApicTick \/ Cli \/ Sti \/ UNCHANGED vars
        BY <1>1, <2>4 DEF Raise, ApicTick, Cli, Sti, vars, IrqTypes
    <2>5. QED
        BY <2>1, <2>2, <2>3, <2>4 DEF ThreadStep
<1>4. IrqTypes'
    BY <1>1, <1>2, <1>3 DEF IrqTypes
<1>5. SlaveFrames' = SlaveFrames
    BY <1>1 DEF SlaveFrames
<1>6. QED
    BY <1>1, <1>4, <1>5 DEF IInv, SlaveInService

(* No frame and no line in service at the start.                           *)
LEMMA InitIInv == ASSUME IrqAssumption, Init PROVE IInv
<1>1. IrqTypes
    <2>1. Cardinality(Threads) - 1 \in Nat
        BY FS_CardinalityType, FS_EmptySet DEF IrqAssumption
    <2>2. ready \in Seq(Threads)
        BY <2>1 DEF Init
    <2>3. frames \in [Threads -> Seq(Frames)] /\ \A t \in Threads : Len(frames[t]) = 0
        BY DEF Init
    <2>4. QED
        BY <2>2, <2>3 DEF Init, IrqTypes, IrqAssumption
<1>2. SlaveFrames = {}
    BY SlaveFramesElements DEF Init, IsSlave
<1>3. QED
    BY <1>1, <1>2 DEF IInv, SlaveInService, Init

(* For any number of threads and lines, however interrupts nest and ticks  *)
(* switch threads between them, irq_handler acknowledges the second 8259A  *)
(* as often as it interrupted: once no handler of it is under way, none of *)
(* its lines is in service.                                                *)
THEOREM SlaveAcknowledged ==
    ASSUME IrqAssumption PROVE Spec => []SlaveInService
<1>1. Init => IInv
    BY InitIInv
<1>2. IInv /\ [Next]_vars => IInv'
    <2> SUFFICES ASSUME IInv, [Next]_vars PROVE IInv'
        OBVIOUS
    <2>1. ASSUME NEW n \in 1..MaxFrames, StubCli(n) PROVE IInv'
        <3>1. SlaveFrames' = SlaveFrames /\ IrqTypes' /\ pic' = pic
            BY <2>1, StubKeeps DEF IInv, StubCli
        <3>2. QED
            BY <3>1 DEF IInv, SlaveInService
    <2>2. QED
        BY <2>1, DeliverIInv, HandlerIInv, TickIInv, OtherEntryIInv, PlainStepIInv
        DEF Next, Handler
<1>3. IInv => SlaveInService
    BY DEF IInv
<1>4. QED
    BY <1>1, <1>2, <1>3, PTL DEF Spec
=============================================================================
