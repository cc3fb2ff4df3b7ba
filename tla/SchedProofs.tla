---------------------------- MODULE SchedProofs -----------------------------
(***************************************************************************)
(* Facts about run queues and wait channels as sequences without           *)
(* repetition, for the proofs about the modules that extend Sched.         *)
(***************************************************************************)
EXTENDS Sched, SequenceTheorems, FiniteSetTheorems, TLAPS

(* The range of a sequence, element by element.                            *)
LEMMA RangeSeq ==
    ASSUME NEW S, NEW s \in Seq(S)
    PROVE  /\ \A x : x \in Range(s) <=> \E i \in 1..Len(s) : s[i] = x
           /\ Range(s) \in SUBSET S
           /\ s = <<>> <=> Range(s) = {}
<1>1. \A x : x \in Range(s) <=> \E i \in 1..Len(s) : s[i] = x
    BY DEF Range
<1>2. Range(s) \in SUBSET S
    BY <1>1
<1>3. s = <<>> => Range(s) = {}
    BY <1>1
<1>4. s # <<>> => Range(s) # {}
    <2>1. s # <<>> => 1 \in 1..Len(s)
        BY EmptySeq
    <2>2. QED
        BY <1>1, <2>1
<1>5. QED
    BY <1>1, <1>2, <1>3, <1>4

(* threadlist_addtail adds its thread to the list and nothing else.        *)
LEMMA RangeAppend ==
    ASSUME NEW S, NEW s \in Seq(S), NEW x \in S
    PROVE  /\ Append(s, x) \in Seq(S)
           /\ Append(s, x) # <<>>
           /\ Range(Append(s, x)) = Range(s) \union {x}
           /\ NoDup(s) /\ x \notin Range(s) => NoDup(Append(s, x))
<1>1. /\ Append(s, x) \in Seq(S) /\ Append(s, x) # <<>>
      /\ Len(Append(s, x)) = Len(s) + 1
      /\ \A i \in 1..Len(s) : Append(s, x)[i] = s[i]
      /\ Append(s, x)[Len(s) + 1] = x
      /\ Len(s) \in Nat
    BY AppendProperties
<1>2. Range(Append(s, x)) = Range(s) \union {x}
    <2> DEFINE a == Append(s, x)
    <2>1. \A y : y \in Range(a) <=> \E i \in 1..(Len(s) + 1) : a[i] = y
        BY <1>1, RangeSeq
    <2>2. \A y : y \in Range(s) <=> \E i \in 1..Len(s) : s[i] = y
        BY RangeSeq
    <2>3. QED
        BY <1>1, <2>1, <2>2
<1>3. NoDup(s) /\ x \notin Range(s) => NoDup(Append(s, x))
    BY <1>1, RangeSeq DEF NoDup
<1>4. QED
    BY <1>1, <1>2, <1>3

(* threadlist_remhead takes the head off the list and nothing else.        *)
LEMMA RangeTail ==
    ASSUME NEW S, NEW s \in Seq(S), s # <<>>
    PROVE  /\ Head(s) \in S
           /\ Head(s) \in Range(s)
           /\ Tail(s) \in Seq(S)
           /\ Range(s) = Range(Tail(s)) \union {Head(s)}
           /\ NoDup(s) => NoDup(Tail(s)) /\ Head(s) \notin Range(Tail(s))
<1>1. /\ Head(s) \in S /\ Tail(s) \in Seq(S)
      /\ Len(s) \in Nat /\ Len(s) # 0
      /\ Len(Tail(s)) = Len(s) - 1
      /\ \A i \in 1..(Len(s) - 1) : Tail(s)[i] = s[i + 1]
      /\ Head(s) = s[1]
    BY HeadTailProperties, EmptySeq
<1>2. \A x : x \in Range(s) <=> \E i \in 1..Len(s) : s[i] = x
    BY RangeSeq
<1>3. \A x : x \in Range(Tail(s)) <=> \E i \in 1..(Len(s) - 1) : s[i + 1] = x
    <2>1. \A x : x \in Range(Tail(s))
                 <=> \E i \in 1..Len(Tail(s)) : Tail(s)[i] = x
        BY <1>1, RangeSeq
    <2>2. QED
        BY <1>1, <2>1
<1>4. Head(s) \in Range(s)
    BY <1>1, <1>2
<1>5. Range(s) \subseteq Range(Tail(s)) \union {Head(s)}
    <2>1. ASSUME NEW i \in 1..Len(s), i # 1
          PROVE  s[i] \in Range(Tail(s))
        <3>1. i - 1 \in 1..(Len(s) - 1) /\ s[i] = s[(i - 1) + 1]
            BY <1>1, <2>1
        <3>2. QED
            BY <3>1, <1>3
    <2>2. QED
        BY <1>1, <1>2, <2>1
<1>6. Range(Tail(s)) \subseteq Range(s)
    BY <1>1, <1>2, <1>3
<1>7. NoDup(s) => NoDup(Tail(s)) /\ Head(s) \notin Range(Tail(s))
    BY <1>1, <1>3 DEF NoDup
<1>8. QED
    BY <1>1, <1>4, <1>5, <1>6, <1>7

(* Making the threads of w runnable appends them to the run queue.         *)
LEMMA RangeConcat ==
    ASSUME NEW S, NEW s \in Seq(S), NEW w \in Seq(S)
    PROVE  /\ s \o w \in Seq(S)
           /\ Range(s \o w) = Range(s) \union Range(w)
           /\ NoDup(s) /\ NoDup(w) /\ Range(s) \intersect Range(w) = {}
              => NoDup(s \o w)
<1> DEFINE c == s \o w
<1>1. /\ c \in Seq(S)
      /\ Len(c) = Len(s) + Len(w)
      /\ \A i \in 1..(Len(s) + Len(w)) :
             c[i] = IF i <= Len(s) THEN s[i] ELSE w[i - Len(s)]
      /\ Len(s) \in Nat /\ Len(w) \in Nat
    BY ConcatProperties
<1>2. /\ \A x : x \in Range(s) <=> \E i \in 1..Len(s) : s[i] = x
      /\ \A x : x \in Range(w) <=> \E i \in 1..Len(w) : w[i] = x
    BY RangeSeq
<1>3. \A x : x \in Range(c) <=> \E i \in 1..(Len(s) + Len(w)) : c[i] = x
    BY <1>1, RangeSeq
<1> HIDE DEF c
<1>4. ASSUME NEW i \in 1..(Len(s) + Len(w))
      PROVE  c[i] \in Range(s) \union Range(w)
    <2>1. CASE i <= Len(s)
        <3>1. i \in 1..Len(s) /\ c[i] = s[i]
            BY <1>1, <2>1
        <3>2. QED
            BY <1>2, <3>1
    <2>2. CASE ~(i <= Len(s))
        <3>1. i - Len(s) \in 1..Len(w) /\ c[i] = w[i - Len(s)]
            BY <1>1, <2>2
        <3>2. QED
            BY <1>2, <3>1
    <2>3. QED
        BY <2>1, <2>2
<1>5. ASSUME NEW i \in 1..Len(s) PROVE s[i] \in Range(c)
    <2>1. i \in 1..(Len(s) + Len(w)) /\ i <= Len(s)
        BY <1>1
    <2>2. c[i] = s[i]
        BY <1>1, <2>1
    <2>3. QED
        BY <1>3, <2>1, <2>2
<1>6. ASSUME NEW i \in 1..Len(w) PROVE w[i] \in Range(c)
    <2> DEFINE k == i + Len(s)
    <2>1. k \in 1..(Len(s) + Len(w)) /\ ~(k <= Len(s)) /\ k - Len(s) = i
        BY <1>1
    <2> HIDE DEF k
    <2>2. c[k] = w[i]
        BY <1>1, <2>1
    <2>3. QED
        BY <1>3, <2>1, <2>2
<1>7. ASSUME NoDup(s), NoDup(w), Range(s) \intersect Range(w) = {},
             NEW i \in 1..Len(c), NEW j \in 1..Len(c), c[i] = c[j], i < j
      PROVE  FALSE
    <2>1. CASE j <= Len(s)
        BY <1>1, <1>7, <2>1 DEF NoDup
    <2>2. CASE i > Len(s)
        <3>1. /\ i - Len(s) \in 1..Len(w) /\ j - Len(s) \in 1..Len(w)
              /\ w[i - Len(s)] = w[j - Len(s)]
            BY <1>1, <1>7, <2>2
        <3>2. i - Len(s) = j - Len(s)
            BY <1>7, <3>1 DEF NoDup
        <3>3. QED
            BY <1>1, <1>7, <3>2
    <2>3. CASE i <= Len(s) /\ j > Len(s)
        <3>1. c[i] \in Range(s)
            BY <1>1, <1>2, <1>7, <2>3
        <3>2. /\ j \in 1..(Len(s) + Len(w)) /\ ~(j <= Len(s))
              /\ j - Len(s) \in 1..Len(w)
            BY <1>1, <1>7, <2>3
        <3>a. c[j] = w[j - Len(s)]
            BY <1>1, <3>2
        <3>3. c[j] \in Range(w)
            BY <1>2, <3>2, <3>a
        <3>4. QED
            BY <1>7, <3>1, <3>3
    <2>4. QED
        BY <1>1, <1>7, <2>1, <2>2, <2>3
<1>8. NoDup(s) /\ NoDup(w) /\ Range(s) \intersect Range(w) = {} => NoDup(c)
    <2>1. ASSUME NEW i \in 1..Len(c), NEW j \in 1..Len(c), i # j
          PROVE  i < j \/ j < i
        BY <1>1, <2>1
    <2>2. QED
        BY <1>7, <2>1 DEF NoDup
<1>9. QED
    BY <1>1, <1>2, <1>3, <1>4, <1>5, <1>6, <1>8 DEF c

(* At the start the run queue lists every thread but the running one, once. *)
LEMMA SchedInitPlaces ==
    ASSUME SchedInit
    PROVE  /\ SchedTypeOK
           /\ NoDup(active)
           /\ Range(active) = Threads \ {current}
<1>1. Cardinality(Threads) - 1 \in Nat
    BY ThreadsAssumption, FS_CardinalityType, FS_EmptySet
<1>2. active \in Seq(Threads)
    BY <1>1, SeqDef DEF SchedInit
<1>3. QED
    BY <1>2 DEF SchedInit, SchedTypeOK, States

(* thread_switch resumes the head of the queue; the rest stays queued.     *)
LEMMA DispatchPlaces ==
    ASSUME SchedTypeOK, NEW q \in Seq(Threads), q # <<>>, NoDup(q),
           NEW s \in [Threads -> States], Dispatch(q, s)
    PROVE  /\ current' \in Threads
           /\ active' \in Seq(Threads)
           /\ tstate' \in [Threads -> States]
           /\ halt' = halt
           /\ NoDup(active')
           /\ current' \notin Range(active')
           /\ Range(q) = Range(active') \union {current'}
<1>1. /\ current' = Head(q) /\ active' = Tail(q) /\ halt' = halt
      /\ tstate' = [s EXCEPT ![Head(q)] = "S_RUN"]
    BY DEF Dispatch
<1>2. QED
    BY <1>1, RangeTail DEF States

(* With the run queue empty thread_switch ends in cpu_idle.                *)
LEMMA DispatchIdle ==
    ASSUME NEW s, Dispatch(<<>>, s)
    PROVE  halt' = "cpu_idle" /\ tstate' = s /\ UNCHANGED <<current, active>>
<1>1. QED
    BY DEF Dispatch

(* A tick or a yield trades the running thread for the head of the queue.  *)
LEMMA SwitchReadyPlaces ==
    ASSUME SchedTypeOK, NoDup(active), current \notin Range(active),
           SwitchReady
    PROVE  /\ current' \in Threads
           /\ active' \in Seq(Threads)
           /\ tstate' \in [Threads -> States]
           /\ halt' = halt
           /\ NoDup(active')
           /\ current' \notin Range(active')
           /\ {current} \union Range(active) = {current'} \union Range(active')
<1> USE DEF SchedTypeOK
<1>1. CASE active = <<>>
    BY <1>1 DEF SwitchReady
<1>2. CASE active # <<>>
    <2> DEFINE q == Append(active, current)
               s == [tstate EXCEPT ![current] = "S_READY"]
    <2>1. Dispatch(q, s)
        BY <1>2 DEF SwitchReady
    <2>2. /\ q \in Seq(Threads) /\ q # <<>> /\ NoDup(q)
          /\ Range(q) = Range(active) \union {current}
        BY RangeAppend
    <2>3. s \in [Threads -> States]
        BY DEF States
    <2> HIDE DEF q, s
    <2>4. QED
        BY <2>1, <2>2, <2>3, DispatchPlaces
<1>3. QED
    BY <1>1, <1>2

(* What wchan_wakeone takes off the channel is its head, and only that.    *)
LEMMA WakeOnePlaces ==
    ASSUME NEW wc \in Seq(Threads), NoDup(wc)
    PROVE  /\ WokenOne(wc) \in Seq(Threads)
           /\ NoDup(WokenOne(wc))
           /\ AfterOne(wc) \in Seq(Threads)
           /\ NoDup(AfterOne(wc))
           /\ Range(WokenOne(wc)) \intersect Range(AfterOne(wc)) = {}
           /\ Range(wc) = Range(WokenOne(wc)) \union Range(AfterOne(wc))
           /\ wc = <<>> => Range(WokenOne(wc)) = {}
           /\ wc # <<>> => Range(WokenOne(wc)) = {Head(wc)}
<1>1. CASE wc = <<>>
    <2>1. <<>> \in Seq(Threads) /\ Range(<<>>) = {} /\ NoDup(<<>>)
        BY RangeSeq, EmptySeq DEF NoDup
    <2>2. QED
        BY <1>1, <2>1 DEF WokenOne, AfterOne
<1>2. CASE wc # <<>>
    <2>1. /\ Head(wc) \in Threads /\ Tail(wc) \in Seq(Threads)
          /\ Range(wc) = Range(Tail(wc)) \union {Head(wc)}
          /\ NoDup(Tail(wc)) /\ Head(wc) \notin Range(Tail(wc))
        BY <1>2, RangeTail
    <2>2. ASSUME NEW h \in Threads
          PROVE  <<h>> \in Seq(Threads) /\ Range(<<h>>) = {h} /\ NoDup(<<h>>)
        BY DEF Range, NoDup
    <2>3. QED
        BY <1>2, <2>1, <2>2 DEF WokenOne, AfterOne
<1>3. QED
    BY <1>1, <1>2
=============================================================================
