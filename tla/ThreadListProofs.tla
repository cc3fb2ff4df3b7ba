-------------------------- MODULE ThreadListProofs --------------------------
(***************************************************************************)
(* Proofs about ThreadList for any lists and any finite set of threads:    *)
(* the type invariant and LinksAgree are inductive together.  Insertion    *)
(* and removal are treated once each, for any two neighbours.              *)
(***************************************************************************)
EXTENDS ThreadList, TLAPS

LinkTypes ==
    /\ tln_next \in [Nodes -> Nodes \union {NULL}]
    /\ tln_prev \in [Nodes -> Nodes \union {NULL}]

(* The bookends of every list are nodes, distinct from the threads and     *)
(* from each other.                                                        *)
LEMMA BookendFacts ==
    ASSUME ThreadListAssumption, NEW l \in Lists
    PROVE  /\ tl_head(l) \in Nodes /\ tl_tail(l) \in Nodes
           /\ tl_head(l) \notin Threads /\ tl_tail(l) \notin Threads
           /\ \A k \in Lists : tl_head(l) # tl_tail(k)
    BY DEF ThreadListAssumption, tl_head, tl_tail, Bookends, Nodes

(* Freshly initialised lists are empty and their bookends face each other. *)
LEMMA InitLinks == ThreadListAssumption /\ Init => TypeOK /\ LinksAgree
<1> SUFFICES ASSUME ThreadListAssumption, Init PROVE TypeOK /\ LinksAgree
    OBVIOUS
<1>1. \A n \in Bookends : n \in Nodes /\ n[2] \in Lists
    BY DEF Bookends, Nodes
<1>2. \A l \in Lists : tl_head(l) \in Bookends /\ tl_tail(l) \in Bookends
    BY DEF Bookends, tl_head, tl_tail
<1>3. LinkTypes
    BY <1>1, <1>2 DEF Init, LinkTypes, Nodes
<1>4. TypeOK
    BY <1>3 DEF Init, TypeOK, LinkTypes
<1>5. \A n \in Bookends : \/ n[1] = "head" /\ n = tl_head(n[2])
                          \/ n[1] = "tail" /\ n = tl_tail(n[2])
    BY DEF Bookends, tl_head, tl_tail
<1>6. \A l \in Lists : /\ tln_next[tl_head(l)] = tl_tail(l)
                       /\ tln_prev[tl_head(l)] = NULL
                       /\ tln_prev[tl_tail(l)] = tl_head(l)
                       /\ tln_next[tl_tail(l)] = NULL
    BY <1>2 DEF Init, Nodes, tl_head, tl_tail
<1>7. \A t \in Threads : tln_next[t] = NULL /\ tln_prev[t] = NULL
    BY DEF Init, Nodes, ThreadListAssumption
<1>8. LinksAgree
    BY <1>1, <1>2, <1>5, <1>6, <1>7 DEF LinksAgree, Nodes, ThreadListAssumption
<1>9. QED
    BY <1>4, <1>8

(* InsertBetween puts a free thread between two neighbours and leaves      *)
(* every other pair of links agreeing.                                     *)
LEMMA InsertKeepsLinks ==
    ASSUME ThreadListAssumption, LinkTypes, LinksAgree, NEW t \in Threads,
           NEW p \in Nodes, NEW n \in Nodes, tln_next[p] = n, tln_prev[n] = p,
           InsertBetween(p, n, t)
    PROVE  LinkTypes' /\ LinksAgree'
<1> USE DEF LinkTypes, InsertBetween, Unlinked
<1>1. t \in Nodes /\ NULL \notin Nodes
    BY DEF Nodes, ThreadListAssumption
<1>2. p # t /\ n # t
    BY <1>1
<1>3. LinkTypes'
    BY <1>1
<1>4. \A m \in Nodes :
        /\ tln_next'[m] = IF m = p THEN t ELSE IF m = t THEN n ELSE tln_next[m]
        /\ tln_prev'[m] = IF m = n THEN t ELSE IF m = t THEN p ELSE tln_prev[m]
    BY <1>1, <1>2
<1>5. ASSUME NEW m \in Nodes
      PROVE  /\ tln_next'[m] # NULL => tln_prev'[tln_next'[m]] = m
             /\ tln_prev'[m] # NULL => tln_next'[tln_prev'[m]] = m
    <2>1. tln_next[m] = n => m = p
        BY <1>1 DEF LinksAgree
    <2>2. tln_prev[m] = p => m = n
        BY <1>1 DEF LinksAgree
    <2>3. tln_next[m] # t /\ tln_prev[m] # t
        BY <1>1 DEF LinksAgree
    <2>4. /\ tln_next[m] # NULL => tln_next[m] \in Nodes /\ tln_prev[tln_next[m]] = m
          /\ tln_prev[m] # NULL => tln_prev[m] \in Nodes /\ tln_next[tln_prev[m]] = m
        BY DEF LinksAgree
    <2>5. QED
        BY <1>1, <1>2, <1>4, <2>1, <2>2, <2>3, <2>4
<1>6. ASSUME NEW l \in Lists
      PROVE  /\ tln_prev'[tl_head(l)] = NULL /\ tln_next'[tl_tail(l)] = NULL
             /\ tln_next'[tl_head(l)] # NULL /\ tln_prev'[tl_tail(l)] # NULL
    BY <1>1, <1>2, <1>4, BookendFacts DEF LinksAgree
<1>7. \A u \in Threads : tln_next'[u] = NULL <=> tln_prev'[u] = NULL
    BY <1>1, <1>2, <1>4 DEF LinksAgree, Nodes
<1>8. QED
    BY <1>3, <1>5, <1>6, <1>7 DEF LinksAgree

(* threadlist_removenode joins the neighbours of a linked thread.          *)
LEMMA RemoveKeepsLinks ==
    ASSUME ThreadListAssumption, LinkTypes, LinksAgree, NEW t \in Threads,
           threadlist_removenode(t)
    PROVE  LinkTypes' /\ LinksAgree'
<1> USE DEF LinkTypes, threadlist_removenode, Linked
<1> DEFINE p == tln_prev[t]
           n == tln_next[t]
<1>1. /\ t \in Nodes /\ NULL \notin Nodes
      /\ p \in Nodes /\ n \in Nodes /\ tln_next[p] = t /\ tln_prev[n] = t
    BY DEF Nodes, ThreadListAssumption, LinksAgree
<1>2. LinkTypes'
    BY <1>1
<1>3. \A m \in Nodes :
        /\ tln_next'[m] = IF m = t THEN NULL ELSE IF m = p THEN n ELSE tln_next[m]
        /\ tln_prev'[m] = IF m = t THEN NULL ELSE IF m = n THEN p ELSE tln_prev[m]
    BY <1>1
<1>4. ASSUME NEW m \in Nodes
      PROVE  /\ tln_next'[m] # NULL => tln_prev'[tln_next'[m]] = m
             /\ tln_prev'[m] # NULL => tln_next'[tln_prev'[m]] = m
    <2>1. (tln_next[m] = t => m = p) /\ (tln_prev[m] = t => m = n)
        BY <1>1 DEF LinksAgree
    <2>2. (tln_next[m] = n => m = t) /\ (tln_prev[m] = p => m = t)
        BY <1>1 DEF LinksAgree
    <2>3. /\ tln_next[m] # NULL => tln_next[m] \in Nodes /\ tln_prev[tln_next[m]] = m
          /\ tln_prev[m] # NULL => tln_prev[m] \in Nodes /\ tln_next[tln_prev[m]] = m
        BY DEF LinksAgree
    <2> HIDE DEF p, n
    <2>4. QED
        BY <1>1, <1>3, <2>1, <2>2, <2>3
<1>5. ASSUME NEW l \in Lists
      PROVE  /\ tln_prev'[tl_head(l)] = NULL /\ tln_next'[tl_tail(l)] = NULL
             /\ tln_next'[tl_head(l)] # NULL /\ tln_prev'[tl_tail(l)] # NULL
    BY <1>1, <1>3, BookendFacts DEF LinksAgree
<1>6. \A u \in Threads : tln_next'[u] = NULL <=> tln_prev'[u] = NULL
    BY <1>1, <1>3 DEF LinksAgree, Nodes
<1>7. QED
    BY <1>2, <1>4, <1>5, <1>6 DEF LinksAgree

(* A node is a thread or a bookend.                                        *)
LEMMA NodeCases ==
    ASSUME NEW n \in Nodes
    PROVE  n \in Threads \/ \E k \in Lists : n = tl_head(k) \/ n = tl_tail(k)
    BY DEF Nodes, Bookends, tl_head, tl_tail

(* Every step of every caller keeps the links of all lists agreeing.       *)
LEMMA NextLinks ==
    ASSUME ThreadListAssumption, TypeOK, LinksAgree, [Next]_vars
    PROVE  TypeOK' /\ LinksAgree'
<1>0. LinkTypes /\ NULL \notin Nodes /\ \A k \in Lists : tl_count[k] \in Int
    BY DEF TypeOK, LinkTypes, ThreadListAssumption
<1>1. CASE UNCHANGED vars
    BY <1>1 DEF vars, links, TypeOK, LinksAgree
<1>2. ASSUME NEW l \in Lists, NEW t \in Threads, threadlist_addhead(l, t)
      PROVE  TypeOK' /\ LinksAgree'
    <2>1. tln_next[tl_head(l)] \in Nodes /\ tln_prev[tln_next[tl_head(l)]] = tl_head(l)
        BY <1>0, BookendFacts DEF LinkTypes, LinksAgree
    <2>2. InsertBetween(tl_head(l), tln_next[tl_head(l)], t)
        BY <1>2 DEF threadlist_addhead, threadlist_insertafternode
    <2>3. LinkTypes' /\ LinksAgree'
        BY <1>0, <2>1, <2>2, BookendFacts, InsertKeepsLinks
    <2>4. QED
        BY <1>0, <1>2, <2>3 DEF threadlist_addhead, Count, TypeOK, LinkTypes
<1>3. ASSUME NEW l \in Lists, NEW t \in Threads, threadlist_addtail(l, t)
      PROVE  TypeOK' /\ LinksAgree'
    <2>1. tln_prev[tl_tail(l)] \in Nodes /\ tln_next[tln_prev[tl_tail(l)]] = tl_tail(l)
        BY <1>0, BookendFacts DEF LinkTypes, LinksAgree
    <2>2. InsertBetween(tln_prev[tl_tail(l)], tl_tail(l), t)
        BY <1>3 DEF threadlist_addtail, threadlist_insertbeforenode
    <2>3. LinkTypes' /\ LinksAgree'
        BY <1>0, <2>1, <2>2, BookendFacts, InsertKeepsLinks
    <2>4. QED
        BY <1>0, <1>3, <2>3 DEF threadlist_addtail, Count, TypeOK, LinkTypes
<1>4. ASSUME NEW l \in Lists, NEW t \in Threads, NEW u \in Threads,
             threadlist_insertafter(l, u, t)
      PROVE  TypeOK' /\ LinksAgree'
    <2>1. u \in Nodes /\ tln_next[u] \in Nodes /\ tln_prev[tln_next[u]] = u
        BY <1>0, <1>4 DEF threadlist_insertafter, On, Linked, LinkTypes, LinksAgree, Nodes
    <2>2. InsertBetween(u, tln_next[u], t)
        BY <1>4 DEF threadlist_insertafter, threadlist_insertafternode
    <2>3. LinkTypes' /\ LinksAgree'
        BY <1>0, <2>1, <2>2, InsertKeepsLinks
    <2>4. QED
        BY <1>0, <1>4, <2>3 DEF threadlist_insertafter, Count, TypeOK, LinkTypes
<1>5. ASSUME NEW l \in Lists, NEW t \in Threads, NEW u \in Threads,
             threadlist_insertbefore(l, t, u)
      PROVE  TypeOK' /\ LinksAgree'
    <2>1. u \in Nodes /\ tln_prev[u] \in Nodes /\ tln_next[tln_prev[u]] = u
        BY <1>0, <1>5 DEF threadlist_insertbefore, On, Linked, LinkTypes, LinksAgree, Nodes
    <2>2. InsertBetween(tln_prev[u], u, t)
        BY <1>5 DEF threadlist_insertbefore, threadlist_insertbeforenode
    <2>3. LinkTypes' /\ LinksAgree'
        BY <1>0, <2>1, <2>2, InsertKeepsLinks
    <2>4. QED
        BY <1>0, <1>5, <2>3 DEF threadlist_insertbefore, Count, TypeOK, LinkTypes
<1>6. ASSUME NEW l \in Lists, NEW t \in Threads, threadlist_remove(l, t)
      PROVE  TypeOK' /\ LinksAgree'
    <2>1. LinkTypes' /\ LinksAgree'
        BY <1>0, <1>6, RemoveKeepsLinks DEF threadlist_remove
    <2>2. QED
        BY <1>0, <1>6, <2>1 DEF threadlist_remove, Count, TypeOK, LinkTypes
<1>7. ASSUME NEW l \in Lists, threadlist_remhead(l)
      PROVE  TypeOK' /\ LinksAgree'
    <2> DEFINE n == tln_next[tl_head(l)]
    <2>1. CASE tln_next[n] = NULL
        <3>1. UNCHANGED <<links, tl_count>> /\ call' = <<"remhead", l, NULL>>
            BY <1>7, <2>1 DEF threadlist_remhead
        <3>2. LinkTypes' /\ LinksAgree'
            BY <1>0, <3>1 DEF links, LinkTypes, LinksAgree
        <3>3. QED
            BY <1>0, <3>1, <3>2 DEF TypeOK, LinkTypes
    <2>2. CASE tln_next[n] # NULL
        <3>1. n \in Threads
            BY <1>0, <2>2, BookendFacts, NodeCases DEF LinkTypes, LinksAgree
        <3>2. /\ threadlist_removenode(n) /\ Count(l, tl_count[l] - 1)
              /\ call' = <<"remhead", l, n>>
            BY <1>7, <2>2 DEF threadlist_remhead
        <3> HIDE DEF n
        <3>3. LinkTypes' /\ LinksAgree'
            BY <1>0, <3>1, <3>2, RemoveKeepsLinks
        <3>4. QED
            BY <1>0, <3>1, <3>2, <3>3 DEF Count, TypeOK, LinkTypes
    <2>3. QED
        BY <2>1, <2>2
<1>8. ASSUME NEW l \in Lists, threadlist_remtail(l)
      PROVE  TypeOK' /\ LinksAgree'
    <2> DEFINE n == tln_prev[tl_tail(l)]
    <2>1. CASE tln_prev[n] = NULL
        <3>1. UNCHANGED <<links, tl_count>> /\ call' = <<"remtail", l, NULL>>
            BY <1>8, <2>1 DEF threadlist_remtail
        <3>2. LinkTypes' /\ LinksAgree'
            BY <1>0, <3>1 DEF links, LinkTypes, LinksAgree
        <3>3. QED
            BY <1>0, <3>1, <3>2 DEF TypeOK, LinkTypes
    <2>2. CASE tln_prev[n] # NULL
        <3>1. n \in Threads
            BY <1>0, <2>2, BookendFacts, NodeCases DEF LinkTypes, LinksAgree
        <3>2. /\ threadlist_removenode(n) /\ Count(l, tl_count[l] - 1)
              /\ call' = <<"remtail", l, n>>
            BY <1>8, <2>2 DEF threadlist_remtail
        <3> HIDE DEF n
        <3>3. LinkTypes' /\ LinksAgree'
            BY <1>0, <3>1, <3>2, RemoveKeepsLinks
        <3>4. QED
            BY <1>0, <3>1, <3>2, <3>3 DEF Count, TypeOK, LinkTypes
    <2>3. QED
        BY <2>1, <2>2
<1>9. QED
    BY <1>1, <1>2, <1>3, <1>4, <1>5, <1>6, <1>7, <1>8 DEF Next

(* Whatever sequence of calls is made on any number of lists, the links of *)
(* neighbours agree and the bookends stay outermost, so no assert of       *)
(* threadlist.c on links fails and what remhead and remtail return is a    *)
(* thread or NULL.                                                         *)
THEOREM ListsStayLinked ==
    ASSUME ThreadListAssumption
    PROVE  Spec => []TypeOK /\ []LinksAgree
<1>1. Init => TypeOK /\ LinksAgree
    BY InitLinks
<1>2. TypeOK /\ LinksAgree /\ [Next]_vars => TypeOK' /\ LinksAgree'
    BY NextLinks
<1>3. QED
    BY <1>1, <1>2, PTL DEF Spec
=============================================================================
