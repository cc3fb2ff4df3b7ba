----------------------------- MODULE ThreadList -----------------------------
(***************************************************************************)
(* thread/threadlist.c: doubly linked lists between two bookends, linked   *)
(* through the node inside each thread.  They implement AbstractLists.     *)
(***************************************************************************)
EXTENDS Integers, Sequences, FiniteSets

CONSTANTS Lists, Threads, NULL

VARIABLES tln_next, tln_prev,   \* the links of every node
          tl_count,             \* the count of every list
          call                  \* the last call: name, list, thread moved

links == <<tln_next, tln_prev>>
vars == <<links, tl_count, call>>

(* The bookends of list l.                                                 *)
tl_head(l) == <<"head", l>>
tl_tail(l) == <<"tail", l>>
Bookends == {"head", "tail"} \X Lists
Nodes == Threads \union Bookends

ThreadListAssumption ==
    /\ IsFiniteSet(Threads)
    /\ Threads \intersect Bookends = {}
    /\ NULL \notin Nodes

(* threadlist_init of the lists, threadlistnode_init of the threads.       *)
Init ==
    /\ tln_next = [n \in Nodes |-> IF n \in Bookends /\ n[1] = "head"
                                   THEN tl_tail(n[2]) ELSE NULL]
    /\ tln_prev = [n \in Nodes |-> IF n \in Bookends /\ n[1] = "tail"
                                   THEN tl_head(n[2]) ELSE NULL]
    /\ tl_count = [l \in Lists |-> 0]
    /\ call = <<"init", NULL, NULL>>

(* The test of threadlist_isempty.                                         *)
threadlist_isempty(l) == tl_count[l] = 0

(* The asserts on the node of a thread to be added, and of one to remove.  *)
Unlinked(n) == tln_prev[n] = NULL /\ tln_next[n] = NULL
Linked(n) == tln_prev[n] # NULL /\ tln_next[n] # NULL
-----------------------------------------------------------------------------
(* Mutant: the successor keeps its old back link.                          *)
InsertHalf(p, n, t) ==
    /\ Unlinked(t)
    /\ tln_next' = [tln_next EXCEPT ![t] = n, ![p] = t]
    /\ tln_prev' = [tln_prev EXCEPT ![t] = p]

(* Both forms of insertion: t goes between the neighbours p and n.         *)
InsertBetween(p, n, t) ==
    /\ Unlinked(t)
    /\ tln_next' = [tln_next EXCEPT ![t] = n, ![p] = t]
    /\ tln_prev' = [tln_prev EXCEPT ![t] = p, ![n] = t]

threadlist_insertafternode(onlist, t) == InsertBetween(onlist, tln_next[onlist], t)

threadlist_insertbeforenode(t, onlist) == InsertBetween(tln_prev[onlist], onlist, t)

threadlist_removenode(n) ==
    /\ Linked(n)
    /\ tln_next' = [tln_next EXCEPT ![tln_prev[n]] = tln_next[n], ![n] = NULL]
    /\ tln_prev' = [tln_prev EXCEPT ![tln_next[n]] = tln_prev[n], ![n] = NULL]

Count(l, n) == tl_count' = [tl_count EXCEPT ![l] = n]
-----------------------------------------------------------------------------
(* The threads THREADLIST_FORALL and THREADLIST_FORALL_REV visit: the walk *)
(* along the links nxt from node n ends at the bookend without successor.  *)
(* It is cut after as many steps as there are threads.                     *)
Walk(nxt, n) ==
    LET w[k \in 0..Cardinality(Threads), m \in Nodes \union {NULL}] ==
            IF k = 0 \/ m \in Bookends \union {NULL} THEN <<>>
            ELSE <<m>> \o w[k - 1, nxt[m]]
    IN  w[Cardinality(Threads), n]

Forward(l) == Walk(tln_next, tln_next[tl_head(l)])
Backward(l) == Walk(tln_prev, tln_prev[tl_tail(l)])
On(l, t) == Linked(t) /\ \E i \in 1..Len(Forward(l)) : Forward(l)[i] = t

(* Mutant: the thread goes to the other end.                               *)
AddheadAtTail(l, t) ==
    /\ threadlist_insertbeforenode(t, tl_tail(l))
    /\ Count(l, tl_count[l] + 1)
    /\ call' = <<"addhead", l, t>>

threadlist_addhead(l, t) ==
    /\ threadlist_insertafternode(tl_head(l), t)
    /\ Count(l, tl_count[l] + 1)
    /\ call' = <<"addhead", l, t>>

threadlist_addtail(l, t) ==
    /\ threadlist_insertbeforenode(t, tl_tail(l))
    /\ Count(l, tl_count[l] + 1)
    /\ call' = <<"addtail", l, t>>

threadlist_remhead(l) ==
    LET n == tln_next[tl_head(l)]
    IN  IF tln_next[n] = NULL
        THEN call' = <<"remhead", l, NULL>> /\ UNCHANGED <<links, tl_count>>
        ELSE /\ threadlist_removenode(n)
             /\ Count(l, tl_count[l] - 1)
             /\ call' = <<"remhead", l, n>>

(* Mutant: the count is left as it was.                                    *)
RemtailUncounted(l) ==
    LET n == tln_prev[tl_tail(l)]
    IN  /\ tln_prev[n] # NULL
        /\ threadlist_removenode(n)
        /\ call' = <<"remtail", l, n>>
        /\ UNCHANGED tl_count

threadlist_remtail(l) ==
    LET n == tln_prev[tl_tail(l)]
    IN  IF tln_prev[n] = NULL
        THEN call' = <<"remtail", l, NULL>> /\ UNCHANGED <<links, tl_count>>
        ELSE /\ threadlist_removenode(n)
             /\ Count(l, tl_count[l] - 1)
             /\ call' = <<"remtail", l, n>>

(* The caller names the list its thread is on.                             *)
threadlist_insertafter(l, onlist, t) ==
    /\ On(l, onlist)
    /\ threadlist_insertafternode(onlist, t)
    /\ Count(l, tl_count[l] + 1)
    /\ call' = <<"insertafter", l, t>>

threadlist_insertbefore(l, t, onlist) ==
    /\ On(l, onlist)
    /\ threadlist_insertbeforenode(t, onlist)
    /\ Count(l, tl_count[l] + 1)
    /\ call' = <<"insertbefore", l, t>>

threadlist_remove(l, t) ==
    /\ On(l, t)
    /\ threadlist_removenode(t)
    /\ Count(l, tl_count[l] - 1)
    /\ call' = <<"remove", l, t>>

Next ==
    \E l \in Lists :
        \/ threadlist_remhead(l)
        \/ threadlist_remtail(l)
        \/ \E t \in Threads :
              \/ threadlist_addhead(l, t)
              \/ threadlist_addtail(l, t)
              \/ threadlist_remove(l, t)
              \/ \E u \in Threads : \/ threadlist_insertafter(l, u, t)
                                    \/ threadlist_insertbefore(l, t, u)

Spec == Init /\ [][Next]_vars
-----------------------------------------------------------------------------
TypeOK ==
    /\ tln_next \in [Nodes -> Nodes \union {NULL}]
    /\ tln_prev \in [Nodes -> Nodes \union {NULL}]
    /\ tl_count \in [Lists -> Int]
    /\ call \in {"init", "addhead", "addtail", "remhead", "remtail",
                 "insertafter", "insertbefore", "remove"}
                \X (Lists \union {NULL}) \X (Threads \union {NULL})

(* The links of neighbours agree, the bookends stay outermost, and a       *)
(* thread is linked on both sides or on none: with this every assert of    *)
(* threadlist.c on links holds for a thread whose caller is right about    *)
(* the list it is on.                                                      *)
LinksAgree ==
    /\ \A n \in Nodes : /\ tln_next[n] # NULL => tln_prev[tln_next[n]] = n
                        /\ tln_prev[n] # NULL => tln_next[tln_prev[n]] = n
    /\ \A l \in Lists : /\ tln_prev[tl_head(l)] = NULL
                        /\ tln_next[tl_tail(l)] = NULL
                        /\ tln_next[tl_head(l)] # NULL
                        /\ tln_prev[tl_tail(l)] # NULL
    /\ \A t \in Threads : tln_next[t] = NULL <=> tln_prev[t] = NULL

(* tl_count is the number of threads an iteration visits, in either        *)
(* direction, and the two directions visit the same threads.               *)
CountExact ==
    \A l \in Lists :
        LET f == Forward(l)
            b == Backward(l)
        IN  /\ tl_count[l] = Len(f) /\ Len(b) = Len(f)
            /\ \A i \in 1..Len(f) : b[Len(f) + 1 - i] = f[i]
            /\ threadlist_isempty(l) <=> tln_next[tl_head(l)] = tl_tail(l)

Abstract == INSTANCE AbstractLists WITH seq <- [l \in Lists |-> Forward(l)]

(* Every call changes the sequence of its list as threadlist.h says and    *)
(* returns the thread at the end it names.                                 *)
ImplementsSequences == Abstract!Spec
=============================================================================
