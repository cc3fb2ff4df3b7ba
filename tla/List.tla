-------------------------------- MODULE List --------------------------------
(***************************************************************************)
(* klib/list.c: a singly linked list with a tail pointer and a size, whose *)
(* nodes come from kmalloc and go back to kfree.  It implements            *)
(* AbstractList.                                                           *)
(***************************************************************************)
EXTENDS Integers, Sequences, FiniteSets

CONSTANTS Nodes,   \* the blocks kmalloc can return, which bounds the list
          Vals,    \* values; comparator is equality of values
          NULL

VARIABLES live,               \* the nodes that are allocated
          next, val,          \* their fields
          head, tail, size,   \* the list object's, size = NULL without one
          call                \* the last call, its value and its result

nodeVars == <<live, next, val>>
listVars == <<head, tail, size>>
vars == <<nodeVars, listVars, call>>

Init ==
    /\ live = {}
    /\ next = [n \in Nodes |-> NULL]
    /\ val = [n \in Nodes |-> NULL]
    /\ head = NULL /\ tail = NULL /\ size = -1
    /\ call = <<"none", NULL, NULL>>

IsList == size # -1

list_create ==
    /\ ~IsList
    /\ head' = NULL /\ tail' = NULL /\ size' = 0
    /\ call' = <<"create", NULL, NULL>>
    /\ UNCHANGED nodeVars

(* Mutant: the tail is moved but the old one is not linked to it.          *)
PushUnlinked(v) ==
    \E n \in Nodes \ live :
        /\ IsList
        /\ live' = live \union {n}
        /\ val' = [val EXCEPT ![n] = v]
        /\ next' = [next EXCEPT ![n] = NULL]
        /\ head' = IF size = 0 THEN n ELSE head
        /\ tail' = n
        /\ size' = size + 1
        /\ call' = <<"push_back", v, NULL>>

(* Mutant: the node is put in front.                                       *)
PushFront(v) ==
    \E n \in Nodes \ live :
        /\ IsList
        /\ live' = live \union {n}
        /\ val' = [val EXCEPT ![n] = v]
        /\ next' = [next EXCEPT ![n] = head]
        /\ head' = n
        /\ tail' = IF size = 0 THEN n ELSE tail
        /\ size' = size + 1
        /\ call' = <<"push_back", v, NULL>>

(* list_push_back with listnode_create: any free block may be returned.    *)
list_push_back(v) ==
    \E n \in Nodes \ live :
        /\ IsList
        /\ live' = live \union {n}
        /\ val' = [val EXCEPT ![n] = v]
        /\ next' = IF size = 0 THEN [next EXCEPT ![n] = NULL]
                   ELSE [next EXCEPT ![n] = NULL, ![tail] = n]
        /\ head' = IF size = 0 THEN n ELSE head
        /\ tail' = n
        /\ size' = size + 1
        /\ call' = <<"push_back", v, NULL>>

(* kfree of the nodes of S: what they held is gone.                        *)
Free(S) ==
    /\ live' = live \ S
    /\ val' = [n \in Nodes |-> IF n \in S THEN NULL ELSE val[n]]

list_pop_front ==
    /\ IsList
    /\ call' = <<"pop_front", NULL, NULL>>
    /\ IF size = 0
       THEN UNCHANGED <<nodeVars, listVars>>
       ELSE /\ head' = next[head]
            /\ size' = size - 1
            /\ tail' = IF size = 1 THEN NULL ELSE tail
            /\ Free({head})
            /\ next' = [next EXCEPT ![head] = NULL]

list_front ==
    /\ IsList
    /\ call' = <<"front", NULL, IF size = 0 THEN NULL ELSE val[head]>>
    /\ UNCHANGED <<nodeVars, listVars>>

(* The nodes from head on, as the loops of list.c meet them.  The walk is  *)
(* cut after as many nodes as there are.                                   *)
Path ==
    LET p[k \in 0..Cardinality(Nodes), n \in Nodes \union {NULL}] ==
            IF k = 0 \/ n = NULL THEN <<>> ELSE <<n>> \o p[k - 1, next[n]]
    IN  p[Cardinality(Nodes), head]

(* The place of the first node with value v, 0 if there is none.           *)
Place(v) ==
    LET at == {i \in 1..Len(Path) : val[Path[i]] = v}
    IN  IF at = {} THEN 0 ELSE CHOOSE i \in at : \A j \in at : i <= j

list_find(v) ==
    /\ IsList
    /\ call' = <<"find", v, IF Place(v) = 0 THEN NULL ELSE val[Path[Place(v)]]>>
    /\ UNCHANGED <<nodeVars, listVars>>

list_remove(v) ==
    LET i == Place(v)
        p == Path[i]
        q == IF i = 1 THEN NULL ELSE Path[i - 1]
    IN  /\ IsList
        /\ call' = <<"remove", v, IF i = 0 THEN NULL ELSE val[p]>>
        /\ IF i = 0
           THEN tail' = (IF size = 0 THEN NULL ELSE tail)
                /\ UNCHANGED <<nodeVars, head, size>>
           ELSE /\ head' = IF q = NULL THEN next[p] ELSE head
                /\ next' = [n \in Nodes |-> IF n = p THEN NULL
                                            ELSE IF n = q THEN next[p] ELSE next[n]]
                /\ size' = size - 1
                /\ tail' = IF size = 1 THEN NULL ELSE IF p = tail THEN q ELSE tail
                /\ Free({p})

(* Mutant: the loop stops before the last node.                            *)
DestroyAllButLast ==
    /\ IsList
    /\ Free({Path[i] : i \in 1..(Len(Path) - 1)})
    /\ next' = [n \in Nodes |-> NULL]
    /\ head' = NULL /\ tail' = NULL /\ size' = -1
    /\ call' = <<"destroy", NULL, NULL>>

list_destroy ==
    /\ IsList
    /\ Free({Path[i] : i \in 1..Len(Path)})
    /\ next' = [n \in Nodes |-> NULL]
    /\ head' = NULL /\ tail' = NULL /\ size' = -1
    /\ call' = <<"destroy", NULL, NULL>>

Next ==
    \/ list_create
    \/ list_pop_front
    \/ list_front
    \/ list_destroy
    \/ \E v \in Vals : list_push_back(v) \/ list_find(v) \/ list_remove(v)

Spec == Init /\ [][Next]_vars
-----------------------------------------------------------------------------
(* list_isempty and list_getsize, the asserts of list_assertvalid.         *)
list_isempty == size = 0
list_getsize == size

list_assertvalid ==
    /\ IF Len(Path) = 0 THEN tail = NULL ELSE tail = Path[Len(Path)]
    /\ Len(Path) = size

(* After any sequence of calls list_assertvalid holds and list_isempty     *)
(* tells whether there is a head.                                          *)
AlwaysValid == IsList => /\ list_assertvalid
                         /\ list_isempty <=> head = NULL

(* The allocated nodes are those of the list: none is leaked, and no link  *)
(* leads to one that was freed.                                            *)
NodesAccounted ==
    /\ {Path[i] : i \in 1..Len(Path)} = live
    /\ IsList => Cardinality(live) = list_getsize

Abstract == INSTANCE AbstractList WITH
    seq <- IF IsList THEN [i \in 1..Len(Path) |-> val[Path[i]]] ELSE NULL

(* Every call changes the sequence of values, and returns, what list.h     *)
(* says.                                                                   *)
ImplementsList == Abstract!Spec
=============================================================================
