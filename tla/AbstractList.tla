---------------------------- MODULE AbstractList ----------------------------
(***************************************************************************)
(* What list.h and queue.h promise: a sequence of values, appended to at   *)
(* the back, taken from the front, searched and removed from by value.     *)
(***************************************************************************)
EXTENDS Naturals, Sequences, SequencesExt, Functions

CONSTANTS Vals, NULL

VARIABLES seq,    \* the values, NULL when there is no list
          call    \* the last call, its value and what it returned

vars == <<seq, call>>

Init == seq = NULL /\ call = <<"none", NULL, NULL>>

Does(op, arg, ret, s) == seq' = s /\ call' = <<op, arg, ret>>

Create == seq = NULL /\ Does("create", NULL, NULL, <<>>)

Use ==
    /\ seq # NULL
    /\ \/ \E v \in Vals : Does("push_back", v, NULL, Append(seq, v))
       \/ Does("pop_front", NULL, NULL, IF seq = <<>> THEN seq ELSE Tail(seq))
       \/ Does("front", NULL, IF seq = <<>> THEN NULL ELSE Head(seq), seq)
       \/ \E v \in Vals :
             IF v \in Range(seq)
             THEN \/ Does("find", v, v, seq)
                  \/ Does("remove", v, v, RemoveFirst(seq, v))
             ELSE \E op \in {"find", "remove"} : Does(op, v, NULL, seq)
       \/ Does("destroy", NULL, NULL, NULL)

Next == Create \/ Use

Spec == Init /\ [][Next]_vars
=============================================================================
