---------------------------- MODULE AbstractDict ----------------------------
(***************************************************************************)
(* What hashtable.h promises: a map from keys to values.                   *)
(***************************************************************************)
EXTENDS Naturals

CONSTANTS Keys, Vals, NULL

VARIABLES dict,   \* the value of each key, NULL if it has none
          call    \* the last call, its key, and the value given or returned

vars == <<dict, call>>

Init ==
    /\ dict = [k \in Keys |-> NULL]
    /\ call = <<"create", NULL, NULL>>

Add(k, v) ==
    /\ dict' = [dict EXCEPT ![k] = v]
    /\ call' = <<"add", k, v>>

Find(k) ==
    /\ call' = <<"find", k, dict[k]>>
    /\ UNCHANGED dict

Remove(k) ==
    /\ dict' = [dict EXCEPT ![k] = NULL]
    /\ call' = <<"remove", k, dict[k]>>

Next == \E k \in Keys : Find(k) \/ Remove(k) \/ \E v \in Vals : Add(k, v)

Spec == Init /\ [][Next]_vars
=============================================================================
