--------------------------- MODULE AbstractLists ----------------------------
(***************************************************************************)
(* What threadlist.h promises: each list is a sequence of threads, a       *)
(* thread is on one list at most, and an operation returns what the        *)
(* sequence says.  Module Sched models the run queue and the wait channels *)
(* by such sequences.                                                      *)
(***************************************************************************)
EXTENDS Naturals, Sequences, SequencesExt, Functions

CONSTANTS Lists, Threads, NULL

VARIABLES seq,    \* the threads of each list, in order
          call    \* the last call: its name, its list, the thread it moved

vars == <<seq, call>>

Init ==
    /\ seq = [l \in Lists |-> <<>>]
    /\ call = <<"init", NULL, NULL>>

OnNoList(t) == \A l \in Lists : t \notin Range(seq[l])

Becomes(op, l, t, s) ==
    /\ seq' = [seq EXCEPT ![l] = s]
    /\ call' = <<op, l, t>>

Add(l, t) ==
    /\ OnNoList(t)
    /\ \/ Becomes("addhead", l, t, <<t>> \o seq[l])
       \/ Becomes("addtail", l, t, Append(seq[l], t))
       \/ \E i \in 1..Len(seq[l]) :
             \/ Becomes("insertbefore", l, t, InsertAt(seq[l], i, t))
             \/ Becomes("insertafter", l, t, InsertAt(seq[l], i + 1, t))

TakeOff(l) ==
    \/ seq[l] = <<>> /\ \E op \in {"remhead", "remtail"} :
                           Becomes(op, l, NULL, <<>>)
    \/ seq[l] # <<>> /\ \/ Becomes("remhead", l, Head(seq[l]), Tail(seq[l]))
                        \/ Becomes("remtail", l, Last(seq[l]), Front(seq[l]))
    \/ \E i \in 1..Len(seq[l]) :
          Becomes("remove", l, seq[l][i], RemoveAt(seq[l], i))

Next == \E l \in Lists : TakeOff(l) \/ \E t \in Threads : Add(l, t)

Spec == Init /\ [][Next]_vars
=============================================================================
