------------------------------- MODULE Stabs --------------------------------
(***************************************************************************)
(* debug/debug.c: debuginfo_eip finds the source position of an address    *)
(* with three searches of the symbol table, for the file, for the function *)
(* in the file and for the line in the function.  Each is a stab_binsearch,*)
(* a binary search of a table in which entries of other types lie between  *)
(* those of the wanted one; an action is one turn of its loop.  Strings    *)
(* are left out: a name is the number of the stab it comes from.           *)
(***************************************************************************)
EXTENDS Integers, Sequences, FiniteSets, FiniteSetsExt

CONSTANTS Tables,   \* the symbol tables: sequences of [type, value]
          Addrs,    \* the addresses looked up
          NULL

W == 65536          \* size_t, of which 16 bits are enough here

VARIABLES table, eip,   \* the table and the address debuginfo_eip gets
          stage,        \* the search: "file", "fun", "line"; "done", "failed"
          l, r,         \* the loop's bounds
          left, right,  \* *region_left and *region_right
          any,          \* any_matches
          addr,         \* the search's own copy of the address
          file, fun,    \* the region of the file and of the function
          info          \* what debuginfo_eip reports

search == <<l, r, left, right, any, addr>>
vars == <<table, eip, stage, search, file, fun, info>>

(* Stabs are numbered from 0.                                              *)
Stab(i) == table[i + 1]
Last == Len(table) - 1

Wanted == CASE stage = "file" -> "SO" [] stage = "fun" -> "FUN" [] OTHER -> "SLINE"

Unknown == [fn |-> NULL, addr |-> NULL, line |-> NULL, src |-> NULL, narg |-> 0]

Init ==
    /\ table \in Tables /\ eip \in Addrs
    /\ stage = "file"
    /\ l = 0 /\ r = Last /\ left = 0 /\ right = Last
    /\ any = FALSE /\ addr = eip
    /\ file = NULL /\ fun = NULL /\ info = Unknown
-----------------------------------------------------------------------------
Searching == stage \in {"file", "fun", "line"} /\ l <= r

true_m == (l + r) \div 2
Matches == {m \in l..true_m : Stab(m).type = Wanted}

UnchangedOutside == UNCHANGED <<table, eip, stage, file, fun, info>>

NoMatch ==
    /\ Searching
    /\ Matches = {}
    /\ l' = true_m + 1
    /\ UNCHANGED <<r, left, right, any, addr>>
    /\ UnchangedOutside

(* Mutant: the middle is looked at again.                                  *)
BelowStays ==
    /\ Searching
    /\ Matches # {} /\ Stab(Max(Matches)).value < addr
    /\ any' = TRUE
    /\ left' = Max(Matches)
    /\ l' = true_m
    /\ UNCHANGED <<r, right, addr>>
    /\ UnchangedOutside

Below ==
    /\ Searching
    /\ Matches # {} /\ Stab(Max(Matches)).value < addr
    /\ any' = TRUE
    /\ left' = Max(Matches)
    /\ l' = true_m + 1
    /\ UNCHANGED <<r, right, addr>>
    /\ UnchangedOutside

(* Mutant: the region ends at the stab above the address.                  *)
AboveIncluded ==
    /\ Searching
    /\ Matches # {} /\ Stab(Max(Matches)).value > addr
    /\ any' = TRUE
    /\ right' = Max(Matches)
    /\ r' = Max(Matches) - 1
    /\ UNCHANGED <<l, left, addr>>
    /\ UnchangedOutside

Above ==
    /\ Searching
    /\ Matches # {} /\ Stab(Max(Matches)).value > addr
    /\ any' = TRUE
    /\ right' = Max(Matches) - 1
    /\ r' = Max(Matches) - 1
    /\ UNCHANGED <<l, left, addr>>
    /\ UnchangedOutside

(* The loop goes on to find right, now for the address behind.             *)
Exact ==
    /\ Searching
    /\ Matches # {} /\ Stab(Max(Matches)).value = addr
    /\ any' = TRUE
    /\ left' = Max(Matches)
    /\ l' = Max(Matches)
    /\ addr' = addr + 1
    /\ UNCHANGED <<r, right>>
    /\ UnchangedOutside

(* The region stab_binsearch returns.                                      *)
Region ==
    IF ~any THEN <<left, left - 1>>
    ELSE IF right <= left THEN <<right, right>>
    ELSE <<Max({left} \union {i \in (left + 1)..right : Stab(i).type = Wanted}), right>>
-----------------------------------------------------------------------------
Ended(s) == stage = s /\ l > r

Start(s, region, a) ==
    /\ stage' = s
    /\ l' = region[1] /\ r' = region[2] /\ left' = region[1] /\ right' = region[2]
    /\ any' = FALSE /\ addr' = a

Stop(s) == stage' = s /\ UNCHANGED search

FileFound ==
    /\ Ended("file")
    /\ IF Region[1] = 0 THEN Stop("failed") /\ UNCHANGED file
       ELSE Start("fun", Region, eip) /\ file' = Region
    /\ UNCHANGED <<table, eip, fun, info>>

(* Without a function the whole file is searched for the line.             *)
FunFound ==
    /\ Ended("fun")
    /\ fun' = Region
    /\ IF Region[1] <= Region[2]
       THEN LET start == Stab(Region[1]).value
            IN  /\ info' = [info EXCEPT !.fn = Region[1], !.addr = start]
                /\ Start("line", Region, (eip - start) % W)
       ELSE /\ info' = [info EXCEPT !.addr = eip]
            /\ Start("line", file, eip)
    /\ UNCHANGED <<table, eip, file>>

(* The stab the search backwards from line i for the source file stops at. *)
SourceOf(i) ==
    {j \in file[1]..i : \/ Stab(j).type = "SOL"
                        \/ Stab(j).type = "SO" /\ Stab(j).value # 0}

(* Mutant: the parameters are counted from the function's own stab.        *)
ArgsFromFun == Cardinality({j \in fun[1]..(fun[2] - 1) :
    \A k \in fun[1]..j : Stab(k).type = "PSYM"})

(* The parameters: the stabs of that type right behind the function's.     *)
Args == Cardinality({j \in (fun[1] + 1)..(fun[2] - 1) :
    \A k \in (fun[1] + 1)..j : Stab(k).type = "PSYM"})

LineFound ==
    /\ Ended("line")
    /\ IF Region[2] < Region[1] THEN Stop("failed") /\ UNCHANGED info
       ELSE /\ Stop("done")
            /\ info' = [info EXCEPT
                          !.line = Region[1],
                          !.src  = IF SourceOf(Region[1]) = {} THEN NULL
                                   ELSE Max(SourceOf(Region[1])),
                          !.narg = Args]
    /\ UNCHANGED <<table, eip, file, fun>>

Next == \/ NoMatch \/ Below \/ Above \/ Exact
        \/ FileFound \/ FunFound \/ LineFound

Spec == Init /\ [][Next]_vars /\ WF_vars(Next)
-----------------------------------------------------------------------------
Stopped == stage \in {"done", "failed"}

(* The last stab of the type at or below the address a, of those in S.     *)
Contains(type, S, a) ==
    LET at == {i \in S : Stab(i).type = type /\ Stab(i).value <= a}
    IN  IF at = {} THEN NULL ELSE Max(at)

(* The stabs from i up to the next one of the type.                        *)
UpTo(type, i) ==
    LET after == {j \in (i + 1)..Last : Stab(j).type = type}
    IN  i..(IF after = {} THEN Last ELSE Min(after) - 1)

(* The stabs stab_binsearch may return for address a in lo..hi.  An exact  *)
(* match makes it go on with the next address, so a stab one byte behind   *)
(* another may be returned for the first.  An address before all stabs of  *)
(* the type gives the first stab of the range, of whatever type: debug.c:  *)
(* 39-41 promises left > right then, which comes only if there is none.    *)
Found(type, lo, hi, a) ==
    LET of == {i \in lo..hi : Stab(i).type = type}
        on == {Stab(i).value : i \in of}
    IN  IF of = {} THEN {NULL}
        ELSE IF \A v \in on : v > a THEN {lo}
        ELSE {Contains(type, of, b) :
                b \in {b \in a..(a + Cardinality(on)) : a..(b - 1) \subseteq on}}

(* stab_binsearch(..) "finds the single stab entry of type 'type' that     *)
(* contains that address" (debug.c:27-28), with the exceptions of Found:   *)
(* the file is found in the table, the function in the file and the line   *)
(* in the function, or in the file if it has no functions.  The lookup     *)
(* fails only for an address before all files and where there are no lines.*)
FindsContaining ==
    Stopped =>
      IF file = NULL
      THEN stage = "failed" /\ Found("SO", 0, Last, eip) \subseteq {0, NULL}
      ELSE LET lines == IF info.fn = NULL THEN file ELSE fun
               lined == Found("SLINE", lines[1], lines[2],
                              IF info.fn = NULL THEN eip ELSE (eip - info.addr) % W)
           IN  /\ file[1] \in Found("SO", 0, Last, eip) \ {0}
               /\ file[1]..file[2] = UpTo("SO", file[1])
               /\ info.fn \in Found("FUN", file[1], file[2], eip)
               /\ info.fn # NULL =>
                    /\ info.addr = Stab(info.fn).value
                    /\ fun[1] = info.fn
                    /\ fun[1]..fun[2] = UpTo("FUN", fun[1]) \intersect (file[1]..file[2])
               /\ IF stage = "done" THEN info.line \in lined \ {NULL}
                  ELSE lined = {NULL}

(* The number of parameters reported is that of the function the address   *)
(* is in, whatever its neighbours in the table are.                        *)
ArgsOfFunction ==
    stage = "done" =>
        info.narg = IF info.fn = NULL THEN 0
                    ELSE Cardinality({i \in fun[1]..fun[2] :
                                         Stab(i).type = "PSYM"})
=============================================================================
