------------------------------- MODULE MCKlib -------------------------------
(***************************************************************************)
(* The data structures and routines of the kernel's library for TLC.  The  *)
(* initial state picks one component, which then runs by itself: a state   *)
(* holds the variables of that component in x1, x2, ... and 0 in the rest. *)
(***************************************************************************)
EXTENDS Integers, Sequences, FiniteSets

CONSTANTS l1, l2, t1, t2, t3, n1, n2, n3, n4, v1, v2, NULL, ENOSPC

VARIABLES component,
          x1, x2, x3, x4, x5, x6, x7, x8, x9, x10, x11, x12, x13, x14, x15

vars == <<component, x1, x2, x3, x4, x5, x6, x7, x8, x9, x10, x11, x12, x13,
          x14, x15>>

(* A component with k variables runs and the others stay unused.           *)
Unused(k) ==
    /\ IF k < 4 THEN x4 = 0 ELSE TRUE
    /\ IF k < 5 THEN x5 = 0 ELSE TRUE
    /\ IF k < 6 THEN x6 = 0 ELSE TRUE
    /\ IF k < 7 THEN x7 = 0 ELSE TRUE
    /\ IF k < 8 THEN x8 = 0 ELSE TRUE
    /\ IF k < 9 THEN x9 = 0 ELSE TRUE
    /\ IF k < 10 THEN x10 = 0 ELSE TRUE
    /\ IF k < 11 THEN x11 = 0 ELSE TRUE
    /\ IF k < 12 THEN x12 = 0 ELSE TRUE
    /\ IF k < 13 THEN x13 = 0 ELSE TRUE
    /\ IF k < 14 THEN x14 = 0 ELSE TRUE
    /\ IF k < 15 THEN x15 = 0 ELSE TRUE

Kept(k) ==
    /\ IF k < 4 THEN x4' = x4 ELSE TRUE
    /\ IF k < 5 THEN x5' = x5 ELSE TRUE
    /\ IF k < 6 THEN x6' = x6 ELSE TRUE
    /\ IF k < 7 THEN x7' = x7 ELSE TRUE
    /\ IF k < 8 THEN x8' = x8 ELSE TRUE
    /\ IF k < 9 THEN x9' = x9 ELSE TRUE
    /\ IF k < 10 THEN x10' = x10 ELSE TRUE
    /\ IF k < 11 THEN x11' = x11 ELSE TRUE
    /\ IF k < 12 THEN x12' = x12 ELSE TRUE
    /\ IF k < 13 THEN x13' = x13 ELSE TRUE
    /\ IF k < 14 THEN x14' = x14 ELSE TRUE
    /\ IF k < 15 THEN x15' = x15 ELSE TRUE

Starts(name, k) == component = name /\ Unused(k)
Runs(name, k) == component = name /\ Kept(k) /\ UNCHANGED component
-----------------------------------------------------------------------------
(* Keys "a", "e", "i", "b": 97, 101 and 105 collide modulo 4, 97 and       *)
(* 105 modulo 8 too.                                                       *)
Keys == {<<97>>, <<101>>, <<105>>, <<98>>}

(* Tables as a compiler writes them: functions every FunSize bytes, some   *)
(* of which begin a file, with up to one parameter and up to two lines,    *)
(* the second of them perhaps from an included file; an assembly file,     *)
(* which has lines and no functions, may come last.                        *)
Gap == 2   \* the bytes of a function's first line
FunSize == 4
MaxFuns == 3

S(type, value) == <<[type |-> type, value |-> value]>>

Lines == {S("SLINE", 0),
          S("SLINE", 0) \o S("SLINE", Gap),
          S("SLINE", 0) \o S("SOL", Gap) \o S("SLINE", Gap)}

Fun(i, newFile, psym, lines) ==
    (IF i = 1 \/ newFile THEN S("SO", FunSize * i) ELSE <<>>)
        \o S("FUN", FunSize * i) \o (IF psym THEN S("PSYM", 8) ELSE <<>>) \o lines

Funs(i) == {Fun(i, n, a, ls) : n \in (IF i = 1 THEN {TRUE} ELSE BOOLEAN),
                               a \in BOOLEAN,
                               ls \in IF i = MaxFuns THEN {S("SLINE", 0)} ELSE Lines}

Asm(i) == S("SO", FunSize * i) \o S("SLINE", FunSize * i)
              \o S("SLINE", FunSize * i + Gap)

Regular ==
    LET upto[n \in 0..MaxFuns] ==
            IF n = 0 THEN {S("UNDF", 0)}
            ELSE {t \o f : t \in upto[n - 1], f \in Funs(n)}
    IN  UNION {upto[n] \union {t \o Asm(n + 1) : t \in upto[n]} : n \in 1..MaxFuns}

(* Files that begin before their first function or line, and functions and *)
(* lines one byte apart.                                                   *)
DenseLines == {<<>>, S("SLINE", 1), S("SLINE", 0) \o S("SLINE", 1),
               S("SLINE", 0) \o S("SLINE", 1) \o S("SLINE", 2)}

Dense ==
    LET file == S("UNDF", 0) \o S("SO", 3)
    IN  {file \o S("FUN", f) \o ls \o new \o S("FUN", g) \o ms :
            f \in {3, 5}, g \in {6, 7}, new \in {<<>>, S("SO", 6)},
            ls \in DenseLines, ms \in DenseLines}
        \union {file \o S("SLINE", 5) \o S("SLINE", 6)}

Tables == Regular \union Dense

Addrs == 0..(FunSize * (MaxFuns + 1) + Gap + 1)

(* Every conversion with the flags, widths and lengths that apply to it,   *)
(* alone, before and after text, and in pairs.                             *)
P(flag, w, prec, ls, conv, arg) ==
    [flag |-> flag, width |-> w, prec |-> prec, ls |-> ls, conv |-> conv,
     arg |-> arg]

Numbers ==
    {P(f, w, -1, ls, conv, v) :
        f \in {<<>>, <<"-">>, <<"0">>}, w \in {3, 10},
        ls \in {0, 1, 2}, conv \in {"d", "u", "x", "o", "p", "b"},
        v \in {0, 9, 127}}
    \cup {P(<<>>, -1, -1, ls, conv, v) :
            ls \in {0, 2}, conv \in {"d", "u", "x"}, v \in {-1, -128}}
    \cup {P(<<>>, -1, -1, 2, "d", v) : v \in {200, -200}}
    \cup {P(<<"z">>, -1, -1, 0, "u", 9)}

Strings ==
    {P(f, w, prec, 0, "s", s) :
        f \in {<<>>, <<"-">>, <<"#">>}, w \in {4}, prec \in {-1, 3},
        s \in {<<>>, <<"a", "ctl">>, <<"a", "b", "c">>}}
    \cup {P(<<>>, -1, -1, 0, "s", NULL), P(<<>>, -1, 2, 0, "s", NULL)}

Others ==
    {P(<<>>, -1, -1, 0, "c", "a"), P(<<>>, -1, -1, 0, "%", 0),
     P(<<>>, -1, -1, 0, "q", 0), P(<<"0">>, 5, -1, 1, "q", 0)}

Text == P(<<>>, -1, -1, 0, "text", "t")

Few ==
    {P(<<"0">>, 3, -1, 0, "d", 9), P(<<>>, -1, -1, 0, "d", -1),
     P(<<>>, -1, -1, 2, "x", 127), P(<<"*">>, 4, -1, 0, "u", 9), P(<<>>, 4, -1, 0, "s", <<"a", "b", "c">>),
     Text} \cup Others

(* Formats that end inside a conversion.                                   *)
Cuts == {P(<<>>, -1, -1, 0, "cut", 0), P(<<"0">>, 5, -1, 1, "cut", 0),
         P(<<"*">>, 4, -1, 2, "cut", 0)}

Texts ==
    {<<>>} \cup {<<p>> : p \in Numbers \cup Strings \cup Others}
    \cup {<<p, q>> : p, q \in Few}
    \cup {<<p, Text, q>> : p \in Few, q \in Few}
    \cup {t \o <<c>> : t \in {<<>>} \cup {<<p>> : p \in Few}, c \in Cuts}
-----------------------------------------------------------------------------
TL == INSTANCE ThreadList WITH
        Lists <- {l1, l2}, Threads <- {t1, t2, t3},
        tln_next <- x1, tln_prev <- x2, tl_count <- x3, call <- x4

L == INSTANCE List WITH
        Nodes <- {n1, n2, n3, n4}, Vals <- {v1, v2},
        live <- x1, next <- x2, val <- x3, head <- x4, tail <- x5,
        size <- x6, call <- x7

HT == INSTANCE Hashtable WITH
        Vals <- {v1, v2}, MIN_SIZE <- 2, LF_MULTIPLE <- 2,
        h <- x1, call <- x2, halt <- x3

A == INSTANCE Array WITH
        Vals <- {v1, v2}, MaxNum <- 5, a <- x1, seq <- x2, halt <- x3

HP == INSTANCE Heap WITH
        Vals <- {1, 2, 3}, NULL <- 0, MaxNum <- 6,
        a <- x1, seq <- x2, halt <- x3, popped <- x4

B == INSTANCE Bitmap WITH
        MaxBits <- 10, bits <- x1, bytes <- x2, marked <- x3, ret <- x4

ST == INSTANCE Stabs WITH
        table <- x1, eip <- x2, stage <- x3, l <- x4, r <- x5, left <- x6,
        right <- x7, any <- x8, addr <- x9, file <- x10, fun <- x11,
        info <- x12

F == INSTANCE Format WITH
        Printers <- {"vprintfmt", "vsnprintfmt"}, Sizes <- {0, 1, 4, 12},
        WInt <- 256, WLongLong <- 4096,
        text <- x1, printer <- x2, n <- x3, i <- x4, ap <- x5, inSpec <- x6,
        padc <- x7, width <- x8, precision <- x9, lflag <- x10,
        altflag <- x11, out <- x12, buf <- x13, cnt <- x14, rc <- x15

Kmalloced(ticks, active) ==
    [start_ticks |-> ticks, stop_ticks |-> ticks, active |-> active]

(* The clients of timers, and a thread in pit_wait: they share only the    *)
(* counter, so each has a run of its own.                                  *)
TI == INSTANCE Timer WITH
        NTIMERS <- 2, ENTIMER <- 1, Clients <- {t1, t2, t3},
        Wrap <- 4000000, Steps <- {1800500, 2199500}, Waits <- {},
        MaxTicks <- 2, Garbage <- {Kmalloced(0, FALSE), Kmalloced(5, TRUE)},
        nticks <- x1, timers <- x2, mine <- x3, run <- x4, since <- x5,
        misled <- x6, result <- x7, wait <- x8, steps <- x9, halt <- x10

TW == INSTANCE Timer WITH
        NTIMERS <- 2, ENTIMER <- 1, Clients <- {},
        Wrap <- 40, Steps <- {1, 7, 40}, Waits <- {0, 1, 7, 39},
        MaxTicks <- 4, Garbage <- {},
        nticks <- x1, timers <- x2, mine <- x3, run <- x4, since <- x5,
        misled <- x6, result <- x7, wait <- x8, steps <- x9, halt <- x10

ASSUME TL!ThreadListAssumption
ASSUME HT!HashtableAssumption
ASSUME B!BitmapAssumption

Init ==
    \/ Starts("threadlist", 4) /\ TL!Init
    \/ Starts("list", 7) /\ L!Init
    \/ Starts("hashtable", 3) /\ HT!Init
    \/ Starts("array", 3) /\ A!ArrayInit
    \/ Starts("heap", 4) /\ HP!HeapInit
    \/ Starts("bitmap", 4) /\ B!Init
    \/ Starts("stabs", 12) /\ ST!Init
    \/ Starts("format", 15) /\ F!Init
    \/ Starts("timer", 10) /\ TI!Init
    \/ Starts("wait", 10) /\ TW!Init

StabsNext == Runs("stabs", 12) /\ ST!Next
FormatNext == Runs("format", 15) /\ F!Next

Next ==
    \/ Runs("threadlist", 4) /\ TL!Next
    \/ Runs("list", 7) /\ L!Next
    \/ Runs("hashtable", 3) /\ HT!Next
    \/ Runs("array", 3) /\ A!ArrayNext
    \/ Runs("heap", 4) /\ HP!HeapNext
    \/ Runs("bitmap", 4) /\ B!Next
    \/ StabsNext
    \/ FormatNext
    \/ Runs("timer", 10) /\ TI!Next
    \/ Runs("wait", 10) /\ TW!Next

Spec == Init /\ [][Next]_vars /\ WF_vars(StabsNext) /\ WF_vars(FormatNext)
-----------------------------------------------------------------------------
(* threadlist.c: every call changes the sequence of its list, and returns, *)
(* what threadlist.h says; the links agree in both directions.             *)
ImplementsSequences ==
    /\ component = "threadlist" => TL!Abstract!Init
    /\ [][component = "threadlist" =>
            [TL!Abstract!Next]_(TL!Abstract!vars)]_vars

(* list.c: every call changes the sequence of values, and returns, what    *)
(* list.h says.                                                            *)
ImplementsList ==
    /\ component = "list" => L!Abstract!Init
    /\ [][component = "list" => [L!Abstract!Next]_(L!Abstract!vars)]_vars

(* hashtable.c: the table is a map; no resize, also one inside another,    *)
(* loses, duplicates or reverts an item.                                   *)
ImplementsDict ==
    /\ component = "hashtable" => HT!Dict!Init
    /\ [][component = "hashtable" => [HT!Dict!Next]_(HT!Dict!vars)]_vars

(* The asserts the structures make of themselves hold after any calls:     *)
(* the links and counts of thread lists, the nodes of lists, none leaked,  *)
(* the slots and the load of hash tables.  Arrays and bitmaps hold what    *)
(* was put into them, also after a growth and in the last, partial byte,   *)
(* and bitmap_alloc takes the lowest clear bit.                            *)
StructuresValid ==
    /\ [](component = "threadlist" => TL!LinksAgree /\ TL!CountExact)
    /\ [](component = "list" => L!AlwaysValid /\ L!NodesAccounted)
    /\ [](component = "hashtable" => HT!AlwaysValid /\ HT!LoadBounded)
    /\ [](component = "array" => A!ElementsKept)
    /\ [](component = "bitmap" => B!BytesMatch)
    /\ [][component = "bitmap" => B!AllocLowest]_vars

(* heap.c: after any pushes and pops the heap is ordered and holds the     *)
(* elements pushed and not yet popped, each as often, and what is popped   *)
(* is the first of them.                                                   *)
HeapSound ==
    /\ [](component = "heap" => HP!HeapOrdered /\ HP!KeepsElements)
    /\ [][component = "heap" => HP!PopsFirst]_vars

(* debug.c: the function, line and number of arguments reported for an     *)
(* address are those the symbol table has for it.                          *)
FindsContaining == component = "stabs" => ST!FindsContaining /\ ST!ArgsOfFunction

(* print.c and snprintf.c: a call prints what the pieces of its format     *)
(* mean, vsnprintf keeps the prefix of it that fits, and no format is read *)
(* past its end unless vsnprintf gets one that ends inside a conversion.   *)
PrintsItsPieces ==
    component = "format" =>
        /\ F!PrintsItsPieces /\ F!UnknownIsLiteral
        /\ F!BufferIsPrefix /\ F!StaysInFormat

(* time.c and pit.c: what a timer reads is how long it ran, through stops  *)
(* and the wrap of the tick counter, and no assert fails, until            *)
(* timer_create has misled a client; pit_wait waits as long as asked, or   *)
(* whole wraps of the counter longer.                                      *)
TimersExact ==
    /\ component = "timer" => TI!ReadingExact /\ TI!DiffIsDistance /\ TI!AssertsHold
    /\ component = "wait" => TW!WaitExactOrWrapped

(* debug.c, print.c and snprintf.c: every lookup of an address comes to    *)
(* its end, and every formatted print, except of vsnprintf with a format   *)
(* that ends inside a conversion.                                          *)
CallsEnd ==
    /\ component = "stabs" ~> component = "stabs" /\ ST!Stopped
    /\ component = "format" /\ ~F!CutShort ~> component = "format" /\ F!Returned
=============================================================================
