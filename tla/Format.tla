------------------------------ MODULE Format ------------------------------
(***************************************************************************)
(* The two formatted printers of klib: vprintfmt (print.c), which hands    *)
(* every character to putc, and vsnprintfmt (snprintf.c), whose characters *)
(* vsnprintf keeps in a buffer of n bytes.  They are two copies of one     *)
(* scanner that have drifted apart; `printer' says which one runs.  A      *)
(* format is the text of a sequence of pieces (a literal character or a    *)
(* conversion), so that what it should print is known without scanning it. *)
(* An int and a long have the range of WInt, a long long of WLongLong.     *)
(***************************************************************************)
EXTENDS Integers, Sequences, FiniteSetsExt

CONSTANTS Texts,      \* the sequences of pieces to be printed
          Printers,   \* a subset of {"vprintfmt", "vsnprintfmt"}
          Sizes,      \* the values of n, the size of the buffer
          WInt,       \* 2^32
          WLongLong,  \* 2^64
          NULL        \* the null string

VARIABLES text, printer, n,  \* the call
          i, ap,             \* fmt, as an index, and the arguments left
          inSpec,            \* between a '%' and its conversion
          padc, width, precision, lflag, altflag,
          out,               \* every character given to putc or putch
          buf, cnt,          \* sprintbuf
          rc                 \* "none" until the call returns

spec == <<padc, width, precision, lflag, altflag>>
vars == <<text, printer, n, i, ap, inSpec, spec, out, buf, cnt, rc>>

Digit == <<"0", "1", "2", "3", "4", "5", "6", "7", "8", "9",
           "a", "b", "c", "d", "e", "f">>

Repeat(ch, k) == [j \in 1 .. k |-> ch]

RECURSIVE Digits(_, _)
Digits(num, base) ==
    IF num < base THEN <<Digit[num + 1]>>
    ELSE Digits(num \div base, base) \o <<Digit[(num % base) + 1]>>

RECURSIVE Flatten(_)
Flatten(ss) == IF ss = <<>> THEN <<>> ELSE Head(ss) \o Flatten(Tail(ss))

(***************************************************************************)
(* Pieces: [flag, width, prec, ls, conv, arg]; width and prec are -1 when  *)
(* absent, conv is "text" for a literal character and "cut" when the       *)
(* format ends inside the conversion.                                      *)
(***************************************************************************)
Source(p) ==
    IF p.conv = "text" THEN <<p.arg>>
    ELSE <<"%">> \o p.flag
         \o (IF p.width < 0 \/ p.flag = <<"*">> THEN <<>> ELSE Digits(p.width, 10))
         \o (IF p.prec < 0 THEN <<>> ELSE <<".">> \o Digits(p.prec, 10))
         \o Repeat("l", p.ls) \o (IF p.conv = "cut" THEN <<>> ELSE <<p.conv>>)

fmt == Flatten([j \in DOMAIN text |-> Source(text[j])])
ArgsOf(p) ==
    (IF p.flag = <<"*">> THEN <<p.width>> ELSE <<>>)
    \o (IF p.conv \in {"c", "s", "d", "u", "o", "x", "b", "p"} THEN <<p.arg>>
        ELSE <<>>)

Init ==
    /\ text \in Texts /\ printer \in Printers
    /\ n \in (IF printer = "vprintfmt" THEN {0} ELSE Sizes)
    /\ i = 1 /\ inSpec = FALSE
    /\ ap = Flatten([j \in DOMAIN text |-> ArgsOf(text[j])])
    /\ padc = " " /\ width = -1 /\ precision = -1
    /\ lflag = 0 /\ altflag = 0
    /\ out = <<>> /\ buf = <<>> /\ cnt = 0
    /\ rc = "none"

Running == rc = "none" /\ (printer = "vsnprintfmt" => n >= 1)

(***************************************************************************)
(* putch: sprintputch counts every character and stores those for which    *)
(* there is room before ebuf = buf + n - 1.                                *)
(***************************************************************************)
(* Mutant: ebuf = buf + n.                                                 *)
PutWholeBuffer(s) ==
    /\ out' = out \o s
    /\ IF printer = "vprintfmt" THEN UNCHANGED <<buf, cnt>>
       ELSE /\ cnt' = cnt + Len(s)
            /\ buf' = SubSeq(buf \o s, 1, Min({Len(buf) + Len(s), n}))

Put(s) ==
    /\ out' = out \o s
    /\ IF printer = "vprintfmt" THEN UNCHANGED <<buf, cnt>>
       ELSE /\ cnt' = cnt + Len(s)
            /\ buf' = SubSeq(buf \o s, 1, Min({Len(buf) + Len(s), n - 1}))

Same == UNCHANGED <<text, printer, n>>
Silent == UNCHANGED <<out, buf, cnt, rc>>

(* The text between the conversions is put as it stands. *)
Literal ==
    /\ Running /\ ~inSpec /\ i <= Len(fmt) /\ fmt[i] # "%"
    /\ Put(<<fmt[i]>>)
    /\ i' = i + 1
    /\ UNCHANGED <<ap, inSpec, spec, rc>> /\ Same

(* A '%' starts a conversion with the defaults. *)
Percent ==
    /\ Running /\ ~inSpec /\ i <= Len(fmt) /\ fmt[i] = "%"
    /\ inSpec' = TRUE
    /\ i' = i + 1
    /\ padc' = " " /\ width' = -1 /\ precision' = -1
    /\ lflag' = 0 /\ altflag' = 0
    /\ UNCHANGED ap /\ Silent /\ Same

(* A character of the conversion: one that only adjusts it and goes to     *)
(* reswitch.                                                               *)
At(S) == Running /\ inSpec /\ i <= Len(fmt) /\ fmt[i] \in S

Flag ==
    /\ At({"-", "0"})
    /\ padc' = fmt[i]
    /\ i' = i + 1
    /\ UNCHANGED <<ap, inSpec, width, precision, lflag, altflag>>
    /\ Silent /\ Same

(***************************************************************************)
(* All the digits of a number are read into precision; process_precision   *)
(* then makes it the width if there is none yet.                           *)
(***************************************************************************)
DigitChars == {Digit[j] : j \in 1 .. 10}
Value(ch) == (CHOOSE j \in 1 .. 10 : Digit[j] = ch) - 1
NumberEnd ==
    Max({j \in i .. Len(fmt) : \A k \in i .. j : fmt[k] \in DigitChars})
RECURSIVE Number(_, _)
Number(from, to) ==
    IF to < from THEN 0 ELSE 10 * Number(from, to - 1) + Value(fmt[to])

(* Mutant: the number ends at its first digit. *)
WidthOneDigit ==
    /\ At(DigitChars \ {"0"})
    /\ IF width < 0
       THEN width' = Number(i, i) /\ precision' = -1
       ELSE precision' = Number(i, i) /\ UNCHANGED width
    /\ i' = i + 1
    /\ UNCHANGED <<ap, inSpec, padc, lflag, altflag>>
    /\ Silent /\ Same

Width ==
    /\ At(DigitChars \ {"0"})
    /\ LET v == Number(i, NumberEnd)
       IN  IF width < 0
           THEN width' = v /\ precision' = -1
           ELSE precision' = v /\ UNCHANGED width
    /\ i' = NumberEnd + 1
    /\ UNCHANGED <<ap, inSpec, padc, lflag, altflag>>
    /\ Silent /\ Same

(* A '*' takes the number from the arguments. *)
Star ==
    /\ At({"*"})
    /\ IF width < 0
       THEN width' = Head(ap) /\ precision' = -1
       ELSE precision' = Head(ap) /\ UNCHANGED width
    /\ ap' = Tail(ap)
    /\ i' = i + 1
    /\ UNCHANGED <<inSpec, padc, lflag, altflag>>
    /\ Silent /\ Same

(* Mutant: the point is read for ever. *)
DotStays ==
    /\ At({"."})
    /\ width' = Max({width, 0})
    /\ UNCHANGED <<i, ap, inSpec, padc, precision, lflag, altflag>>
    /\ Silent /\ Same

Dot ==
    /\ At({"."})
    /\ width' = Max({width, 0})
    /\ i' = i + 1
    /\ UNCHANGED <<ap, inSpec, padc, precision, lflag, altflag>>
    /\ Silent /\ Same

(* '#', 'l' and, in vsnprintfmt only, 'z'. *)
Modifier ==
    /\ At({"#", "l"} \cup (IF printer = "vsnprintfmt" THEN {"z"} ELSE {}))
    /\ altflag' = IF fmt[i] = "#" THEN 1 ELSE altflag
    /\ lflag' = CASE fmt[i] = "l" -> lflag + 1
                  [] fmt[i] = "z" -> 1
                  [] OTHER -> lflag
    /\ i' = i + 1
    /\ UNCHANGED <<ap, inSpec, padc, width, precision>> /\ Silent /\ Same

(* The conversion is complete and puts s. *)
Convert(s) ==
    /\ Put(s)
    /\ i' = i + 1
    /\ inSpec' = FALSE
    /\ UNCHANGED <<spec, rc>> /\ Same

Char ==
    /\ At({"c"})
    /\ Convert(<<Head(ap)>>)
    /\ ap' = Tail(ap)

(***************************************************************************)
(* '%s': padding on the left counts the whole string, whatever the         *)
(* precision; what is left of width after the characters goes on the right.*)
(* '#' puts '?' for what is not printable ("ctl" here).                    *)
(***************************************************************************)
Str ==
    /\ At({"s"})
    /\ LET p == IF Head(ap) = NULL THEN <<"(", "n", "u", "l", "l", ")">>
                ELSE Head(ap)
           kept == SubSeq(p, 1, IF precision < 0 THEN Len(p)
                                ELSE Min({precision, Len(p)}))
           shown == [j \in DOMAIN kept |->
                        IF altflag = 1 /\ kept[j] = "ctl" THEN "?" ELSE kept[j]]
       IN  Convert(IF width > 0 /\ padc # "-"
                   THEN Repeat(padc, width - Len(p)) \o shown
                   ELSE shown \o Repeat(" ", width - Len(kept)))
    /\ ap' = Tail(ap)

(***************************************************************************)
(* getint and getuint: the argument read with the width lflag selects, as  *)
(* the unsigned long long num.                                             *)
(***************************************************************************)
Bits == IF lflag >= 2 THEN WLongLong ELSE WInt
getuint(v) == v % Bits
getint(v) == IF v % Bits >= Bits \div 2 THEN (v % Bits) - Bits ELSE v % Bits

(* printnum puts padc, whichever it is, before the most significant digit. *)
printnum(num, base) ==
    LET ds == Digits(num, base) IN Repeat(padc, width - Len(ds)) \o ds

(* snprintnum puts spaces after the digits when padc is '-'. *)
snprintnum(num, base) ==
    LET ds == Digits(num, base)
    IN  IF padc # "-" THEN Repeat(padc, width - Len(ds)) \o ds
        ELSE ds \o Repeat(" ", width - Len(ds))

PrintNumber(num, base) ==
    IF printer = "vprintfmt" THEN printnum(num, base)
    ELSE snprintnum(num, base)

Signed ==
    /\ At({"d"})
    /\ LET v == getint(Head(ap))
       IN  Convert(IF v < 0 THEN <<"-">> \o PrintNumber(-v, 10)
                   ELSE PrintNumber(v, 10))
    /\ ap' = Tail(ap)

Base(ch) == CASE ch = "u" -> 10 [] ch = "o" -> 8 [] ch = "x" -> 16
Unsigned ==
    /\ At({"u", "o", "x"})
    /\ Convert(PrintNumber(getuint(Head(ap)), Base(fmt[i])))
    /\ ap' = Tail(ap)

(* '%b' of vsnprintfmt reads a signed argument and prints its bits as a    *)
(* long long.                                                              *)
Binary ==
    /\ printer = "vsnprintfmt" /\ At({"b"})
    /\ Convert(snprintnum(getint(Head(ap)) % WLongLong, 2))
    /\ ap' = Tail(ap)

Pointer ==
    /\ At({"p"})
    /\ Convert(<<"0", "x">> \o PrintNumber(Head(ap) % WInt, 16))
    /\ ap' = Tail(ap)

Escaped ==
    /\ At({"%"})
    /\ Convert(<<"%">>)
    /\ UNCHANGED ap

(***************************************************************************)
(* Anything else, the NUL of a format that ends inside a conversion too:   *)
(* vprintfmt puts the '%' and goes back to the character after it, so that *)
(* all of the sequence is text; vsnprintfmt puts the '%', the 'l's and the *)
(* character.                                                              *)
(***************************************************************************)
Known == {"-", "#", ".", "l", "c", "s", "d", "u", "o", "x", "p", "%", "*"}
         \cup DigitChars
         \cup (IF printer = "vprintfmt" THEN {"f"} ELSE {"b", "z"})

ch == IF i <= Len(fmt) THEN fmt[i] ELSE "NUL"

(* Mutant: the scan goes on after the character. *)
UnknownForward ==
    /\ Running /\ inSpec /\ ch \notin Known
    /\ Convert(IF printer = "vprintfmt" THEN <<"%", ch>>
               ELSE <<"%">> \o Repeat("l", lflag) \o <<ch>>)
    /\ UNCHANGED ap

Unknown ==
    /\ Running /\ inSpec /\ ch \notin Known
    /\ IF printer = "vprintfmt"
       THEN /\ Put(<<"%">>)
            /\ i' = Max({j \in 2 .. i : fmt[j - 1] = "%"})
       ELSE /\ Put(<<"%">> \o Repeat("l", lflag) \o <<ch>>)
            /\ i' = i + 1
    /\ inSpec' = FALSE
    /\ UNCHANGED <<ap, spec, rc>> /\ Same

(* Behind the NUL the scan reads whatever lies in memory there: the model  *)
(* ends.                                                                   *)
Beyond ==
    /\ Running /\ i > Len(fmt) + 1
    /\ rc' = "beyond"
    /\ UNCHANGED <<i, ap, inSpec, spec, out, buf, cnt>> /\ Same

(* The NUL of the format: vsnprintf closes the buffer, returns the count.  *)
Return ==
    /\ Running /\ ~inSpec /\ i = Len(fmt) + 1
    /\ IF printer = "vprintfmt" THEN rc' = "void" /\ UNCHANGED buf
       ELSE rc' = "count" /\ buf' = Append(buf, "NUL")
    /\ UNCHANGED <<i, ap, inSpec, spec, out, cnt>> /\ Same

NoRoom ==
    /\ rc = "none" /\ printer = "vsnprintfmt" /\ n < 1
    /\ rc' = "EINVAL"
    /\ UNCHANGED <<i, ap, inSpec, spec, out, buf, cnt>> /\ Same

Next == \/ Literal \/ Percent \/ Flag \/ Width \/ Star \/ Dot \/ Modifier
        \/ Char \/ Str \/ Signed \/ Unsigned \/ Binary \/ Pointer \/ Escaped
        \/ Unknown \/ Beyond \/ Return \/ NoRoom

Spec == Init /\ [][Next]_vars /\ WF_vars(Next)
-----------------------------------------------------------------------------
(***************************************************************************)
(* What the pieces say should be printed.  Flags: '-' pads on the right    *)
(* with spaces, '0' on the left with zeros.                                *)
(***************************************************************************)
Pad(p, s) ==
    LET k == p.width - Len(s)
    IN  CASE p.flag = <<"-">> -> s \o Repeat(" ", k)
          [] p.flag = <<"0">> -> Repeat("0", k) \o s
          [] OTHER -> Repeat(" ", k) \o s

Meant(p) ==
    LET W == IF p.ls >= 2 THEN WLongLong ELSE WInt IN
    CASE p.conv = "text" -> <<p.arg>>
      [] p.conv = "%" -> <<"%">>
      [] p.conv = "c" -> <<p.arg>>
      [] p.conv = "d" -> IF p.arg < 0 THEN <<"-">> \o Digits(-p.arg, 10)
                         ELSE Pad(p, Digits(p.arg, 10))
      [] p.conv \in {"u", "o", "x"} -> Pad(p, Digits(p.arg % W, Base(p.conv)))
      [] p.conv = "b" -> Pad(p, Digits(p.arg, 2))
      [] p.conv = "p" -> <<"0", "x">> \o Pad(p, Digits(p.arg, 16))
      [] p.conv = "s" ->
            LET str == IF p.arg = NULL THEN <<"(", "n", "u", "l", "l", ")">>
                       ELSE p.arg
                k == IF p.prec < 0 THEN Len(str) ELSE Min({p.prec, Len(str)})
            IN  Pad(p, [j \in 1 .. k |-> IF p.flag = <<"#">> /\ str[j] = "ctl"
                                         THEN "?" ELSE str[j]])
      [] OTHER -> Source(p)

Printed == Flatten([j \in DOMAIN text |-> Meant(text[j])])
Unrecognized(p) ==
    \/ p.conv \in {"q", "cut"}
    \/ printer = "vprintfmt" /\ (p.conv = "b" \/ p.flag = <<"z">>)
Numeric(p) == p.conv \in {"d", "u", "o", "x", "p", "b"}

(* The calls that read past their format.                                  *)
CutShort ==
    /\ printer = "vsnprintfmt" /\ n >= 1
    /\ text # <<>> /\ text[Len(text)].conv = "cut"

Returned == rc \in {"void", "count", "EINVAL"}

(***************************************************************************)
(* A call that returns has printed what its pieces mean, in both printers: *)
(* the fields, flags, lengths and conversions are scanned apart correctly  *)
(* and the arguments go to the conversions they belong to.  Left out:      *)
(* unrecognized sequences (UnknownIsLiteral) and '-' before a number in    *)
(* vprintfmt, which then pads it on the left with dashes.  The texts leave *)
(* out two fields C pads otherwise: a negative number with a width (the    *)
(* sign comes before the field) and a string cut short in a field (the     *)
(* padding counts all of it).                                              *)
(***************************************************************************)
PrintsItsPieces ==
    (/\ rc \in {"void", "count"}
     /\ \A j \in DOMAIN text :
           /\ ~Unrecognized(text[j])
           /\ ~(printer = "vprintfmt" /\ text[j].flag = <<"-">>
                                      /\ Numeric(text[j])))
    => out = Printed

(***************************************************************************)
(* vprintfmt prints an unrecognized escape sequence literally, flags,      *)
(* width and length included, and the rest of the format as usual          *)
(* (print.c:261-266); the conversions after it still get their arguments.  *)
(***************************************************************************)
UnknownIsLiteral ==
    (/\ rc = "void"
     /\ \E j \in DOMAIN text : Unrecognized(text[j])
     /\ \A j \in DOMAIN text : text[j].flag # <<"-">>)
    => out = Flatten([j \in DOMAIN text |->
                        IF Unrecognized(text[j]) THEN Source(text[j])
                        ELSE Meant(text[j])])

(***************************************************************************)
(* vsnprintf never writes past the n bytes it is given; the buffer holds   *)
(* the longest prefix of the whole output that fits, then the NUL, and the *)
(* count returned is the length of the whole output.                       *)
(***************************************************************************)
BufferIsPrefix ==
    printer = "vsnprintfmt" =>
        /\ Len(buf) <= n
        /\ cnt = Len(out)
        /\ rc = "count" =>
              buf = SubSeq(out, 1, Min({Len(out), n - 1})) \o <<"NUL">>
        /\ rc = "EINVAL" => buf = <<>>

(***************************************************************************)
(* Only vsnprintfmt reads past the end of its format, and only if that     *)
(* ends inside a conversion: snprintf.c:188-194 has no case for the NUL.   *)
(***************************************************************************)
StaysInFormat == rc = "beyond" => CutShort
=============================================================================
