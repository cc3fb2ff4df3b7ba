-------------------------------- MODULE Cga ---------------------------------
(***************************************************************************)
(* hw/cga.c: the text screen.  A cell is blank or holds a character; the   *)
(* colours and the cursor registers are left out.                          *)
(***************************************************************************)
EXTENDS Integers, Sequences

CONSTANTS CRT_ROWS, CRT_COLS

TAB == 4
CRT_SIZE == CRT_ROWS * CRT_COLS

CgaAssumption == CRT_ROWS \in Nat \ {0} /\ CRT_COLS \in Nat /\ CRT_COLS >= TAB

VARIABLES crt   \* [buf, pos]; a tab at the end writes past the last row

Cells == 0..(CRT_SIZE + TAB - 2)

Blank(pos) == [buf |-> [i \in Cells |-> " "], pos |-> pos]

(* init_cga and cls.                                                       *)
cls == Blank(0)

Init == crt = cls

(* Mutant: the last row is not cleared.                                    *)
ScrollDirty(s) ==
    [buf |-> [i \in Cells |-> IF i < CRT_SIZE - CRT_COLS
                              THEN s.buf[i + CRT_COLS] ELSE s.buf[i]],
     pos |-> s.pos - CRT_COLS]

scroll(s) ==
    [buf |-> [i \in Cells |-> IF i < CRT_SIZE - CRT_COLS THEN s.buf[i + CRT_COLS]
                              ELSE IF i < CRT_SIZE THEN " " ELSE s.buf[i]],
     pos |-> s.pos - CRT_COLS]

(* The cases of putc_cga.                                                  *)
PutBackspace(s) ==
    IF s.pos > 0
    THEN [buf |-> [s.buf EXCEPT ![s.pos - 1] = " "], pos |-> s.pos - 1]
    ELSE s

PutReturn(s) == [s EXCEPT !.pos = @ - (@ % CRT_COLS)]

PutNewline(s) == PutReturn([s EXCEPT !.pos = @ + CRT_COLS])

PutTab(s) ==
    [buf |-> [i \in Cells |-> IF i \in s.pos..(s.pos + TAB - 1) THEN " " ELSE s.buf[i]],
     pos |-> s.pos + TAB]

Printable == {"x"}     \* 0x20 to 0x7E

PutChar(s, c) ==
    IF c \in Printable
    THEN [buf |-> [s.buf EXCEPT ![s.pos] = c], pos |-> s.pos + 1]
    ELSE s

(* Mutant: the screen scrolls one character late.                          *)
ScrolledLate(s) == IF s.pos > CRT_SIZE THEN scroll(s) ELSE s

(* The end of putc_cga.                                                    *)
Scrolled(s) == IF s.pos >= CRT_SIZE THEN scroll(s) ELSE s

putc_cga(s, c) ==
    Scrolled(CASE c = "bs" -> PutBackspace(s)
               [] c = "nl" -> PutNewline(s)
               [] c = "cr" -> PutReturn(s)
               [] c = "tab" -> PutTab(s)
               [] OTHER -> PutChar(s, c))

Chars == Printable \union {"bs", "nl", "cr", "tab", "del"}

Next ==
    \/ \E c \in Chars : crt' = putc_cga(crt, c)
    \/ crt' = cls

Spec == Init /\ [][Next]_crt
-----------------------------------------------------------------------------
(* After every character the cursor is on the screen again: one scroll is  *)
(* always enough.                                                          *)
CursorOnScreen == crt.pos \in 0..(CRT_SIZE - 1)

(* A backspace takes back the character before it, as readline assumes:    *)
(* printed where the screen was blank and erased, it leaves the screen as  *)
(* it was, moved up a row if the character filled the last one.            *)
EraseUndoes ==
    crt.buf[crt.pos] = " " =>
        LET undone == putc_cga(putc_cga(crt, "x"), "bs")
            up == IF crt.pos = CRT_SIZE - 1 THEN CRT_COLS ELSE 0
        IN  /\ undone.pos = crt.pos - up
            /\ \A i \in 0..(CRT_SIZE - 1) :
                  undone.buf[i] = IF i + up < CRT_SIZE THEN crt.buf[i + up] ELSE " "
=============================================================================
