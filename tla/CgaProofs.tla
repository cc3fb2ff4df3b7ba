------------------------------ MODULE CgaProofs -----------------------------
(***************************************************************************)
(* Proofs about Cga for screens of any size: a character moves the cursor  *)
(* by no more than a row, so one scroll brings it back.                    *)
(***************************************************************************)
EXTENDS Cga, TLAPS

(* A screen has at least one whole row.                                    *)
LEMMA SizeFacts ==
    ASSUME CgaAssumption PROVE CRT_SIZE \in Nat /\ CRT_SIZE >= CRT_COLS
<1>1. ASSUME NEW r \in Nat \ {0}, NEW c \in Nat PROVE r * c \in Nat /\ r * c >= c
    <2>1. PICK k \in Nat : r = k + 1
        <3>1. r - 1 \in Nat /\ r = (r - 1) + 1
            OBVIOUS
        <3>2. QED
            BY <3>1
    <2>2. k * c \in Nat
        OBVIOUS
    <2>3. r * c = k * c + c
        BY <2>1
    <2>4. QED
        BY <2>2, <2>3
<1>2. QED
    BY <1>1 DEF CgaAssumption, CRT_SIZE

(* A carriage return moves the cursor back, and not before the screen.     *)
LEMMA RemainderFacts ==
    ASSUME NEW n \in Nat, NEW c \in Nat \ {0} PROVE n - (n % c) \in 0..n
<1>1. n % c \in 0..(c - 1) /\ n \div c \in Int /\ n = c * (n \div c) + (n % c)
    OBVIOUS
<1>2. ASSUME NEW q \in Int, NEW r \in 0..(c - 1), n = c * q + r PROVE r <= n
    <2>1. CASE q >= 0
        <3>1. c * q \in Nat
            BY <2>1
        <3>2. QED
            BY <1>2, <3>1
    <2>2. CASE q <= -1
        <3>1. c * q <= -c
            BY <2>2
        <3>2. QED
            BY <1>2, <3>1
    <2>3. QED
        BY <2>1, <2>2
<1>3. QED
    BY <1>1, <1>2

(* A screen with its cursor in P.                                          *)
At(s, P) == \E b : \E n \in P : s = [buf |-> b, pos |-> n]
OnScreen == 0..(CRT_SIZE - 1)
Behind == 0..(CRT_SIZE - 1 + CRT_COLS)

(* Every case of putc_cga leaves the cursor on the screen or at most a row *)
(* behind its end.                                                         *)
LEMMA PutMoves ==
    ASSUME CgaAssumption, NEW s, At(s, OnScreen), NEW c
    PROVE  /\ At(PutBackspace(s), Behind) /\ At(PutReturn(s), Behind)
           /\ At(PutNewline(s), Behind) /\ At(PutTab(s), Behind)
           /\ At(PutChar(s, c), Behind)
<1>0. PICK b : \E n \in OnScreen : s = [buf |-> b, pos |-> n]
    BY DEF At
<1>1. PICK n \in OnScreen : s = [buf |-> b, pos |-> n]
    BY <1>0
<1>2. /\ CRT_SIZE \in Nat /\ CRT_COLS \in Nat \ {0} /\ CRT_COLS >= 4 /\ TAB = 4
      /\ n \in Nat /\ n < CRT_SIZE /\ s.pos = n /\ s.buf = b
    BY <1>1, SizeFacts DEF CgaAssumption, TAB, OnScreen
<1>3. At(PutBackspace(s), Behind)
    <2>1. CASE n > 0
        <3>1. PutBackspace(s) = [buf |-> [b EXCEPT ![n - 1] = " "], pos |-> n - 1]
            BY <1>2, <2>1 DEF PutBackspace
        <3>2. n - 1 \in Behind
            BY <1>2, <2>1 DEF Behind
        <3>3. QED
            BY <3>1, <3>2 DEF At
    <2>2. CASE n = 0
        <3>1. PutBackspace(s) = s /\ n \in Behind
            BY <1>2, <2>2 DEF PutBackspace, Behind
        <3>2. QED
            BY <1>1, <3>1 DEF At
    <2>3. QED
        BY <1>2, <2>1, <2>2
<1>4. ASSUME NEW m \in 0..(n + CRT_COLS)
      PROVE  At(PutReturn([buf |-> b, pos |-> m]), Behind)
    <2>1. PutReturn([buf |-> b, pos |-> m]) = [buf |-> b, pos |-> m - (m % CRT_COLS)]
        BY DEF PutReturn
    <2>2. m - (m % CRT_COLS) \in Behind
        BY <1>2, RemainderFacts DEF Behind
    <2>3. QED
        BY <2>1, <2>2 DEF At
<1>5. At(PutReturn(s), Behind)
    BY <1>1, <1>2, <1>4
<1>6. At(PutNewline(s), Behind)
    <2>1. PutNewline(s) = PutReturn([buf |-> b, pos |-> n + CRT_COLS])
        BY <1>1 DEF PutNewline
    <2>2. QED
        BY <1>2, <1>4, <2>1
<1>7. At(PutTab(s), Behind)
    <2>1. n + TAB \in Behind
        BY <1>2 DEF Behind
    <2>2. QED
        BY <1>2, <2>1 DEF PutTab, At
<1>8. At(PutChar(s, c), Behind)
    <2>1. n \in Behind /\ n + 1 \in Behind
        BY <1>2 DEF Behind
    <2>2. CASE c \in Printable
        <3>1. PutChar(s, c) = [buf |-> [b EXCEPT ![n] = c], pos |-> n + 1]
            BY <1>2, <2>2 DEF PutChar
        <3>2. QED
            BY <2>1, <3>1 DEF At
    <2>3. CASE c \notin Printable
        BY <1>1, <2>1, <2>3 DEF PutChar, At
    <2>4. QED
        BY <2>2, <2>3
<1>9. QED
    BY <1>3, <1>5, <1>6, <1>7, <1>8

(* One scroll of a row brings the cursor back.                             *)
LEMMA ScrollReturns ==
    ASSUME CgaAssumption, NEW s, At(s, Behind) PROVE At(Scrolled(s), OnScreen)
<1>0. PICK b : \E n \in Behind : s = [buf |-> b, pos |-> n]
    BY DEF At
<1>1. PICK n \in Behind : s = [buf |-> b, pos |-> n]
    BY <1>0
<1>2. /\ CRT_SIZE \in Nat /\ CRT_COLS \in Nat /\ CRT_SIZE >= CRT_COLS
      /\ n \in Nat /\ n <= CRT_SIZE - 1 + CRT_COLS /\ s.pos = n
    BY <1>1, SizeFacts DEF CgaAssumption, Behind
<1>3. CASE n < CRT_SIZE
    <2>1. n \in OnScreen /\ Scrolled(s) = s
        BY <1>2, <1>3 DEF Scrolled, OnScreen
    <2>2. QED
        BY <1>1, <2>1 DEF At
<1>4. CASE n >= CRT_SIZE
    <2>1. n - CRT_COLS \in OnScreen /\ Scrolled(s) = scroll(s)
        BY <1>2, <1>4 DEF Scrolled, OnScreen
    <2>2. QED
        BY <1>2, <2>1 DEF scroll, At
<1>5. QED
    BY <1>2, <1>3, <1>4

(* Whatever is printed, the cursor is on the screen after every character: *)
(* the single scroll at the end of putc_cga is enough on a screen of any   *)
(* size whose rows hold a tab.                                             *)
THEOREM CursorStays ==
    ASSUME CgaAssumption PROVE Spec => []CursorOnScreen
<1>1. At(cls, OnScreen)
    <2>1. 0 \in OnScreen
        BY SizeFacts DEF OnScreen, CgaAssumption, TAB
    <2>2. QED
        BY <2>1 DEF At, cls, Blank
<1>2. Init => At(crt, OnScreen)
    BY <1>1 DEF Init
<1>3. ASSUME NEW s, At(s, OnScreen), NEW c \in Chars
      PROVE  At(putc_cga(s, c), OnScreen)
    <2>1. /\ At(Scrolled(PutBackspace(s)), OnScreen) /\ At(Scrolled(PutReturn(s)), OnScreen)
          /\ At(Scrolled(PutNewline(s)), OnScreen) /\ At(Scrolled(PutTab(s)), OnScreen)
          /\ At(Scrolled(PutChar(s, c)), OnScreen)
        BY <1>3, PutMoves, ScrollReturns
    <2>2. \/ putc_cga(s, c) = Scrolled(PutBackspace(s))
          \/ putc_cga(s, c) = Scrolled(PutNewline(s))
          \/ putc_cga(s, c) = Scrolled(PutReturn(s))
          \/ putc_cga(s, c) = Scrolled(PutTab(s))
          \/ putc_cga(s, c) = Scrolled(PutChar(s, c))
        BY DEF putc_cga, Chars
    <2>3. QED
        BY <2>1, <2>2
<1>4. At(crt, OnScreen) /\ [Next]_crt => At(crt, OnScreen)'
    <2> SUFFICES ASSUME At(crt, OnScreen), [Next]_crt PROVE At(crt', OnScreen)
        BY DEF At, OnScreen
    <2>1. QED
        BY <1>1, <1>3 DEF Next
<1>5. At(crt, OnScreen) => CursorOnScreen
    BY DEF At, OnScreen, CursorOnScreen
<1>6. QED
    BY <1>2, <1>4, <1>5, PTL DEF Spec
=============================================================================
