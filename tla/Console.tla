------------------------------ MODULE Console -------------------------------
(***************************************************************************)
(* console/console.c with the ring buffer the interrupt handlers of        *)
(* hw/kbd.c and hw/serial.c fill: characters arrive at any time, the one   *)
(* thread that runs prompt takes them off, edits a line and runs it.       *)
(***************************************************************************)
EXTENDS Integers, Sequences, SequencesExt, FiniteSets

CONSTANTS CONSBUFSIZE, BUFLEN, MAXARGS,
          Before, \* the cells of the screen left of the line: the prompt's,
                  \* when the screen was clear
          Chars   \* what arrives: "x" and "sp" print, "bs", "del" (0x7f, from
                  \* the serial line) and "nl" edit, "key" is a cursor key
                  \* (negative as a char), "nul" is 0 or another control

VARIABLES buf, rpos, wpos,   \* struct console
          unread,   \* history: characters neither read nor lost
          line,     \* readline's buf up to its i
          shown,    \* the cells of the screen left of the cursor
          odd,      \* history: readline stored a DEL since the prompt
          ran       \* what runcmd did, if it was the last thing done

conVars == <<buf, rpos, wpos, unread, line, shown, odd, ran>>

Nothing == [did |-> "nothing", argc |-> 0, on |-> <<>>]

PromptCells(n) == [i \in 1..n |-> "prompt"]

Init ==
    /\ buf = [i \in 0..(CONSBUFSIZE - 1) |-> "nul"]
    /\ rpos = 0 /\ wpos = 0
    /\ unread = <<>>
    /\ line = <<>> /\ shown = PromptCells(Before) /\ odd = FALSE
    /\ ran = Nothing

(* Mutant: the index is reset one too late.                                *)
IncLate(pos) == IF pos + 1 > CONSBUFSIZE - 1 THEN 1 ELSE pos + 1

Inc(pos) == IF pos + 1 = CONSBUFSIZE THEN 0 ELSE pos + 1

(* The end of irq_handler_kdb and of irq_handler_serial: the character is  *)
(* stored whether or not there is room.  The one that fills the ring makes *)
(* it look empty: with it, all the others are lost.                        *)
Arrives(c) ==
    /\ buf' = [buf EXCEPT ![wpos] = c]
    /\ wpos' = Inc(wpos)
    /\ unread' = IF Len(unread) = CONSBUFSIZE - 1 THEN <<>> ELSE Append(unread, c)
    /\ UNCHANGED <<rpos, line, shown, odd, ran>>

(* getc, when there is something to read: the character and the next rpos. *)
getc == <<buf[rpos], Inc(rpos)>>

Whitespace == {"sp"}

(* Mutant: whitespace at the end of the line begins an argument.           *)
ArgsTrailing(l) ==
    LET scan[i \in 0..Len(l)] ==
          IF i = 0 THEN 0
          ELSE IF l[i] \notin Whitespace /\ (i = 1 \/ l[i - 1] \in Whitespace)
               THEN scan[i - 1] + 1
          ELSE IF i = Len(l) /\ l[i] \in Whitespace THEN scan[i - 1] + 1
          ELSE scan[i - 1]
    IN  scan[Len(l)]

(* The number of arguments runcmd finds: one for each place where it stops *)
(* gobbling whitespace.                                                    *)
Args(l) ==
    LET scan[i \in 0..Len(l)] ==
          IF i = 0 THEN 0
          ELSE IF l[i] \notin Whitespace /\ (i = 1 \/ l[i - 1] \in Whitespace)
               THEN scan[i - 1] + 1
          ELSE scan[i - 1]
    IN  scan[Len(l)]

(* runcmd: "Too many arguments" when the one after MAXARGS - 1 begins.     *)
runcmd(l) ==
    IF Args(l) > MAXARGS - 1 THEN [did |-> "refused", argc |-> MAXARGS - 1, on |-> l]
    ELSE IF Args(l) = 0 THEN [did |-> "nothing", argc |-> 0, on |-> l]
    ELSE [did |-> "looked up", argc |-> Args(l), on |-> l]

Take ==
    /\ rpos # wpos
    /\ rpos' = getc[2]
    /\ unread' = IF unread = <<>> THEN unread ELSE Tail(unread)
    /\ UNCHANGED <<buf, wpos>>

Prompt == line' = <<>> /\ shown' = PromptCells(Before) /\ odd' = FALSE

(* putc_cga of a backspace, and of a character readline stores: the screen *)
(* shows 0x20 to 0x7E.                                                     *)
PutBackspace(cells) == IF cells = <<>> THEN cells ELSE Front(cells)

PutChar(cells, c) == IF c = "del" THEN cells ELSE Append(cells, c)

(* A round of readline's loop, and what prompt does when it returns.       *)
Abort ==        \* c < 0: readline returns NULL
    /\ Take /\ getc[1] = "key"
    /\ Prompt
    /\ ran' = Nothing

(* Mutant: a backspace on an empty line goes to the screen.                *)
BackspaceAlways ==
    /\ Take /\ getc[1] \in {"bs", "del"}
    /\ line' = (IF line = <<>> THEN line ELSE Front(line))
    /\ shown' = PutBackspace(shown)
    /\ ran' = Nothing
    /\ UNCHANGED odd

Backspace ==    \* one of the two, with something to erase
    /\ Take /\ getc[1] \in {"bs", "del"}
    /\ line # <<>>
    /\ line' = Front(line) /\ shown' = PutBackspace(shown)
    /\ ran' = Nothing
    /\ UNCHANGED odd

Insert ==       \* c >= ' ', and so DEL on an empty line
    /\ Take
    /\ getc[1] \in {"x", "sp"} \/ (getc[1] = "del" /\ line = <<>>)
    /\ IF Len(line) < BUFLEN - 1
       THEN /\ line' = Append(line, getc[1])
            /\ shown' = PutChar(shown, getc[1])
            /\ odd' = (odd \/ getc[1] = "del")
       ELSE UNCHANGED <<line, shown, odd>>
    /\ ran' = Nothing

Enter ==
    /\ Take /\ getc[1] = "nl"
    /\ ran' = runcmd(line)
    /\ Prompt

Ignore ==       \* 0: modifier keys store one; a backspace on an empty line
    /\ Take
    /\ getc[1] = "nul" \/ (getc[1] = "bs" /\ line = <<>>)
    /\ ran' = Nothing
    /\ UNCHANGED <<line, shown, odd>>

Next ==
    \/ \E c \in Chars : Arrives(c)
    \/ Abort \/ Backspace \/ Insert \/ Enter \/ Ignore

Spec == Init /\ [][Next]_conVars
-----------------------------------------------------------------------------
(* What the ring holds, in the order getc will return it.                  *)
RingContents ==
    [i \in 1..((wpos - rpos) % CONSBUFSIZE) |-> buf[(rpos + i - 1) % CONSBUFSIZE]]

(* Characters are read in the order they arrived, each once, and none is   *)
(* read that was lost: when the reader falls a whole buffer behind, all of *)
(* the buffer is lost, and the order is kept for what arrives after.       *)
ReadInOrder == RingContents = unread

(* What runs is what the screen shows behind the prompt, and it fits into  *)
(* readline's buffer with its terminating zero.  The exception is exact: a *)
(* DEL on an empty line is stored and not shown, it can only be the line's *)
(* first character, and erasing it erases a cell of the prompt.            *)
EchoMatchesLine ==
    /\ Len(line) + 1 <= BUFLEN
    /\ ~odd => shown = PromptCells(Before) \o line
    /\ odd => /\ \A i \in 2..Len(line) : line[i] # "del"
              /\ \E n \in 0..Before :
                    shown = PromptCells(n) \o SelectSeq(line, LAMBDA c : c # "del")

(* The words of a line, by definition: its maximal stretches without       *)
(* whitespace.                                                             *)
WordsOf(l) ==
    {w \in (1..Len(l)) \X (1..Len(l)) :
        /\ w[1] <= w[2]
        /\ \A i \in w[1]..w[2] : l[i] \notin Whitespace
        /\ w[1] = 1 \/ l[w[1] - 1] \in Whitespace
        /\ w[2] = Len(l) \/ l[w[2] + 1] \in Whitespace}

(* A line is looked up with as many arguments as it has words, and refused *)
(* only when its words do not fit into argv with the null behind them: the *)
(* most runcmd accepts is MAXARGS - 1, one less than its message "max"     *)
(* names.                                                                  *)
ArgumentsRight ==
    LET n == Cardinality(WordsOf(ran.on))
    IN  /\ ran.did = "looked up" => ran.argc = n /\ n < MAXARGS
        /\ ran.did = "refused" => n >= MAXARGS
        /\ ran.did = "nothing" => n = 0
=============================================================================
