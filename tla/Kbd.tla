-------------------------------- MODULE Kbd ---------------------------------
(***************************************************************************)
(* hw/kbd.c: the handler of the keyboard interrupt, one scan code byte at  *)
(* a time, and the keyboard that sends them.  The key maps are abstracted  *)
(* to one letter, one digit, one cursor key and the modifiers.             *)
(***************************************************************************)
EXTENDS Integers, Sequences

CONSTANTS Keys,     \* the keys of this keyboard, a subset of AllKeys
          MaxPort   \* bound: bytes not yet read by the handler

(* Make codes, and the keys whose codes come behind 0xE0.                  *)
Make == [lshift |-> 42, rshift |-> 54, ctl |-> 29, rctl |-> 29, alt |-> 56,
         ralt |-> 56, caps |-> 58, a |-> 30, one |-> 2, up |-> 72]
Escaped == {"rctl", "ralt", "up"}
AllKeys == DOMAIN Make

KbdAssumption == Keys \subseteq AllKeys /\ MaxPort \in Nat

VARIABLES down,    \* the keys held down
          nlock,   \* history: how often capslock was pressed, modulo 2
          event,   \* the last thing done with a key
          port,    \* bytes on the way to port KBDIO
          shift,   \* the handler's static shift: the flags that are set
          out      \* the last character put into the console's buffer

kbdVars == <<down, nlock, event, port, shift, out>>

E0 == 224
Bytes(k, code) == IF k \in Escaped THEN <<E0, code>> ELSE <<code>>

Init ==
    /\ down = {}
    /\ nlock = 0
    /\ event = <<"none", "none">>
    /\ port = <<>>
    /\ shift = {}
    /\ out = "NO"

(* A key is pressed, or repeats while it is held.                          *)
Press(k) ==
    /\ Len(port) + 2 <= MaxPort
    /\ port' = port \o Bytes(k, Make[k])
    /\ down' = down \union {k}
    /\ nlock' = IF k = "caps" THEN 1 - nlock ELSE nlock
    /\ event' = <<"press", k>>
    /\ UNCHANGED <<shift, out>>

Release(k) ==
    /\ k \in down
    /\ Len(port) + 2 <= MaxPort
    /\ port' = port \o Bytes(k, Make[k] + 128)
    /\ down' = down \ {k}
    /\ event' = <<"release", k>>
    /\ UNCHANGED <<nlock, shift, out>>

(* shiftcode and togglecode: the flag of a code.                           *)
shiftcode(d) ==
    CASE d \in {29, 157} -> {"CTL"}
      [] d \in {42, 54} -> {"SHIFT"}
      [] d \in {56, 184} -> {"ALT"}
      [] OTHER -> {}

togglecode(d) == IF d = 58 THEN {"CAPSLOCK"} ELSE {}

(* charcode[shift & (CTL | SHIFT)][d].                                     *)
charcode(sh, d) ==
    CASE d = 30 -> IF "CTL" \in sh THEN "C(A)"
                   ELSE IF "SHIFT" \in sh THEN "A" ELSE "a"
      [] d = 2 -> IF "CTL" \in sh THEN "NO"
                  ELSE IF "SHIFT" \in sh THEN "!" ELSE "1"
      [] d = 200 -> "KEY_UP"
      [] OTHER -> "NO"

SwapCase(c) == IF c = "a" THEN "A" ELSE IF c = "A" THEN "a" ELSE c

Xor(A, B) == (A \ B) \union (B \ A)

(* Mutant: the key-up of an escaped key is looked up without the escape.   *)
KeyUpPlain(data) == shift' = shift \ shiftcode(data - 128)

(* A key-up: of an escaped key, the code is left as it is.                 *)
KeyUp(data) ==
    LET d == IF "ESC" \in shift THEN data ELSE data - 128
    IN  shift' = shift \ (shiftcode(d) \union {"ESC"})

(* Mutant: capslock turns letters into capitals only.                      *)
KeyDownCaps(data) ==
    LET d == IF "ESC" \in shift THEN data + 128 ELSE data
        sh == Xor((shift \ {"ESC"}) \union shiftcode(d), togglecode(d))
        c == charcode(sh, d)
    IN  /\ shift' = sh
        /\ out' = IF "CAPSLOCK" \in sh /\ c = "a" THEN "A" ELSE c

(* A key-down: the modifiers, then the character, 0 included.              *)
KeyDown(data) ==
    LET d == IF "ESC" \in shift THEN data + 128 ELSE data
        sh == Xor((shift \ {"ESC"}) \union shiftcode(d), togglecode(d))
        c == charcode(sh, d)
    IN  /\ shift' = sh
        /\ out' = IF "CAPSLOCK" \in sh THEN SwapCase(c) ELSE c

(* irq_handler_kdb.  The key combination that resets the machine is left   *)
(* out.                                                                    *)
irq_handler_kdb ==
    /\ port # <<>>
    /\ LET data == Head(port)
       IN  \/ data = E0 /\ shift' = shift \union {"ESC"} /\ UNCHANGED out
           \/ data # E0 /\ data >= 128 /\ KeyUp(data) /\ UNCHANGED out
           \/ data # E0 /\ data < 128 /\ KeyDown(data)
    /\ port' = Tail(port)
    /\ UNCHANGED <<down, nlock, event>>

Next ==
    \/ \E k \in Keys : Press(k) \/ Release(k)
    \/ irq_handler_kdb

Spec == Init /\ [][Next]_kbdVars
-----------------------------------------------------------------------------
KeyOf(flag) ==
    CASE flag = "SHIFT" -> {"lshift", "rshift"}
      [] flag = "CTL" -> {"ctl", "rctl"}
      [] flag = "ALT" -> {"alt", "ralt"}

(* No modifier sticks: once the handler has seen every byte, a flag is set *)
(* only while one of its keys is held, and no escape is left over.         *)
NoStuckModifier ==
    port = <<>> =>
        /\ "ESC" \notin shift
        /\ \A f \in {"SHIFT", "CTL", "ALT"} :
              f \in shift => KeyOf(f) \intersect down # {}

(* The case of a letter: capital exactly when one of shift and capslock    *)
(* is on, for the shift key that was pressed last.                         *)
CaseRight ==
    port = <<>> /\ event = <<"press", "a">> =>
        LET sh == {"lshift", "rshift"} \intersect down
        IN  /\ sh = {} /\ {"ctl", "rctl"} \intersect down = {}
                => out = IF nlock = 1 THEN "A" ELSE "a"
            /\ "SHIFT" \in shift /\ {"ctl", "rctl"} \intersect down = {}
                => out = IF nlock = 1 THEN "a" ELSE "A"
=============================================================================
