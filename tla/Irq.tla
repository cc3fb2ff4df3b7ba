-------------------------------- MODULE Irq ---------------------------------
(***************************************************************************)
(* kern/irq.c, kern/isr.c, kern/idt.c, the stubs of kern/asm.S and the     *)
(* timer handler of hw/pit.c, with the two 8259A controllers and the       *)
(* timer of the local APIC.  A thread is its stack of trap frames.  The    *)
(* timer's vector is raised both by line 0 of the 8259A and by the local   *)
(* APIC.  A handler's own work is left out (Kbd, Console and Timer have    *)
(* it), thread_switch is kept to the choice of the next thread.            *)
(***************************************************************************)
EXTENDS Integers, Sequences, FiniteSets, FiniteSetsExt

CONSTANTS Threads,     \* the threads of the one processor
          Lines,       \* the lines of the 8259A that devices raise
          Exceptions,  \* the exceptions that code may raise
          MaxFrames    \* bound on the frames of a thread

IRQ_OFFSET == 32
IRQ_TIMER == 0
IRQ_SLAVE == 2
SLAVE == 8             \* the first line of the second controller

IrqAssumption ==
    /\ Threads # {} /\ IsFiniteSet(Threads)
    /\ Lines \subseteq (0..15) \ {IRQ_SLAVE}
    /\ Exceptions \subseteq 0..(IRQ_OFFSET - 1)
    /\ MaxFrames \in Nat \ {0}

VARIABLES pic,     \* the 8259A: lines requested and lines in service
          apic,    \* the local APIC timer: requested, in service
          cur,     \* thisthread
          ready,   \* active_threads
          asleep,  \* threads on some wait channel
          frames,  \* each thread's trap frames, the innermost last
          ifl,     \* each thread's interrupt flag outside its frames
          halted   \* isr_handler's endless loop

vars == <<pic, apic, cur, ready, asleep, frames, ifl, halted>>

Init ==
    /\ pic = [irr |-> {}, master |-> {}, slave |-> {}]
    /\ apic = [irr |-> FALSE, isr |-> FALSE]
    /\ cur \in Threads
    /\ asleep = {}
    /\ ready \in {q \in [1..(Cardinality(Threads) - 1) -> Threads \ {cur}] :
                     \A i, j \in DOMAIN q : q[i] = q[j] => i = j}
    /\ frames = [t \in Threads |-> << >>]
    /\ ifl = [t \in Threads |-> t = cur]   \* switchframe_init leaves IF off
    /\ halted = FALSE

Top(t) == frames[t][Len(frames[t])]

Popped(t) == SubSeq(frames[t], 1, Len(frames[t]) - 1)

(* idt_set_gate2 makes a trap gate of any type whose low bits are not      *)
(* zero, 0x8E included, so an interrupt leaves IF on until its stub's cli. *)
GateMasks == FALSE

IF_on ==
    IF frames[cur] = << >> THEN ifl[cur] ELSE ~Top(cur).masked

---------------------------------------------------------------------------
(* The devices and the interrupt controllers.                              *)
Raise(l) ==
    /\ pic' = [pic EXCEPT !.irr = @ \union {l}]
    /\ UNCHANGED <<apic, cur, ready, asleep, frames, ifl, halted>>

ApicTick ==
    /\ apic' = [apic EXCEPT !.irr = TRUE]
    /\ UNCHANGED <<pic, cur, ready, asleep, frames, ifl, halted>>

MasterLine(l) == IF l < SLAVE THEN l ELSE IRQ_SLAVE

Above(l) == \A s \in pic.master : MasterLine(l) < s

Deliverable(l) ==
    /\ l \in pic.irr
    /\ Above(l)
    /\ l >= SLAVE => \A s \in pic.slave : l < s

(* An interrupt enters its stub: isrN and irqN push the frame.             *)
Enter(int_no) ==
    frames' = [frames EXCEPT ![cur] = Append(@, [int_no |-> int_no, masked |-> GateMasks])]

Interruptible == ~halted /\ IF_on /\ Len(frames[cur]) < MaxFrames

Deliver(l) ==
    /\ Interruptible
    /\ Deliverable(l)
    /\ pic' = [irr    |-> pic.irr \ {l},
               master |-> pic.master \union {MasterLine(l)},
               slave  |-> IF l >= SLAVE THEN pic.slave \union {l} ELSE pic.slave]
    /\ Enter(IRQ_OFFSET + l)
    /\ UNCHANGED <<apic, cur, ready, asleep, ifl, halted>>

DeliverApic ==
    /\ Interruptible
    /\ apic.irr /\ ~apic.isr
    /\ apic' = [irr |-> FALSE, isr |-> TRUE]
    /\ Enter(IRQ_OFFSET + IRQ_TIMER)
    /\ UNCHANGED <<pic, cur, ready, asleep, ifl, halted>>

---------------------------------------------------------------------------
(* The cli of the stub whose frame is the n-th of the thread.              *)
StubCli(n) ==
    /\ ~halted
    /\ n = Len(frames[cur])
    /\ ~Top(cur).masked
    /\ frames' = [frames EXCEPT ![cur] = Append(Popped(cur), [Top(cur) EXCEPT !.masked = TRUE])]
    /\ UNCHANGED <<pic, apic, cur, ready, asleep, ifl, halted>>

(* A non-specific end of interrupt ends the foremost line in service.      *)
Eoi(s) == IF s = {} THEN s ELSE s \ {Min(s)}

(* Mutant: the first line of the second controller is taken for one of     *)
(* the first.                                                              *)
AcknowledgeAbove(int_no) ==
    pic' = [pic EXCEPT !.slave = IF int_no > 40 THEN Eoi(@) ELSE @,
                       !.master = Eoi(@)]

(* The end of irq_handler.                                                 *)
Acknowledge(int_no) ==
    pic' = [pic EXCEPT !.slave = IF int_no >= 40 THEN Eoi(@) ELSE @,
                       !.master = Eoi(@)]

Handling(int_no) ==
    /\ ~halted
    /\ frames[cur] # << >>
    /\ Top(cur).masked
    /\ Top(cur).int_no = int_no

(* The rest of irq_common_stub: the frame is popped by iret.               *)
Return == frames' = [frames EXCEPT ![cur] = Popped(cur)]

irq_handler(l) ==
    /\ l # IRQ_TIMER
    /\ Handling(IRQ_OFFSET + l)
    /\ Acknowledge(IRQ_OFFSET + l)
    /\ Return
    /\ UNCHANGED <<apic, cur, ready, asleep, ifl, halted>>

(* thread_switch resumes the next thread at the frame it was switched out  *)
(* in, which switchframe_switch pops: nothing after the call is run.       *)
SwitchTo(q) ==
    /\ cur' = Head(q)
    /\ ready' = Tail(q)

(* irq_handler_pit: lapic_eoi, then thread_schedule, which switches when   *)
(* another thread is ready; the 8259A is then not acknowledged.  The frame *)
(* of the thread switched out is popped when it is resumed, and nothing    *)
(* reads it before.                                                        *)
TickSwitches ==
    /\ Handling(IRQ_OFFSET + IRQ_TIMER)
    /\ ready # << >>
    /\ apic' = [apic EXCEPT !.isr = FALSE]
    /\ SwitchTo(Append(ready, cur))
    /\ Return
    /\ UNCHANGED <<pic, asleep, ifl, halted>>

TickReturns ==
    /\ Handling(IRQ_OFFSET + IRQ_TIMER)
    /\ ready = << >>
    /\ apic' = [apic EXCEPT !.isr = FALSE]
    /\ Acknowledge(IRQ_OFFSET + IRQ_TIMER)
    /\ Return
    /\ UNCHANGED <<cur, ready, asleep, ifl, halted>>

---------------------------------------------------------------------------
(* What threads do outside handlers: they turn interrupts off and on,      *)
(* make system calls (int 48: an interrupt gate, its frame is resumed or   *)
(* returned from with the flag it was made with), and wake each other.     *)
InThread == ~halted /\ frames[cur] = << >>

Cli ==
    /\ InThread
    /\ ifl' = [ifl EXCEPT ![cur] = FALSE]
    /\ UNCHANGED <<pic, apic, cur, ready, asleep, frames, halted>>

Sti ==
    /\ InThread
    /\ ifl' = [ifl EXCEPT ![cur] = TRUE]
    /\ UNCHANGED <<pic, apic, cur, ready, asleep, frames, halted>>

ThreadYield ==
    /\ InThread
    /\ ready # << >>
    /\ SwitchTo(Append(ready, cur))
    /\ UNCHANGED <<pic, apic, asleep, frames, ifl, halted>>

ThreadWait ==
    /\ InThread
    /\ ready # << >>
    /\ asleep' = asleep \union {cur}
    /\ SwitchTo(ready)
    /\ UNCHANGED <<pic, apic, frames, ifl, halted>>

Wake(t) ==
    /\ InThread
    /\ t \in asleep
    /\ asleep' = asleep \ {t}
    /\ ready' = Append(ready, t)
    /\ UNCHANGED <<pic, apic, cur, frames, ifl, halted>>

(* isr_handler for any other vector prints and loops forever, IF off.      *)
Exception(int_no) ==
    /\ InThread
    /\ halted' = TRUE
    /\ Enter(int_no)
    /\ UNCHANGED <<pic, apic, cur, ready, asleep, ifl>>

ThreadStep == Cli \/ Sti \/ ThreadYield \/ ThreadWait \/ \E t \in Threads : Wake(t)

Handler == TickSwitches \/ TickReturns \/ \E l \in Lines : irq_handler(l)

Next ==
    \/ \E l \in Lines : Raise(l) \/ Deliver(l)
    \/ ApicTick \/ DeliverApic
    \/ Handler \/ \E n \in 1..MaxFrames : StubCli(n)
    \/ ThreadStep
    \/ \E v \in Exceptions : Exception(v)

Spec == Init /\ [][Next]_vars

---------------------------------------------------------------------------
SlaveFrames ==
    {f \in Threads \X (1..MaxFrames) :
        f[2] <= Len(frames[f[1]]) /\ frames[f[1]][f[2]].int_no >= IRQ_OFFSET + SLAVE}

(* In whatever order handlers nest and threads are switched, the second    *)
(* controller has as many lines in service as it has frames on the stacks: *)
(* no interrupt of it is acknowledged twice or left unacknowledged, so     *)
(* none of its lines stays blocked there once the handlers have returned.  *)
(* Which line an acknowledgement ends is the controller's choice, and with *)
(* handlers of two threads under way it may be the other thread's.         *)
SlaveInService == Cardinality(pic.slave) = Cardinality(SlaveFrames)
=============================================================================
