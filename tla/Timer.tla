------------------------------- MODULE Timer --------------------------------
(***************************************************************************)
(* klib/time.c over the tick counter of hw/pit.c: stopwatches that count   *)
(* ticks of a counter that wraps around.  The counter's 2^32 is scaled to  *)
(* Wrap; the conversions keep their constants.  A client uses the timer    *)
(* timer_create named to it: it starts or resumes it when it has it not    *)
(* running, and reads or stops it when it has.                             *)
(***************************************************************************)
EXTENDS Integers, FiniteSets, FiniteSetsExt

CONSTANTS NTIMERS,  \* the number of timers
          ENTIMER,  \* the error code of timer_create
          Clients,
          Wrap,     \* the counter counts modulo Wrap
          Steps,    \* the ticks that pass between two calls
          Waits,    \* the ticks pit_wait is asked for
          MaxTicks, \* bound on the number of such steps
          Garbage   \* what kmalloc may leave in a struct timer

VARIABLES nticks,   \* pit.c
          timers,   \* the timers by id, NoTimer for a null pointer
          mine,     \* the id timer_create returned to a client, or NoId
          run,      \* history: the client has its timer running
          since,    \* history: ticks since its timer_start, or Never
          misled,   \* history: see timer_create
          result,   \* what the call just made returned
          wait,     \* a thread in pit_wait
          steps,    \* the steps of the counter so far
          halt

timerVars == <<nticks, timers, mine, run, since, misled, result, wait, steps, halt>>

Ids == 0..(NTIMERS - 1)
NoTimer == [null |-> TRUE]
NoId == -1
Never == -1
NoTime == [none |-> TRUE]
NoWait == [none |-> TRUE]

(* msec2time: a quotient of zero leaves the larger units at zero, as here. *)
msec2time(ms) ==
    [msec |-> ms % 1000, sec |-> (ms \div 1000) % 60,
     min |-> (ms \div 60000) % 60, hr |-> ms \div 3600000]

time2msec(t) == ((t.hr * 60 + t.min) * 60 + t.sec) * 1000 + t.msec

(* Mutant: time_diff expects the later time second.                        *)
TimeDiffOrdered(start, stop) == msec2time(time2msec(stop) - time2msec(start))

(* time_diff: the distance between two times.                              *)
time_diff(start, stop) ==
    IF time2msec(stop) > time2msec(start)
    THEN msec2time(time2msec(stop) - time2msec(start))
    ELSE msec2time(time2msec(start) - time2msec(stop))

Init ==
    /\ nticks = 0
    /\ timers = [id \in Ids |-> NoTimer]
    /\ mine = [c \in Clients |-> NoId]
    /\ run = [c \in Clients |-> FALSE]
    /\ since = [c \in Clients |-> Never]
    /\ misled = FALSE
    /\ result = NoTime
    /\ wait = NoWait
    /\ steps = 0
    /\ halt = FALSE

(* Ticks of the PIT, between two steps of the clients or of the thread in  *)
(* pit_wait, which a tick may take off the processor.                      *)
Tick ==
    /\ ~halt /\ steps < MaxTicks
    /\ steps' = steps + 1
    /\ \E d \in Steps :
          /\ nticks' = nticks + d
          /\ since' = [c \in Clients |->
                          IF since[c] = Never THEN Never ELSE since[c] + d]
          /\ wait' = IF wait = NoWait THEN wait ELSE [wait EXCEPT !.past = @ + d]
    /\ result' = NoTime
    /\ UNCHANGED <<timers, mine, run, misled, halt>>

(* The value of the counter.                                               *)
pit_ticks == nticks % Wrap

WaitOnly ==
    /\ result' = NoTime
    /\ UNCHANGED <<nticks, timers, mine, run, since, misled, halt, steps>>

(* Mutant: the ticks are counted from boot.                                *)
PitWaitAbsolute(ticks) ==
    /\ ~halt /\ wait = NoWait
    /\ wait' = [asked |-> ticks, eticks |-> ticks % Wrap, past |-> 0]
    /\ WaitOnly

(* pit_wait is called, and returns when its loop reads the counter at      *)
(* exactly eticks.                                                         *)
pit_wait(ticks) ==
    /\ ~halt /\ wait = NoWait
    /\ wait' = [asked |-> ticks, eticks |-> (pit_ticks + ticks) % Wrap, past |-> 0]
    /\ WaitOnly

WaitDone == wait # NoWait /\ pit_ticks = wait.eticks

WaitReturns ==
    /\ ~halt /\ WaitDone
    /\ wait' = NoWait
    /\ WaitOnly

Null(id) == timers[id] = NoTimer

(* timer_create: the first free slot, with what kmalloc found there.  When *)
(* there is none the client is told ENTIMER, which is the id of a timer    *)
(* too.  misled: a client got somebody else's timer, or one marked active. *)
timer_create(c) ==
    /\ ~halt /\ mine[c] = NoId
    /\ IF \E id \in Ids : Null(id)
       THEN \E g \in Garbage :
              /\ mine' = [mine EXCEPT ![c] = Min({id \in Ids : Null(id)})]
              /\ timers' = [timers EXCEPT ![mine'[c]] = g]
              /\ misled' = (misled \/ g.active)
       ELSE /\ mine' = [mine EXCEPT ![c] = ENTIMER]
            /\ misled' = TRUE
            /\ UNCHANGED timers
    /\ run' = [run EXCEPT ![c] = FALSE]
    /\ since' = [since EXCEPT ![c] = Never]
    /\ result' = NoTime
    /\ UNCHANGED <<nticks, wait, halt, steps>>

(* Client c calls a function on its timer, which asserts that it exists    *)
(* and that it is, or is not, active.                                      *)
Calls(c, active) ==
    /\ ~halt /\ mine[c] # NoId
    /\ halt' = (Null(mine[c]) \/ (~Null(mine[c]) /\ timers[mine[c]].active # active))
    /\ UNCHANGED <<nticks, misled, wait, steps>>

timer_start(c) ==
    /\ ~run[c] /\ Calls(c, FALSE)
    /\ timers' = IF halt' THEN timers
                 ELSE [timers EXCEPT ![mine[c]].active = TRUE,
                                     ![mine[c]].start_ticks = pit_ticks]
    /\ run' = [run EXCEPT ![c] = TRUE]
    /\ since' = [since EXCEPT ![c] = 0]
    /\ result' = NoTime
    /\ UNCHANGED mine

(* Mutant: the difference without the wraparound of uint32_t.              *)
TicksBetweenAbs(now, then) == IF now >= then THEN now - then ELSE then - now

(* Subtraction of uint32_t.                                                *)
TicksBetween(now, then) == (now - then) % Wrap

Reading(c) ==
    [time |-> msec2time(TicksBetween(pit_ticks, timers[mine[c]].start_ticks)),
     was |-> since[c]]

timer_lap(c) ==
    /\ run[c] /\ Calls(c, TRUE)
    /\ result' = IF halt' THEN NoTime ELSE Reading(c)
    /\ UNCHANGED <<timers, mine, run, since>>

(* Mutant: a stopped timer stays active.                                   *)
TimerStopActive(c) ==
    /\ run[c] /\ Calls(c, TRUE)
    /\ timers' = IF halt' THEN timers
                 ELSE [timers EXCEPT ![mine[c]].stop_ticks = pit_ticks]
    /\ result' = IF halt' THEN NoTime ELSE Reading(c)
    /\ run' = [run EXCEPT ![c] = FALSE]
    /\ UNCHANGED <<mine, since>>

timer_stop(c) ==
    /\ run[c] /\ Calls(c, TRUE)
    /\ timers' = IF halt' THEN timers
                 ELSE [timers EXCEPT ![mine[c]].active = FALSE,
                                     ![mine[c]].stop_ticks = pit_ticks]
    /\ result' = IF halt' THEN NoTime ELSE Reading(c)
    /\ run' = [run EXCEPT ![c] = FALSE]
    /\ UNCHANGED <<mine, since>>

(* timer_resume: the timer runs on from its start, if it had one.          *)
timer_resume(c) ==
    /\ ~run[c] /\ Calls(c, FALSE)
    /\ timers' = IF halt' THEN timers
                 ELSE [timers EXCEPT ![mine[c]].active = TRUE]
    /\ run' = [run EXCEPT ![c] = TRUE]
    /\ result' = NoTime
    /\ UNCHANGED <<mine, since>>

(* timer_reset asserts only that there is a timer.                         *)
timer_reset(c) ==
    /\ ~halt /\ mine[c] # NoId
    /\ halt' = Null(mine[c])
    /\ timers' = IF halt' THEN timers
                 ELSE [timers EXCEPT ![mine[c]] =
                        [start_ticks |-> 0, stop_ticks |-> 0, active |-> FALSE]]
    /\ run' = [run EXCEPT ![c] = FALSE]
    /\ since' = [since EXCEPT ![c] = Never]
    /\ result' = NoTime
    /\ UNCHANGED <<nticks, mine, misled, wait, steps>>

timer_delete(c) ==
    /\ ~run[c] /\ Calls(c, FALSE)
    /\ timers' = IF halt' THEN timers ELSE [timers EXCEPT ![mine[c]] = NoTimer]
    /\ mine' = [mine EXCEPT ![c] = NoId]
    /\ since' = [since EXCEPT ![c] = Never]
    /\ result' = NoTime
    /\ UNCHANGED run

Next ==
    \/ Tick
    \/ \E ticks \in Waits : pit_wait(ticks)
    \/ WaitReturns
    \/ \E c \in Clients : \/ timer_create(c) \/ timer_start(c) \/ timer_lap(c)
                          \/ timer_stop(c) \/ timer_resume(c) \/ timer_reset(c)
                          \/ timer_delete(c)

Spec == Init /\ [][Next]_timerVars
-----------------------------------------------------------------------------
(* What timer_stop and timer_lap return is the number of ticks since the   *)
(* client's timer_start, with stops and resumes in between, also when the  *)
(* counter wrapped around once, as long as no client was misled; a timer   *)
(* resumed without a start counts from what its struct holds.  The units   *)
(* are in their ranges.                                                    *)
ReadingExact ==
    result # NoTime =>
        /\ result.was = Never \/ misled \/ time2msec(result.time) = result.was % Wrap
        /\ result.time.msec < 1000 /\ result.time.sec < 60 /\ result.time.min < 60

(* time_diff of a reading and another time is their distance, whichever    *)
(* comes first.                                                            *)
DiffIsDistance ==
    result # NoTime =>
        \A ms \in Steps :
            LET d == time_diff(result.time, msec2time(ms))
                e == time_diff(msec2time(ms), result.time)
                r == time2msec(result.time)
            IN  d = e /\ time2msec(d) = (IF r > ms THEN r - ms ELSE ms - r)

(* pit_wait returns after exactly the ticks it was asked for, or, when its *)
(* thread did not run in that tick, after whole wraps of the counter more. *)
WaitExactOrWrapped ==
    WaitDone => /\ wait.past >= wait.asked
                /\ (wait.past - wait.asked) % Wrap = 0

(* time.c: "assert(!timers[timer_id]->active)": no assert fails for        *)
(* clients that start or resume timers they have not running and stop      *)
(* those they have, until timer_create has run out of timers or kmalloc    *)
(* gave it memory that is not zero where active is.                        *)
AssertsHold == halt => misled
=============================================================================
