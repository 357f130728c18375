--------------------------- MODULE SequenceWaiter ---------------------------
(***************************************************************************)
(* The waiter of server.py (_sequence_loop) around the sequencer: one task *)
(* sleeps toward the next deadline, ticks, pushes the status packets on    *)
(* the event edge, and sleeps again.  Sequence commands arrive meanwhile   *)
(* through _dispatch, from the ground or from the command that is firing,  *)
(* and nudge it with the event _seq_wake.                                  *)
(*                                                                         *)
(* Time passes on two clocks: the timer of the event loop, which measures  *)
(* the sleep, and the wall clock that deadlines are judged by, which an    *)
(* operator or NTP may set.  A unit of time is a fraction of the sleep     *)
(* cap of one second.                                                      *)
(***************************************************************************)
EXTENDS Sequencer

CONSTANTS SleepCap,      \* _SEQ_SLEEP_CAP
          ClockMayJump   \* whether the wall clock may be set forward

Waiter == CHOOSE t \in Ticker : TRUE

ASSUME WaiterAssumption ==
    /\ Cardinality(Ticker) = 1
    /\ SleepCap \in Nat \ {0}
    /\ ClockMayJump \in BOOLEAN

NoTimer == -1

VARIABLES
    wake,    \* _seq_wake
    nudged,  \* what _sequence_loop remembers of it in this pass
    fired,   \* whether the tick of this pass has fired something
    asleep,  \* the waiter waits for wake or for its timer
    timer,   \* what is left of its sleep, NoTimer when it waits for wake only
    shown,   \* the status packets last pushed
    clockSet \* history: the wall clock was set since the waiter fell asleep

loopVars == <<wake, nudged, fired, asleep, timer, shown, clockSet>>
serviceVars == <<slots, ticks, clock, loopVars>>

-----------------------------------------------------------------------------
\* Sequencer.status without its readouts of the moving clock.
Status(k) ==
    LET s == slots[k]
        more == s.plan # NoPlan /\ ~Exhausted(s)
                /\ (k = "ats" \/ s.state = "RUNNING")
    IN  [state |-> s.state, plan |-> s.plan, executed |-> s.executed,
         skipped |-> s.skipped,
         remaining |-> LET r == Total(s) - s.executed - s.skipped
                       IN  IF r > 0 THEN r ELSE 0,
         nextTime |-> IF more THEN Deadline(s) ELSE 0,
         lastName |-> s.lastName, lastResult |-> s.lastResult]

PendingDeadlines == {Deadline(slots[k]) : k \in {j \in Kinds : Pending(slots[j])}}

AtMost(a, b) == IF a < b THEN a ELSE b

\* Mutant of SleepFor: a sleep that always lasts as long as the cap.
SleepForTheCap(deadlines) == IF deadlines = {} THEN NoTimer ELSE SleepCap

\* How long the waiter sleeps: to the earliest deadline, but never longer
\* than the cap, and until it is nudged when nothing is pending.
SleepFor(deadlines) ==
    IF deadlines = {} THEN NoTimer
    ELSE LET d == CHOOSE x \in deadlines : \A y \in deadlines : x <= y
         IN  IF d > clock THEN AtMost(d - clock, SleepCap) ELSE 0

-----------------------------------------------------------------------------
ServiceInit ==
    /\ Init
    /\ wake = FALSE /\ nudged = FALSE /\ fired = FALSE
    /\ asleep = TRUE /\ timer = 0
    /\ shown = [k \in Kinds |-> Status(k)]
    /\ clockSet = FALSE

\* Mutant of SequenceCommand: the waiter is not nudged.
SequenceCommandUnnudged == Command /\ UNCHANGED loopVars

\* A sequence command through _dispatch, from a client or from the command
\* being fired: it takes effect or is refused, and nudges the waiter.  (A
\* failed LOAD is refused and still puts its slot in ERROR.)
SequenceCommand ==
    /\ Command \/ (Suspended /\ UNCHANGED vars)
    /\ wake' = TRUE
    /\ UNCHANGED <<nudged, fired, asleep, timer, shown, clockSet>>

\* The waiter awakes: it takes the nudge, then reads the clock and ticks.
PassBegin ==
    /\ asleep /\ (wake \/ timer = 0)
    /\ TickBegin(Waiter)
    /\ nudged' = wake /\ wake' = FALSE
    /\ fired' = FALSE /\ asleep' = FALSE
    /\ UNCHANGED <<timer, shown, clockSet>>

PassFires ==
    /\ \E k \in Kinds : Fire(Waiter, k)
    /\ fired' = TRUE
    /\ UNCHANGED <<wake, nudged, asleep, timer, shown, clockSet>>

\* The executor (_sequence_execute, _dispatch) answers.
CommandAnswered ==
    /\ FireReturns(Waiter)
    /\ UNCHANGED loopVars

\* Mutant of PassEnd: only a pass that fired something pushes the status.
PassEndSilentOnNudge ==
    /\ TickEnd(Waiter)
    /\ shown' = IF fired THEN [k \in Kinds |-> Status(k)'] ELSE shown
    /\ timer' = SleepFor(PendingDeadlines')
    /\ asleep' = TRUE /\ clockSet' = FALSE
    /\ UNCHANGED <<wake, nudged, fired>>

\* The tick returns; push the status if something happened, then sleep.
PassEnd ==
    /\ TickEnd(Waiter)
    /\ shown' = IF fired \/ nudged THEN [k \in Kinds |-> Status(k)'] ELSE shown
    /\ timer' = SleepFor(PendingDeadlines')
    /\ asleep' = TRUE /\ clockSet' = FALSE
    /\ UNCHANGED <<wake, nudged, fired>>

\* Time passes.  (The wall clock is held at its bound.)
Elapse ==
    /\ Suspended
    /\ clock' = AtMost(clock + 1, MaxClock)
    /\ timer' = IF asleep /\ timer > 0 THEN timer - 1 ELSE timer
    /\ UNCHANGED <<slots, ticks, wake, nudged, fired, asleep, shown, clockSet>>

ClockJumps ==
    /\ Suspended /\ ClockMayJump
    /\ clock' \in (clock + 1)..MaxClock
    /\ clockSet' = asleep
    /\ UNCHANGED <<slots, ticks, wake, nudged, fired, asleep, timer, shown>>

ClockSetBack ==
    /\ ClockStepsBack
    /\ clockSet' = asleep
    /\ UNCHANGED <<wake, nudged, fired, asleep, timer, shown>>

-----------------------------------------------------------------------------
ServiceNext ==
    \/ SequenceCommand
    \/ PassBegin \/ PassFires \/ CommandAnswered \/ PassEnd
    \/ Elapse \/ ClockJumps \/ ClockSetBack

(***************************************************************************)
(* The event loop runs a task that can run, a command handler returns, and *)
(* the timer of the loop does not stand still.                             *)
(***************************************************************************)
Fairness ==
    /\ WF_serviceVars(PassBegin)
    /\ WF_serviceVars(PassFires \/ PassEnd)
    /\ WF_serviceVars(CommandAnswered)
    /\ WF_serviceVars(Elapse)

ServiceSpec == ServiceInit /\ [][ServiceNext]_serviceVars /\ Fairness

-----------------------------------------------------------------------------
ServiceTypeOK ==
    /\ TypeOK
    /\ {wake, nudged, fired, asleep} \subseteq BOOLEAN
    /\ timer \in NoTimer..SleepCap
    /\ asleep <=> ticks[Waiter].status = "idle"

(***************************************************************************)
(* No nudge is lost and no event goes unreported: while the waiter is      *)
(* going to sleep on, the packets it pushed show the slots as they are,    *)
(* whatever commands arrived while it awaited a fired command.             *)
(***************************************************************************)
ConsoleIsCurrent ==
    asleep /\ ~wake => \A k \in Kinds : shown[k] = Status(k)

(***************************************************************************)
(* The waiter never sleeps past its work: no longer than the cap while     *)
(* anything is pending, which bounds the harm of a clock that is set while *)
(* it sleeps, and with a clock that is left alone no longer than to the    *)
(* earliest deadline.                                                      *)
(***************************************************************************)
AwakesForDeadline ==
    asleep /\ ~wake =>
        \A d \in PendingDeadlines :
            /\ timer \in 0..SleepCap
            /\ ~clockSet => timer = 0 \/ clock + timer <= d

(***************************************************************************)
(* A due entry does not wait for ever, whatever is commanded meanwhile.    *)
(***************************************************************************)
DueEntriesAreServed ==
    \A k \in Kinds :
        (Pending(slots[k]) /\ Deadline(slots[k]) <= clock)
            ~> ~(Pending(slots[k]) /\ Deadline(slots[k]) <= clock)
=============================================================================
