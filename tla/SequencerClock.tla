--------------------------- MODULE SequencerClock ---------------------------
(***************************************************************************)
(* Sequencer with an eye on its wall clock: setBack tells the behaviours   *)
(* apart in which the clock was ever set back.  What the sequencer         *)
(* promises about times it can only promise of the others.                 *)
(***************************************************************************)
EXTENDS Sequencer

VARIABLE setBack \* history: whether the clock was set back

clockVars == <<vars, setBack>>

ClockInit == Init /\ setBack = FALSE

ClockNext == Next /\ setBack' = (setBack \/ clock' < clock)

ClockSpec == ClockInit /\ [][ClockNext]_clockVars

-----------------------------------------------------------------------------
(***************************************************************************)
(* As long as nobody sets the clock back, no command leaves before its     *)
(* time, whatever was restarted on the way.                                *)
(***************************************************************************)
FiresOnTime == ~setBack => NothingFiresEarly

(***************************************************************************)
(* As long as nobody sets the clock back, one tick() fires in deadline     *)
(* order across both slots, also when what it fires restarts them.         *)
(***************************************************************************)
FiresInOrder ==
    [][~setBack => \A t \in Ticker, k \in Kinds :
           Fire(t, k) => Deadline(slots[k]) >= ticks[t].lastFired]_clockVars

-----------------------------------------------------------------------------
\* A call of tick() runs on a time that was, and the last entry it fired was
\* due by then; no run has a base that is still to come.
TicksLagTheClock ==
    /\ \A k \in Kinds : slots[k].base <= clock
    /\ \A t \in Ticker : ticks[t].status # "idle" =>
           ticks[t].lastFired <= ticks[t].now /\ ticks[t].now <= clock

\* What is still to be fired is due no earlier than what a call has fired.
LaterIsLater ==
    \A t \in Ticker, k \in Kinds :
        ticks[t].status # "idle" /\ Pending(slots[k]) =>
            ticks[t].lastFired <= Deadline(slots[k])

(***************************************************************************)
(* The inductive invariant of a clock that nobody sets back.               *)
(***************************************************************************)
TimeInv == ~setBack => NothingFiresEarly /\ TicksLagTheClock /\ LaterIsLater
=============================================================================
