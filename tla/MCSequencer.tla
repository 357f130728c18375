---------------------------- MODULE MCSequencer ----------------------------
(***************************************************************************)
(* Sequencer on two small plans for each slot.  The times are chosen so    *)
(* that plans hold ties, late starts skip some, all or none of the ATS     *)
(* entries, and both slots are due in one tick.  The clock may be set    *)
(* back.                                                                   *)
(***************************************************************************)
EXTENDS SequencerClock, TLC

E(t, c) == [time |-> t, command |-> c]

MCCommands == {"A", "B"}

MCPlans ==
    {[kind |-> "ats", entries |-> <<E(1, "A"), E(2, "B")>>],
     [kind |-> "ats", entries |-> <<E(2, "A")>>],
     [kind |-> "rts", entries |-> <<E(0, "A"), E(1, "B")>>]}

TickerSymmetry == Permutations(Ticker)
=============================================================================
