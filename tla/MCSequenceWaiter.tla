------------------------- MODULE MCSequenceWaiter -------------------------
(***************************************************************************)
(* SequenceWaiter on one plan for each slot: the ATS plan has entries that *)
(* lie further apart than the sleep cap, the RTS plan an immediate one.    *)
(***************************************************************************)
EXTENDS SequenceWaiter

E(t, c) == [time |-> t, command |-> c]

MCCommands == {"A", "B"}

MCPlans ==
    {[kind |-> "ats", entries |-> <<E(1, "A"), E(3, "B")>>],
     [kind |-> "rts", entries |-> <<E(0, "A"), E(1, "B")>>]}
=============================================================================
