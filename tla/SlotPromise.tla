---------------------------- MODULE SlotPromise ----------------------------
(***************************************************************************)
(* What one slot of the sequencer promises the operator, without saying    *)
(* how: a plan is run in windows.  A window opens with some entries of the *)
(* plan still to come, dispatches them one by one in plan order, and is    *)
(* done when none is left; until then it can only be halted or thrown      *)
(* away, never given another plan.                                         *)
(***************************************************************************)
EXTENDS Naturals, Sequences

CONSTANT NoPlan

VARIABLES
    plan,   \* the plan on board, or NoPlan
    phase,  \* "empty", "ready", "running" or "done"
    first,  \* the window: the entries it passed over when it opened,
    next    \* and those it has passed by now

vars == <<plan, phase, first, next>>

Init == plan = NoPlan /\ phase = "empty" /\ first = 0 /\ next = 0

Close == first' = 0 /\ next' = 0

Install == /\ phase # "running"
           /\ phase' = "ready" /\ plan' # NoPlan /\ Close

Discard == phase' = "empty" /\ plan' = NoPlan /\ Close

Open == /\ phase \in {"ready", "done"}
        /\ phase' = "running"
        /\ first' \in 0..(Len(plan.entries) - 1) /\ next' = first'
        /\ UNCHANGED plan

Dispatch == /\ phase = "running"
            /\ next < Len(plan.entries) /\ next' = next + 1
            /\ UNCHANGED <<plan, phase, first>>

Finish == /\ phase = "running" /\ next = Len(plan.entries)
          /\ phase' = "done"
          /\ UNCHANGED <<plan, first, next>>

Halt == /\ phase = "running"
        /\ phase' = "ready" /\ Close
        /\ UNCHANGED plan

Next == Install \/ Discard \/ Open \/ Dispatch \/ Finish \/ Halt

Spec == Init /\ [][Next]_vars
=============================================================================
