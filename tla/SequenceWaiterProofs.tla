------------------------ MODULE SequenceWaiterProofs ------------------------
(***************************************************************************)
(* What SequenceWaiter guarantees for every set of plans, every sleep cap  *)
(* and every way in which the wall clock is set.                           *)
(***************************************************************************)
EXTENDS SequenceWaiter, SequencerProofs

\* The next look of the waiter at the slots would not find a finished run.
Settled == \A k \in Kinds : slots[k].state = "RUNNING" => ~Exhausted(slots[k])

(***************************************************************************)
(* As long as nothing has happened that the waiter will report, by a nudge *)
(* or by having fired, what it pushed is current, and there is no run that *)
(* the end of a pass would complete.                                       *)
(***************************************************************************)
Reported == (\A k \in Kinds : shown[k] = Status(k)) /\ Settled

WaiterInv ==
    /\ IInv
    /\ wake \in BOOLEAN /\ nudged \in BOOLEAN /\ fired \in BOOLEAN
    /\ asleep \in BOOLEAN /\ clockSet \in BOOLEAN
    /\ timer \in NoTimer..SleepCap
    /\ asleep <=> ticks[Waiter].status = "idle"
    /\ ticks[Waiter].status = "firing" => fired
    /\ ~wake /\ (asleep \/ ~(nudged \/ fired)) => Reported
    /\ AwakesForDeadline

-----------------------------------------------------------------------------
\* The waiter is a caller of tick().
LEMMA WaiterTicks == Waiter \in Ticker
  <1>1. Ticker # {}
    <2>1. Cardinality({}) = 0
      BY FS_EmptySet
    <2> QED BY <2>1, WaiterAssumption
  <1> QED BY <1>1 DEF Waiter

\* What is pushed of a slot is a matter of the slot alone.
LEMMA StatusIsOfSlots ==
    ASSUME slots' = slots
    PROVE  \A k \in Kinds : Status(k)' = Status(k)
  BY DEF Status, Exhausted, Total, Deadline, DeadlineAt

\* Deadlines and what is shown depend on the slots only.
LEMMA PendingIsOfSlots ==
    ASSUME slots' = slots
    PROVE  PendingDeadlines' = PendingDeadlines
  BY DEF PendingDeadlines, Pending, Exhausted, Total, Deadline, DeadlineAt

\* So does whether there is anything to tell.
LEMMA SettledIsOfSlots ==
    ASSUME slots' = slots
    PROVE  Settled' = Settled
  BY DEF Settled, Exhausted, Total

\* A deadline is a time.
LEMMA DeadlinesAreTimes ==
    ASSUME TypeOK, PlanOnBoard, NEW d \in PendingDeadlines
    PROVE  d \in Nat
  <1>1. PICK k \in Kinds : Pending(slots[k]) /\ d = Deadline(slots[k])
    BY DEF PendingDeadlines
  <1> QED BY <1>1, PendingDeadline

\* The two slots have at most two deadlines, so that there is an earliest one.
LEMMA EarliestDeadline ==
    ASSUME TypeOK, PlanOnBoard, PendingDeadlines # {}
    PROVE  \E x \in PendingDeadlines : \A y \in PendingDeadlines : x <= y
  <1> DEFINE a == Deadline(slots["ats"])
             r == Deadline(slots["rts"])
  <1>1. PendingDeadlines \subseteq {a, r}
    BY DEF PendingDeadlines, Kinds
  <1>2. \A d \in PendingDeadlines : d \in Nat
    BY DeadlinesAreTimes
  <1> HIDE DEF a, r
  <1>3. CASE a \notin PendingDeadlines
    BY <1>1, <1>2, <1>3
  <1>4. CASE r \notin PendingDeadlines
    BY <1>1, <1>2, <1>4
  <1>5. CASE a \in PendingDeadlines /\ r \in PendingDeadlines
    <2>1. a \in Nat /\ r \in Nat
      BY <1>2, <1>5
    <2>2. CASE a <= r
      BY <1>1, <1>5, <2>1, <2>2
    <2>3. CASE ~(a <= r)
      BY <1>1, <1>5, <2>1, <2>3
    <2> QED BY <2>2, <2>3
  <1> QED BY <1>3, <1>4, <1>5

\* A timer runs down at least as fast as the clock goes on.
LEMMA TimerRunsDown ==
    \A now, later, left, d \in Nat :
        later <= now + 1 /\ now + left <= d => later + (left - 1) <= d
  OBVIOUS

\* A sleep ends no later than the cap and no later than the earliest deadline.
LEMMA SleepEndsInTime ==
    ASSUME clock \in Nat, NEW D \in SUBSET Nat,
           D # {} => \E x \in D : \A y \in D : x <= y
    PROVE  /\ D = {} => SleepFor(D) = NoTimer
           /\ D # {} => /\ SleepFor(D) \in 0..SleepCap
                        /\ \A d \in D : SleepFor(D) = 0 \/ clock + SleepFor(D) <= d
  <1>1. CASE D = {}
    BY <1>1 DEF SleepFor
  <1>2. CASE D # {}
    <2> DEFINE e == CHOOSE x \in D : \A y \in D : x <= y
    <2>1. e \in D /\ \A y \in D : e <= y
      BY <1>2
    <2>2. SleepFor(D) = IF e > clock THEN AtMost(e - clock, SleepCap) ELSE 0
      BY <1>2 DEF SleepFor
    <2> HIDE DEF e
    <2>3. SleepCap \in Nat \ {0} /\ e \in Nat
      BY <2>1, WaiterAssumption
    <2>4. /\ SleepFor(D) \in 0..SleepCap
          /\ SleepFor(D) = 0 \/ clock + SleepFor(D) <= e
      BY <2>2, <2>3 DEF AtMost
    <2>5. SleepFor(D) = 0 \/ \A d \in D : clock + SleepFor(D) <= d
      <3>1. SUFFICES ASSUME SleepFor(D) # 0, NEW d \in D PROVE clock + SleepFor(D) <= d
        OBVIOUS
      <3>2. clock + SleepFor(D) <= e /\ e <= d /\ SleepFor(D) \in Nat
        BY <2>1, <2>4, <3>1, <2>3
      <3> QED BY <2>3, <3>2
    <2> QED BY <1>2, <2>4, <2>5
  <1> QED BY <1>1, <1>2

-----------------------------------------------------------------------------
\* A tick that ends has completed every run that was finished.
LEMMA TickEndSettles ==
    ASSUME IInv, NEW t \in Ticker, TickEnd(t)
    PROVE  Settled'
  <1>1. SUFFICES ASSUME NEW k \in Kinds, slots'[k].state = "RUNNING"
                 PROVE  ~Exhausted(slots'[k])
    BY DEF Settled, Exhausted, Total
  <1>2. slots[k] \in Slot
    BY DEF IInv, TypeOK
  <1>3. ticks[t].now \in Nat
    BY DEF IInv, TypeOK, Frame
  <1>4. slots'[k] = Completed(slots[k], ticks[t].now)
    BY DEF TickEnd
  <1>5. CASE slots[k].state = "RUNNING" /\ Exhausted(slots[k])
    <2>1. Completed(slots[k], ticks[t].now).state = "COMPLETE"
      BY <1>2, <1>5 DEF Completed, Slot
    <2> QED BY <1>1, <1>4, <2>1
  <1>6. CASE ~(slots[k].state = "RUNNING" /\ Exhausted(slots[k]))
    <2>1. slots'[k] = slots[k]
      BY <1>4, <1>6 DEF Completed
    <2> QED BY <1>1, <1>6, <2>1
  <1> QED BY <1>5, <1>6

\* The waiter starts with a pass.
LEMMA InitWaiterInv == ServiceInit => WaiterInv
  <1> SUFFICES ASSUME ServiceInit PROVE WaiterInv
    OBVIOUS
  <1>1. Init /\ wake = FALSE /\ nudged = FALSE /\ fired = FALSE /\ asleep = TRUE
        /\ timer = 0 /\ shown = [k \in Kinds |-> Status(k)] /\ clockSet = FALSE
    BY DEF ServiceInit
  <1>2. IInv
    BY <1>1, InitInv
  <1>3. ticks[Waiter].status = "idle"
    BY <1>1, WaiterTicks DEF Init, IdleFrame
  <1>4. \A k \in Kinds : slots[k].state = "IDLE"
    BY <1>1 DEF Init, EmptySlot
  <1>5. PendingDeadlines = {}
    BY <1>4 DEF PendingDeadlines, Pending
  <1>6. Reported
    BY <1>1, <1>4 DEF Reported, Settled
  <1>7. timer \in NoTimer..SleepCap
    BY <1>1, WaiterAssumption DEF NoTimer
  <1>8. AwakesForDeadline
    BY <1>5 DEF AwakesForDeadline
  <1> QED BY <1>1, <1>2, <1>3, <1>6, <1>7, <1>8 DEF WaiterInv

\* Every step of the service is one of the sequencer, or sets its clock.
LEMMA ServiceStepInv ==
    ASSUME IInv, [ServiceNext]_serviceVars
    PROVE  IInv'
  <1>0. clock \in Nat /\ MaxClock \in Nat
    BY BoundsAssumption DEF IInv, TypeOK
  <1>1. CASE SequenceCommand
    BY <1>1, NextInv DEF SequenceCommand, Next
  <1>2. CASE PassBegin \/ PassFires \/ CommandAnswered \/ PassEnd
    <2>1. TickStep(Waiter)
      BY <1>2 DEF PassBegin, PassFires, CommandAnswered, PassEnd, TickStep
    <2> QED BY <2>1, WaiterTicks, NextInv DEF Next
  <1>3. CASE Elapse
    <2>1. clock' \in Nat /\ UNCHANGED <<slots, ticks>>
      BY <1>0, <1>3 DEF Elapse, AtMost
    <2> QED BY <2>1, ClockInv
  <1>4. CASE ClockJumps
    <2>1. clock' \in Nat /\ UNCHANGED <<slots, ticks>>
      BY <1>0, <1>4 DEF ClockJumps
    <2> QED BY <2>1, ClockInv
  <1>5. CASE ClockSetBack
    BY <1>5, NextInv DEF ClockSetBack, Next
  <1>6. CASE UNCHANGED serviceVars
    BY <1>0, <1>6, ClockInv DEF serviceVars
  <1> QED BY <1>1, <1>2, <1>3, <1>4, <1>5, <1>6 DEF ServiceNext

\* When slots and their report stay and the waiter neither wakes nor sleeps.
LEMMA ReportStays ==
    ASSUME WaiterInv, UNCHANGED <<slots, ticks, wake, nudged, fired, asleep, shown>>
    PROVE  /\ wake' \in BOOLEAN /\ nudged' \in BOOLEAN /\ fired' \in BOOLEAN
           /\ asleep' \in BOOLEAN
           /\ asleep' <=> ticks'[Waiter].status = "idle"
           /\ ticks'[Waiter].status = "firing" => fired'
           /\ ~wake' /\ (asleep' \/ ~(nudged' \/ fired')) => Reported'
  <1>1. Reported => Reported'
    BY StatusIsOfSlots, SettledIsOfSlots DEF Reported
  <1> QED BY <1>1 DEF WaiterInv

\* Every step of the waiter, of the commands and of the clocks keeps the
\* console and the sleep right.
LEMMA NextWaiterInv == WaiterInv /\ [ServiceNext]_serviceVars => WaiterInv'
  <1> SUFFICES ASSUME WaiterInv, [ServiceNext]_serviceVars PROVE WaiterInv'
    OBVIOUS
  <1>a. IInv /\ IInv'
    BY ServiceStepInv DEF WaiterInv
  <1>b. /\ wake \in BOOLEAN /\ nudged \in BOOLEAN /\ fired \in BOOLEAN
        /\ asleep \in BOOLEAN /\ clockSet \in BOOLEAN /\ timer \in NoTimer..SleepCap
        /\ asleep <=> ticks[Waiter].status = "idle"
        /\ ticks[Waiter].status = "firing" => fired
    BY DEF WaiterInv
  <1>c. TypeOK /\ PlanOnBoard /\ clock \in Nat /\ MaxClock \in Nat
    BY <1>a, BoundsAssumption DEF IInv, TypeOK
  <1>d. SleepCap \in Nat \ {0} /\ Waiter \in Ticker
    BY WaiterAssumption, WaiterTicks
  <1>e. AwakesForDeadline
    BY DEF WaiterInv
  <1>1. CASE SequenceCommand
    <2>1. /\ wake' = TRUE /\ ticks' = ticks
          /\ UNCHANGED <<nudged, fired, asleep, timer, shown, clockSet>>
      BY <1>1 DEF SequenceCommand, Command, Load, LoadFailed, Start, Stop, Abort, vars
    <2> QED BY <1>a, <1>b, <2>1 DEF WaiterInv, AwakesForDeadline
  <1>2. CASE PassBegin
    <2>1. /\ asleep' = FALSE /\ fired' = FALSE /\ nudged' = wake /\ wake' = FALSE
          /\ UNCHANGED <<slots, timer, shown, clockSet>> /\ asleep
      BY <1>2 DEF PassBegin, TickBegin
    <2>2. ticks'[Waiter].status = "scanning"
      <3>1. ticks' = [ticks EXCEPT ![Waiter] =
                         [IdleFrame EXCEPT !.status = "scanning", !.now = clock]]
        BY <1>2 DEF PassBegin, TickBegin
      <3>2. ticks'[Waiter] = [IdleFrame EXCEPT !.status = "scanning", !.now = clock]
        BY <1>c, <1>d, <3>1 DEF TypeOK
      <3> QED BY <3>2 DEF IdleFrame
    <2>3. ~wake' /\ (asleep' \/ ~(nudged' \/ fired')) => Reported'
      <3>1. ~wake => Reported
        BY <2>1 DEF WaiterInv
      <3>2. Reported => Reported'
        BY <2>1, StatusIsOfSlots, SettledIsOfSlots DEF Reported
      <3> QED BY <2>1, <3>1, <3>2
    <2> QED BY <1>a, <1>b, <2>1, <2>2, <2>3 DEF WaiterInv, AwakesForDeadline
  <1>3. CASE PassFires
    <2>1. /\ fired' = TRUE /\ UNCHANGED <<wake, nudged, asleep, timer, shown, clockSet>>
      BY <1>3 DEF PassFires
    <2>2. PICK k \in Kinds : Fire(Waiter, k)
      BY <1>3 DEF PassFires
    <2>3. ticks[Waiter].status = "scanning" /\ ticks'[Waiter].status = "firing"
      BY <1>a, <1>d, <2>2, FireEffect
    <2>4. asleep = FALSE
      BY <1>b, <2>3
    <2> QED BY <1>a, <1>b, <2>1, <2>3, <2>4 DEF WaiterInv, AwakesForDeadline
  <1>4. CASE CommandAnswered
    <2>1. /\ FireReturns(Waiter)
          /\ UNCHANGED <<wake, nudged, fired, asleep, timer, shown, clockSet>>
      BY <1>4 DEF CommandAnswered, loopVars
    <2>2. ticks[Waiter].status = "firing" /\ ticks'[Waiter].status = "scanning"
      BY <1>c, <1>d, <2>1 DEF FireReturns, TypeOK, Frame
    <2>3. fired /\ asleep = FALSE
      BY <1>b, <2>2
    <2> QED BY <1>a, <1>b, <2>1, <2>2, <2>3 DEF WaiterInv, AwakesForDeadline
  <1>5. CASE PassEnd
    <2>1. /\ TickEnd(Waiter)
          /\ shown' = IF fired \/ nudged THEN [k \in Kinds |-> Status(k)'] ELSE shown
          /\ timer' = SleepFor(PendingDeadlines')
          /\ asleep' = TRUE /\ clockSet' = FALSE
          /\ UNCHANGED <<wake, nudged, fired>>
      BY <1>5 DEF PassEnd
    <2>2. /\ ticks[Waiter].status = "scanning" /\ ticks'[Waiter].status = "idle"
          /\ clock' = clock
      BY <1>c, <1>d, <2>1, TickEndEffect
    <2>3. Settled'
      BY <1>a, <1>d, <2>1, TickEndSettles
    <2>4. ASSUME ~wake PROVE Reported'
      <3>1. CASE fired \/ nudged
        <4>1. \A k \in Kinds : shown'[k] = Status(k)'
          BY <2>1, <3>1
        <4> QED BY <2>3, <4>1 DEF Reported
      <3>2. CASE ~(fired \/ nudged)
        <4>1. Reported
          BY <2>4, <3>2 DEF WaiterInv
        <4>2. \A k \in Kinds : slots'[k] = slots[k]
          BY <1>c, <1>d, <2>1, <4>1, TickEndEffect DEF Reported, Settled
        <4>3. \A k \in Kinds : Status(k)' = Status(k)
          BY <4>2 DEF Status, Exhausted, Total, Deadline, DeadlineAt
        <4>4. \A k \in Kinds : shown'[k] = Status(k)'
          BY <2>1, <3>2, <4>1, <4>3 DEF Reported
        <4> QED BY <2>3, <4>4 DEF Reported
      <3> QED BY <3>1, <3>2
    <2> DEFINE D == PendingDeadlines'
    <2>e. D = PendingDeadlines
      <3>1. \A k \in Kinds :
                LET r == slots'[k] IN
                /\ Pending(r) <=> Pending(slots[k])
                /\ Deadline(r) = Deadline(slots[k])
        <4>1. SUFFICES ASSUME NEW k \in Kinds
                       PROVE  LET r == slots'[k] IN
                              /\ Pending(r) <=> Pending(slots[k])
                              /\ Deadline(r) = Deadline(slots[k])
          OBVIOUS
        <4>2. /\ slots'[k].plan = slots[k].plan /\ slots'[k].base = slots[k].base
              /\ slots'[k].position = slots[k].position
              /\ \/ slots'[k] = slots[k]
                 \/ /\ slots[k].state = "RUNNING" /\ Exhausted(slots[k])
                    /\ slots'[k].state = "COMPLETE"
          BY <1>c, <1>d, <2>1, TickEndEffect
        <4>3. Deadline(slots'[k]) = Deadline(slots[k])
          BY <4>2 DEF Deadline, DeadlineAt
        <4>4. Pending(slots'[k]) <=> Pending(slots[k])
          BY <4>2 DEF Pending
        <4> QED BY <4>3, <4>4
      <3> QED BY <3>1 DEF PendingDeadlines
    <2>5. D \in SUBSET Nat
      BY <1>c, <2>e, DeadlinesAreTimes
    <2>6. D # {} => \E x \in D : \A y \in D : x <= y
      BY <1>c, <2>e, EarliestDeadline
    <2>7. timer' = SleepFor(D)
      BY <2>1
    <2> HIDE DEF D
    <2>8. /\ D = {} => timer' = NoTimer
          /\ D # {} => /\ timer' \in 0..SleepCap
                       /\ \A d \in D : timer' = 0 \/ clock + timer' <= d
      BY <1>c, <2>5, <2>6, <2>7, SleepEndsInTime
    <2>9. timer' \in NoTimer..SleepCap
      BY <1>d, <2>8 DEF NoTimer
    <2>10. AwakesForDeadline'
      <3>1. \A d \in D : timer' \in 0..SleepCap /\ (timer' = 0 \/ clock' + timer' <= d)
        BY <2>2, <2>8
      <3> QED BY <3>1 DEF AwakesForDeadline, D
    <2> QED BY <1>a, <1>b, <2>1, <2>2, <2>4, <2>9, <2>10 DEF WaiterInv
  <1>6. CASE Elapse
    <2>1. /\ clock' = AtMost(clock + 1, MaxClock)
          /\ timer' = IF asleep /\ timer > 0 THEN timer - 1 ELSE timer
          /\ UNCHANGED <<slots, ticks, wake, nudged, fired, asleep, shown, clockSet>>
      BY <1>6 DEF Elapse
    <2>2. timer' \in NoTimer..SleepCap
      BY <1>b, <1>d, <2>1 DEF NoTimer
    <2>3. AwakesForDeadline'
      <3>1. SUFFICES ASSUME asleep, ~wake, NEW d \in PendingDeadlines
                     PROVE  /\ timer' \in 0..SleepCap
                            /\ ~clockSet => timer' = 0 \/ clock' + timer' <= d
        BY <2>1, PendingIsOfSlots DEF AwakesForDeadline
      <3>2. /\ timer \in 0..SleepCap
            /\ ~clockSet => timer = 0 \/ clock + timer <= d
        BY <1>e, <3>1 DEF AwakesForDeadline
      <3>3. d \in Nat
        BY <1>c, <3>1, DeadlinesAreTimes
      <3>4. clock' <= clock + 1 /\ clock' \in Nat
        BY <1>c, <2>1 DEF AtMost
      <3>5. CASE timer = 0
        BY <1>d, <2>1, <3>2, <3>5
      <3>6. CASE timer > 0
        <4>1. timer' = timer - 1
          BY <2>1, <3>1, <3>6
        <4>2. timer' \in 0..SleepCap
          BY <1>d, <3>2, <3>6, <4>1
        <4>0. timer \in Nat
          BY <1>d, <3>2
        <4>3. clock + timer <= d => clock' + timer' <= d
          BY <1>c, <3>3, <3>4, <4>0, <4>1, TimerRunsDown
        <4> QED BY <3>2, <3>6, <4>0, <4>2, <4>3
      <3> QED BY <1>d, <3>2, <3>5, <3>6
    <2> QED BY <1>a, <1>b, <2>1, <2>2, <2>3, ReportStays DEF WaiterInv
  <1>7. CASE ClockJumps \/ ClockSetBack
    <2>1. /\ clockSet' = asleep /\ timer' = timer
          /\ UNCHANGED <<slots, ticks, wake, nudged, fired, asleep, shown>>
      BY <1>7 DEF ClockJumps, ClockSetBack, ClockStepsBack
    <2>2. AwakesForDeadline'
      BY <1>e, <2>1, PendingIsOfSlots DEF AwakesForDeadline
    <2> QED BY <1>a, <1>b, <2>1, <2>2, ReportStays DEF WaiterInv
  <1>8. CASE UNCHANGED serviceVars
    <2>1. UNCHANGED <<slots, ticks, clock, wake, nudged, fired, asleep, timer, shown, clockSet>>
      BY <1>8 DEF serviceVars, loopVars
    <2>2. AwakesForDeadline'
      BY <1>e, <2>1, PendingIsOfSlots DEF AwakesForDeadline
    <2> QED BY <1>a, <1>b, <2>1, <2>2, ReportStays DEF WaiterInv
  <1> QED BY <1>1, <1>2, <1>3, <1>4, <1>5, <1>6, <1>7, <1>8 DEF ServiceNext

-----------------------------------------------------------------------------
\* Every reachable state of the service satisfies it.
THEOREM WaiterInvariance == ServiceSpec => []WaiterInv
  BY InitWaiterInv, NextWaiterInv, PTL DEF ServiceSpec

(***************************************************************************)
(* Whatever commands arrive while the waiter awaits a fired one, whoever   *)
(* sets the clock: when it goes to sleep un-nudged, the status packets it  *)
(* pushed show both slots as they are.                                     *)
(***************************************************************************)
THEOREM StatusPacketsAreCurrent == ServiceSpec => []ConsoleIsCurrent
  <1>1. WaiterInv => ConsoleIsCurrent
    BY DEF WaiterInv, Reported, ConsoleIsCurrent
  <1> QED BY <1>1, WaiterInvariance, PTL

(***************************************************************************)
(* The waiter sleeps no longer than the cap while anything is pending, and *)
(* no longer than to the earliest deadline of a clock that is left alone.  *)
(***************************************************************************)
THEOREM SleepIsShortEnough == ServiceSpec => []AwakesForDeadline
  <1>1. WaiterInv => AwakesForDeadline
    BY DEF WaiterInv
  <1> QED BY <1>1, WaiterInvariance, PTL

(***************************************************************************)
(* What the sequencer guarantees of its slots it guarantees inside the     *)
(* service too, where the clock also jumps ahead: every entry a run has    *)
(* passed is accounted for (the Ledger), the types hold, and so on.        *)
(***************************************************************************)
THEOREM ServiceKeepsTheLedger == ServiceSpec => [](Ledger /\ ServiceTypeOK)
  <1>1. WaiterInv => Ledger /\ ServiceTypeOK
    BY DEF WaiterInv, IInv, ServiceTypeOK
  <1> QED BY <1>1, WaiterInvariance, PTL
=============================================================================
