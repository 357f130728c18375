-------------------------- MODULE SequencerProofs --------------------------
(***************************************************************************)
(* What Sequencer guarantees for every set of plans, every finite number   *)
(* of callers of tick() and every bound.                                   *)
(***************************************************************************)
EXTENDS SequencerClock, FiniteSetTheorems, TLAPS

\* A plan on board has entries, each with a time and a command.
LEMMA PlanEntries ==
    ASSUME NEW s \in Slot
    PROVE  /\ s.plan.entries \in Seq(Entry)
           /\ Total(s) \in Nat
           /\ s.plan # NoPlan => s.plan \in Plans /\ s.plan.kind \in Kinds /\ Total(s) > 0
           /\ s.plan = NoPlan => Total(s) = 0
  <1>1. CASE s.plan = NoPlan
    BY <1>1 DEF NoPlan, Total
  <1>2. CASE s.plan \in Plans
    <2>1. /\ s.plan = [kind |-> s.plan.kind, entries |-> s.plan.entries]
          /\ s.plan.kind \in Kinds
          /\ s.plan.entries \in Seq(Entry)
          /\ Len(s.plan.entries) > 0
      BY <1>2, PlansAssumption
    <2>2. s.plan # NoPlan
      BY <2>1 DEF NoPlan, Kinds
    <2> QED BY <2>1, <2>2, <1>2 DEF Total
  <1> QED BY <1>1, <1>2 DEF Slot

\* The deadline of an entry of a slot is a time.
LEMMA DeadlineType ==
    ASSUME NEW s \in Slot, NEW i \in 1..Total(s)
    PROVE  /\ DeadlineAt(s, i) \in Nat
           /\ s.plan.entries[i].command \in Commands
  <1>1. s.plan.entries \in Seq(Entry) /\ i \in 1..Len(s.plan.entries)
    BY PlanEntries DEF Total
  <1>2. s.plan.entries[i] \in Entry
    BY <1>1
  <1>3. s.plan.entries[i].time \in Nat /\ s.plan.entries[i].command \in Commands
    BY <1>2 DEF Entry
  <1>4. s.base \in Nat
    BY DEF Slot
  <1> QED BY <1>3, <1>4 DEF DeadlineAt

\* A slot that is pending has an entry to consider next.
LEMMA PendingHasNext ==
    ASSUME NEW s \in Slot, Pending(s), s.plan # NoPlan
    PROVE  s.position + 1 \in 1..Total(s)
  <1>1. Total(s) \in Nat
    BY PlanEntries
  <1>2. s.position \in Nat
    BY DEF Slot
  <1>3. s.position < Total(s)
    BY <1>1, <1>2 DEF Pending, Exhausted
  <1> QED BY <1>1, <1>2, <1>3

\* START of an ATS passes over a number of its entries.
LEMMA PastCountType ==
    ASSUME NEW s \in Slot, NEW now \in Nat
    PROVE  PastCount(s.plan, now) \in 0..Total(s)
  <1> DEFINE P == {i \in 1..Len(s.plan.entries) : s.plan.entries[i].time < now}
  <1>1. Total(s) \in Nat
    BY PlanEntries
  <1>2. IsFiniteSet(1..Total(s)) /\ Cardinality(1..Total(s)) = Total(s)
    BY <1>1, FS_Interval
  <1>3. P \in SUBSET (1..Total(s))
    BY DEF Total
  <1>4. IsFiniteSet(P) /\ Cardinality(P) <= Total(s)
    BY <1>2, <1>3, FS_Subset
  <1>5. Cardinality(P) \in Nat
    BY <1>4, FS_CardinalityType
  <1> QED BY <1>1, <1>4, <1>5 DEF PastCount

\* START skips no more entries than there are.
LEMMA SkipCountType ==
    ASSUME NEW s \in Slot, clock \in Nat
    PROVE  SkipCount(s) \in 0..Total(s)
  BY PastCountType, PlanEntries DEF SkipCount

\* A slot without run progress.
LEMMA FreshSlotType ==
    ASSUME NEW p \in Plans \cup {NoPlan}, NEW st \in States, NEW g \in Nat
    PROVE  [EmptySlot EXCEPT !.plan = p, !.state = st, !.generation = g] \in Slot
  BY DEF EmptySlot, Slot, Results

\* The types of the fields of a slot.
LEMMA SlotFields ==
    ASSUME NEW s \in Slot
    PROVE  /\ s.plan \in Plans \cup {NoPlan}
           /\ s.state \in States
           /\ s.position \in Nat
           /\ s.base \in Nat
           /\ s.executed \in Nat
           /\ s.skipped \in Nat
           /\ s.generation \in Nat
  BY DEF Slot

-----------------------------------------------------------------------------
(***************************************************************************)
(* What every command does to the slot it reaches: a new run number and no *)
(* trace of the run before.                                                *)
(***************************************************************************)
NewRun(k) ==
    /\ slots' \in [Kinds -> Slot]
    /\ \A j \in Kinds \ {k} : slots'[j] = slots[j]
    /\ UNCHANGED <<ticks, clock>>
    /\ LET s == slots'[k] IN
       /\ s.generation = slots[k].generation + 1
       /\ s.executed = 0
       /\ s.position = s.skipped
       /\ s.plan # NoPlan => s.plan.kind = k
       /\ s.plan = NoPlan <=> s.state \in {"IDLE", "ERROR"}
       /\ \/ /\ s = [EmptySlot EXCEPT !.plan = s.plan, !.state = s.state,
                                      !.generation = s.generation]
             /\ s.state \in {"IDLE", "LOADED", "ERROR"}
             /\ s.skipped = 0
             /\ s.state = "LOADED" =>
                   slots[k].state # "RUNNING" \/ s.plan = slots[k].plan
          \/ /\ s.state = "RUNNING" /\ s.skipped < Total(s)
             /\ slots[k].state \in {"LOADED", "COMPLETE"} /\ s.plan = slots[k].plan

\* A command that leaves slot k idle with plan p.
LEMMA FreshIsNewRun ==
    ASSUME TypeOK, NEW k \in Kinds, NEW p \in Plans \cup {NoPlan},
           NEW st \in {"IDLE", "LOADED", "ERROR"},
           p # NoPlan => p.kind = k,
           p = NoPlan <=> st \in {"IDLE", "ERROR"},
           st = "LOADED" => slots[k].state # "RUNNING" \/ p = slots[k].plan,
           slots' = [slots EXCEPT ![k] = Fresh(slots[k], p, st)],
           UNCHANGED <<ticks, clock>>
    PROVE  NewRun(k)
  <1> DEFINE s == slots'[k]
             g == slots[k].generation + 1
  <1>1. slots \in [Kinds -> Slot] /\ slots[k] \in Slot
    BY DEF TypeOK
  <1>2. g \in Nat
    BY <1>1, SlotFields
  <1>3. s = [EmptySlot EXCEPT !.plan = p, !.state = st, !.generation = g]
    BY <1>1 DEF Fresh
  <1> HIDE DEF s, g
  <1>4. s \in Slot
    BY <1>2, <1>3, FreshSlotType DEF States
  <1>5. /\ s.plan = p /\ s.state = st /\ s.generation = g
        /\ s.executed = 0 /\ s.position = 0 /\ s.skipped = 0
    BY <1>3 DEF EmptySlot
  <1>6. s = [EmptySlot EXCEPT !.plan = s.plan, !.state = s.state, !.generation = s.generation]
    BY <1>3, <1>5
  <1>7. slots' \in [Kinds -> Slot] /\ \A j \in Kinds \ {k} : slots'[j] = slots[j]
    BY <1>1, <1>4 DEF s
  <1>8. s.plan = NoPlan <=> s.state \in {"IDLE", "ERROR"}
    BY <1>5
  <1> QED BY <1>5, <1>6, <1>7, <1>8 DEF NewRun, s, g

\* START begins a run,
LEMMA StartIsNewRun ==
    ASSUME TypeOK, PlanOnBoard, NEW k \in Kinds, Start(k)
    PROVE  NewRun(k)
  <1> DEFINE s == slots'[k]
             p == slots[k].plan
             n == SkipCount(slots[k])
             f == Fresh(slots[k], p, "RUNNING")
  <1>1. slots \in [Kinds -> Slot] /\ slots[k] \in Slot /\ clock \in Nat
    BY DEF TypeOK
  <1>2. n \in 0..Total(slots[k]) /\ Total(slots[k]) \in Nat
    BY <1>1, SkipCountType, PlanEntries
  <1>3. slots[k].generation + 1 \in Nat /\ p \in Plans \cup {NoPlan}
    BY <1>1, SlotFields
  <1>4. f \in Slot
    BY <1>3, FreshSlotType DEF Fresh, States
  <1>5. f.plan = p /\ f.state = "RUNNING" /\ f.generation = slots[k].generation + 1 /\ f.executed = 0
    BY DEF Fresh, EmptySlot
  <1>6. s = [f EXCEPT !.base = clock, !.position = n, !.skipped = n] /\ n < Total(slots[k])
    BY <1>1 DEF Start, Started
  <1> HIDE DEF f, n, s
  <1>7. s \in Slot
    <2>1. n \in Nat /\ clock \in Nat
      BY <1>1, <1>2
    <2> QED BY <2>1, <1>4, <1>6 DEF Slot
  <1>8. /\ s.plan = p /\ s.state = "RUNNING" /\ s.generation = slots[k].generation + 1
        /\ s.executed = 0 /\ s.position = n /\ s.skipped = n
    BY <1>4, <1>5, <1>6 DEF Slot
  <1>9. slots' \in [Kinds -> Slot] /\ \A j \in Kinds \ {k} : slots'[j] = slots[j]
    BY <1>1, <1>7 DEF Start, Started, s
  <1>10. /\ slots[k].state \in {"LOADED", "COMPLETE"} /\ p # NoPlan
         /\ UNCHANGED <<ticks, clock>>
    BY DEF Start, PlanOnBoard
  <1>11. p.kind = k
    BY <1>10 DEF TypeOK
  <1>12. s.skipped < Total(s)
    BY <1>6, <1>8 DEF Total
  <1> QED BY <1>8, <1>9, <1>10, <1>11, <1>12 DEF NewRun, s

\* as every command, in its way, gives a slot a generation of its own.
LEMMA CommandIsNewRun ==
    ASSUME TypeOK, PlanOnBoard, Command
    PROVE  \E k \in Kinds : NewRun(k)
  <1>1. ASSUME NEW p \in Plans, Load(p)
        PROVE  NewRun(p.kind) /\ p.kind \in Kinds
    <2>1. p.kind \in Kinds /\ p # NoPlan
      BY PlansAssumption DEF NoPlan, Kinds
    <2>2. slots' = [slots EXCEPT ![p.kind] = Fresh(slots[p.kind], p, "LOADED")]
          /\ UNCHANGED <<ticks, clock>>
          /\ slots[p.kind].state # "RUNNING"
      BY <1>1 DEF Load
    <2> QED BY <2>1, <2>2, FreshIsNewRun
  <1>2. ASSUME NEW k \in Kinds, LoadFailed(k) \/ Abort(k)
        PROVE  NewRun(k)
    <2>1. PICK st \in {"IDLE", "ERROR"} :
             /\ slots' = [slots EXCEPT ![k] = Fresh(slots[k], NoPlan, st)]
             /\ UNCHANGED <<ticks, clock>>
      BY <1>2 DEF LoadFailed, Abort
    <2> QED BY <2>1, FreshIsNewRun
  <1>3. ASSUME NEW k \in Kinds, Stop(k)
        PROVE  NewRun(k)
    <2>1. /\ slots' = [slots EXCEPT ![k] = Fresh(slots[k], slots[k].plan, "LOADED")]
          /\ UNCHANGED <<ticks, clock>>
          /\ slots[k].state = "RUNNING"
      BY <1>3 DEF Stop
    <2>2. slots[k].plan # NoPlan /\ slots[k].plan.kind = k
      BY <2>1 DEF PlanOnBoard, TypeOK
    <2>3. slots[k].plan \in Plans \cup {NoPlan}
      BY SlotFields DEF TypeOK
    <2> QED BY <2>1, <2>2, <2>3, FreshIsNewRun
  <1> QED BY <1>1, <1>2, <1>3, StartIsNewRun DEF Command

-----------------------------------------------------------------------------
\* The commands awaited in a slot are finitely many.
LEMMA InFlightFinite ==
    ASSUME NEW k \in Kinds
    PROVE  IsFiniteSet(InFlight(k)) /\ Cardinality(InFlight(k)) \in Nat
  <1>1. InFlight(k) \in SUBSET Ticker
    BY DEF InFlight
  <1>2. IsFiniteSet(InFlight(k))
    BY <1>1, BoundsAssumption, FS_Subset
  <1> QED BY <1>2, FS_CardinalityType

\* Slots are pristine at first.
LEMMA InitInv == Init => IInv
  <1> SUFFICES ASSUME Init PROVE IInv
    OBVIOUS
  <1>1. EmptySlot \in Slot
    BY DEF EmptySlot, Slot, States, Results
  <1>2. IdleFrame \in Frame
    BY DEF IdleFrame, Frame, Kinds
  <1>3. EmptySlot = [EmptySlot EXCEPT !.plan = EmptySlot.plan, !.state = EmptySlot.state,
                                      !.generation = EmptySlot.generation]
    BY DEF EmptySlot
  <1>4. /\ EmptySlot.plan = NoPlan /\ EmptySlot.state = "IDLE" /\ EmptySlot.executed = 0
        /\ EmptySlot.skipped = 0 /\ EmptySlot.position = 0
    BY DEF EmptySlot
  <1>5. \A k \in Kinds : slots[k] = EmptySlot
    BY DEF Init
  <1>6. \A t \in Ticker : ticks[t].status = "idle"
    BY DEF Init, IdleFrame
  <1>7. TypeOK
    BY <1>1, <1>2, <1>4, <1>5 DEF Init, TypeOK
  <1>8. Ledger
    <2>1. \A k \in Kinds : InFlight(k) = {}
      BY <1>6 DEF InFlight
    <2>2. Cardinality({}) = 0
      BY FS_EmptySet
    <2>3. Total(EmptySlot) = 0
      BY <1>1, <1>4, PlanEntries
    <2> QED BY <1>4, <1>5, <2>1, <2>2, <2>3 DEF Ledger
  <1>9. IdleSlotIsPristine
    BY <1>3, <1>5 DEF IdleSlotIsPristine
  <1>10. PlanOnBoard /\ AwaitedRunsHaveBegun /\ CompleteMeansDispatched
    BY <1>4, <1>5, <1>6 DEF PlanOnBoard, AwaitedRunsHaveBegun, CompleteMeansDispatched
  <1>11. \A k \in Kinds : slots[k].state # "RUNNING"
    BY <1>4, <1>5
  <1> QED BY <1>7, <1>8, <1>9, <1>10, <1>11 DEF IInv

\* No command in flight belongs to a run that is just beginning.
LEMMA NewRunAwaitsNothing ==
    ASSUME TypeOK, AwaitedRunsHaveBegun, NEW k \in Kinds, NewRun(k)
    PROVE  /\ InFlight(k)' = {}
           /\ \A j \in Kinds \ {k} : InFlight(j)' = InFlight(j)
  <1>1. /\ ticks \in [Ticker -> Frame] /\ ticks' = ticks /\ slots[k].generation \in Nat
        /\ slots'[k].generation = slots[k].generation + 1
        /\ \A j \in Kinds \ {k} : slots'[j] = slots[j]
    BY SlotFields DEF TypeOK, NewRun
  <1>2. InFlight(k)' = {}
    <2> SUFFICES ASSUME NEW t \in Ticker, ticks[t].status = "firing", ticks[t].kind = k,
                        ticks[t].generation = slots'[k].generation
                 PROVE  FALSE
      BY <1>1 DEF InFlight
    <2>1. ticks[t].generation <= slots[k].generation
      BY DEF AwaitedRunsHaveBegun
    <2> QED BY <1>1, <2>1
  <1>3. \A j \in Kinds \ {k} : InFlight(j)' = InFlight(j)
    BY <1>1 DEF InFlight
  <1> QED BY <1>2, <1>3

\* A command preserves the invariant: nothing awaited belongs to the new run.
LEMMA NewRunInv ==
    ASSUME IInv, NEW k \in Kinds, NewRun(k)
    PROVE  IInv'
  <1> DEFINE s == slots'[k]
  <1> USE DEF IInv
  <1>1. /\ slots \in [Kinds -> Slot] /\ slots' \in [Kinds -> Slot]
        /\ ticks \in [Ticker -> Frame] /\ ticks' = ticks /\ clock' = clock
        /\ \A j \in Kinds \ {k} : slots'[j] = slots[j]
    BY DEF NewRun, TypeOK
  <1>2. slots[k].generation \in Nat /\ s.generation = slots[k].generation + 1
    BY <1>1, SlotFields DEF NewRun
  <1>3. TypeOK'
    BY <1>1 DEF TypeOK, NewRun
  <1>4. PlanOnBoard'
    BY <1>1 DEF PlanOnBoard, NewRun
  <1>5. AwaitedRunsHaveBegun'
    <2> SUFFICES ASSUME NEW t \in Ticker, ticks[t].status = "firing"
                 PROVE  ticks[t].generation <= slots'[ticks[t].kind].generation
      BY <1>1 DEF AwaitedRunsHaveBegun
    <2>1. ticks[t].kind \in Kinds /\ ticks[t].generation \in Nat
      BY <1>1 DEF Frame
    <2>2. ticks[t].generation <= slots[ticks[t].kind].generation
      BY DEF AwaitedRunsHaveBegun
    <2> QED BY <1>1, <1>2, <2>1, <2>2
  <1>6. InFlight(k)' = {} /\ \A j \in Kinds \ {k} : InFlight(j)' = InFlight(j)
    BY NewRunAwaitsNothing
  <1>8. /\ s \in Slot /\ s.executed = 0 /\ s.position = s.skipped /\ s.position \in Nat
        /\ Total(s) \in Nat /\ s.skipped <= Total(s)
    <2>1. s \in Slot
      BY <1>1
    <2>2. s.position \in Nat /\ Total(s) \in Nat
      BY <2>1, SlotFields, PlanEntries
    <2> QED BY <2>1, <2>2 DEF NewRun
  <1>9. Ledger'
    <2>1. s.executed + s.skipped + Cardinality({}) = s.position
      BY <1>8, FS_EmptySet
    <2>2. s.executed + s.skipped + Cardinality(InFlight(k)') = s.position /\ s.position <= Total(s)
      BY <1>6, <1>8, <2>1
    <2>3. ASSUME NEW j \in Kinds \ {k}
          PROVE  /\ slots'[j].executed + slots'[j].skipped + Cardinality(InFlight(j)')
                        = slots'[j].position
                 /\ slots'[j].position <= Total(slots'[j])
      BY <1>1, <1>6, <2>3 DEF Ledger
    <2> QED BY <2>2, <2>3 DEF Ledger, Total
  <1>10. IdleSlotIsPristine'
    BY <1>1 DEF IdleSlotIsPristine, NewRun
  <1>11. CompleteMeansDispatched'
    <2>1. s.state # "COMPLETE"
      BY DEF NewRun
    <2> QED BY <1>1, <2>1 DEF CompleteMeansDispatched, Total
  <1>12. (\A j \in Kinds : slots[j].state = "RUNNING" => slots[j].skipped < Total(slots[j]))'
    BY <1>1 DEF NewRun, Total
  <1> QED BY <1>3, <1>4, <1>5, <1>9, <1>10, <1>11, <1>12

\* What claiming an entry does to its slot and to the call that claims it.
LEMMA FireEffect ==
    ASSUME IInv, NEW t \in Ticker, NEW k \in Kinds, Fire(t, k)
    PROVE  LET s == slots[k]
               r == slots'[k]
               f == ticks'[t]
           IN  /\ s \in Slot /\ s.state = "RUNNING" /\ s.plan # NoPlan
               /\ s.position + 1 \in 1..Total(s)
               /\ slots' \in [Kinds -> Slot] /\ \A j \in Kinds \ {k} : slots'[j] = slots[j]
               /\ r.position = s.position + 1
               /\ r.plan = s.plan /\ r.state = "RUNNING" /\ r.base = s.base
               /\ r.executed = s.executed /\ r.skipped = s.skipped
               /\ r.lastName = s.lastName /\ r.lastResult = s.lastResult
               /\ r.generation = s.generation
               /\ ticks' \in [Ticker -> Frame] /\ ticks[t].status = "scanning"
               /\ f.status = "firing" /\ f.kind = k /\ f.generation = s.generation
               /\ f.now = ticks[t].now /\ f.lastFired = Deadline(s)
               /\ f.command = s.plan.entries[s.position + 1].command
               /\ \A u \in Ticker \ {t} : ticks'[u] = ticks[u]
  <1> DEFINE s == slots[k]
             f == [ticks[t] EXCEPT !.status = "firing", !.kind = k,
                             !.generation = s.generation,
                             !.command = s.plan.entries[s.position + 1].command,
                             !.lastFired = Deadline(s)]
  <1> USE DEF IInv
  <1>1. /\ slots \in [Kinds -> Slot] /\ ticks \in [Ticker -> Frame]
        /\ s \in Slot /\ ticks[t] \in Frame
    BY DEF TypeOK
  <1>2. /\ s.state = "RUNNING" /\ s.plan # NoPlan /\ s.position + 1 \in 1..Total(s)
        /\ ticks[t].status = "scanning"
    <2>1. Pending(s)
      BY DEF Fire, NextDue, IsDue
    <2>2. s.state = "RUNNING" /\ s.plan # NoPlan
      BY <2>1 DEF Pending, PlanOnBoard
    <2> QED BY <1>1, <2>1, <2>2, PendingHasNext DEF Fire
  <1>3. Deadline(s) \in Nat /\ s.plan.entries[s.position + 1].command \in Commands
    BY <1>1, <1>2, DeadlineType DEF Deadline
  <1>4. s.position + 1 \in Nat /\ s.generation \in Nat
    BY <1>1, SlotFields
  <1>5. slots' = [slots EXCEPT ![k] = [s EXCEPT !.position = s.position + 1]]
    BY <1>1 DEF Fire
  <1>6. ticks' = [ticks EXCEPT ![t] = f]
    BY <1>1 DEF Fire
  <1>7. f \in Frame
    BY <1>1, <1>3, <1>4 DEF Frame
  <1>8. /\ f.status = "firing" /\ f.kind = k /\ f.generation = s.generation
        /\ f.now = ticks[t].now /\ f.lastFired = Deadline(s)
        /\ f.command = s.plan.entries[s.position + 1].command
    BY <1>1 DEF Frame
  <1> HIDE DEF s, f
  <1>9. ticks' \in [Ticker -> Frame] /\ ticks'[t] = f /\ \A u \in Ticker \ {t} : ticks'[u] = ticks[u]
    BY <1>1, <1>6, <1>7
  <1>10. [s EXCEPT !.position = s.position + 1] \in Slot
    BY <1>1, <1>4 DEF Slot
  <1>11. /\ slots' \in [Kinds -> Slot]
         /\ slots'[k] = [s EXCEPT !.position = s.position + 1]
         /\ \A j \in Kinds \ {k} : slots'[j] = slots[j]
    BY <1>1, <1>5, <1>10
  <1>12. /\ slots'[k].plan = s.plan /\ slots'[k].state = "RUNNING"
         /\ slots'[k].position = s.position + 1 /\ slots'[k].base = s.base
         /\ slots'[k].executed = s.executed /\ slots'[k].skipped = s.skipped
         /\ slots'[k].lastName = s.lastName /\ slots'[k].lastResult = s.lastResult
         /\ slots'[k].generation = s.generation
    BY <1>1, <1>2, <1>11 DEF Slot
  <1> QED BY <1>1, <1>2, <1>8, <1>9, <1>11, <1>12 DEF s

\* Claiming an entry moves it from "to come" to "awaited".
LEMMA FireInv ==
    ASSUME IInv, NEW t \in Ticker, NEW k \in Kinds, Fire(t, k)
    PROVE  IInv'
  <1> DEFINE s == slots[k]
  <1> USE DEF IInv
  <1>1. /\ slots \in [Kinds -> Slot] /\ ticks \in [Ticker -> Frame] /\ clock \in Nat
        /\ s \in Slot
    BY DEF TypeOK
  <1>2. /\ s.state = "RUNNING" /\ s.plan # NoPlan /\ s.position + 1 \in 1..Total(s)
        /\ ticks[t].status = "scanning"
    BY FireEffect
  <1>4. s.position \in Nat /\ s.generation \in Nat /\ s.executed \in Nat /\ s.skipped \in Nat
    BY <1>1, SlotFields
  <1>7. slots' \in [Kinds -> Slot] /\ \A j \in Kinds \ {k} : slots'[j] = slots[j]
    BY FireEffect
  <1>8. /\ slots'[k].plan = s.plan /\ slots'[k].state = "RUNNING"
        /\ slots'[k].position = s.position + 1
        /\ slots'[k].executed = s.executed /\ slots'[k].skipped = s.skipped
        /\ slots'[k].generation = s.generation
    BY FireEffect
  <1>10. /\ ticks' \in [Ticker -> Frame]
         /\ ticks'[t].status = "firing" /\ ticks'[t].kind = k
         /\ ticks'[t].generation = s.generation
         /\ \A u \in Ticker \ {t} : ticks'[u] = ticks[u]
    BY FireEffect
  <1> HIDE DEF s
  <1>11. TypeOK'
    <2>1. \A j \in Kinds : slots'[j].plan = slots[j].plan
      BY <1>7, <1>8 DEF s
    <2>2. \A j \in Kinds : slots'[j].plan # NoPlan => slots'[j].plan.kind = j
      BY <2>1 DEF TypeOK
    <2>3. clock' \in Nat
      BY <1>1 DEF Fire
    <2> QED BY <1>7, <1>10, <2>2, <2>3 DEF TypeOK
  <1>12. PlanOnBoard'
    BY <1>2, <1>7, <1>8 DEF PlanOnBoard, s
  <1>13. AwaitedRunsHaveBegun'
    <2>1. \A j \in Kinds : slots'[j].generation = slots[j].generation
      BY <1>7, <1>8 DEF s
    <2> SUFFICES ASSUME NEW u \in Ticker, ticks'[u].status = "firing"
                 PROVE  ticks'[u].generation <= slots'[ticks'[u].kind].generation
      BY DEF AwaitedRunsHaveBegun
    <2>2. CASE u = t
      BY <1>4, <1>8, <1>10, <2>2
    <2>3. CASE u # t
      <3>1. ticks'[u] = ticks[u] /\ ticks[u].kind \in Kinds
        BY <1>1, <1>10, <2>3 DEF Frame
      <3> QED BY <2>1, <3>1 DEF AwaitedRunsHaveBegun
    <2> QED BY <2>2, <2>3
  <1>14. InFlight(k)' = InFlight(k) \cup {t} /\ t \notin InFlight(k)
    <2>1. slots'[k].generation = slots[k].generation
      BY <1>8 DEF s
    <2>2. t \notin InFlight(k)
      BY <1>2 DEF InFlight
    <2>3. t \in InFlight(k)'
      BY <1>8, <1>10 DEF InFlight
    <2>4. \A u \in Ticker \ {t} : u \in InFlight(k)' <=> u \in InFlight(k)
      BY <1>10, <2>1 DEF InFlight
    <2>5. InFlight(k) \subseteq Ticker /\ InFlight(k)' \subseteq Ticker
      BY DEF InFlight
    <2> QED BY <2>2, <2>3, <2>4, <2>5
  <1>15. ASSUME NEW j \in Kinds \ {k}
         PROVE  InFlight(j)' = InFlight(j)
    <2>1. slots'[j] = slots[j] /\ j # k
      BY <1>7, <1>15
    <2>2. ticks[t].status # "firing" /\ ticks'[t].kind # j
      BY <1>2, <1>10, <2>1
    <2>3. ASSUME NEW u \in Ticker
          PROVE  (/\ ticks[u].status = "firing" /\ ticks[u].kind = j
                  /\ ticks[u].generation = slots[j].generation)
                 <=> (/\ ticks'[u].status = "firing" /\ ticks'[u].kind = j
                      /\ ticks'[u].generation = slots'[j].generation)
      BY <1>10, <2>1, <2>2, <2>3
    <2> QED BY <2>3 DEF InFlight
  <1>16. Ledger'
    <2>1. Cardinality(InFlight(k)') = Cardinality(InFlight(k)) + 1
          /\ Cardinality(InFlight(k)) \in Nat
      BY <1>14, InFlightFinite, FS_AddElement
    <2>2. s.executed + s.skipped + Cardinality(InFlight(k)) = s.position
      BY DEF Ledger, s
    <2>3. /\ slots'[k].executed + slots'[k].skipped + Cardinality(InFlight(k)')
                 = slots'[k].position
      BY <1>4, <1>8, <2>1, <2>2
    <2>4. Total(slots'[k]) = Total(s) /\ Total(s) \in Nat
      BY <1>1, <1>8, PlanEntries DEF Total
    <2>5. slots'[k].position <= Total(slots'[k])
      BY <1>2, <1>4, <1>8, <2>4
    <2>6. ASSUME NEW j \in Kinds \ {k}
          PROVE  /\ slots'[j].executed + slots'[j].skipped + Cardinality(InFlight(j)')
                        = slots'[j].position
                 /\ slots'[j].position <= Total(slots'[j])
      BY <1>7, <1>15, <2>6 DEF Ledger
    <2> QED BY <2>3, <2>5, <2>6 DEF Ledger, Total
  <1>17. IdleSlotIsPristine'
    BY <1>7, <1>8 DEF IdleSlotIsPristine
  <1>18. CompleteMeansDispatched'
    BY <1>7, <1>8 DEF CompleteMeansDispatched, Total
  <1>19. (\A j \in Kinds : slots[j].state = "RUNNING" => slots[j].skipped < Total(slots[j]))'
    BY <1>2, <1>7, <1>8 DEF Total, s
  <1> QED BY <1>11, <1>12, <1>13, <1>16, <1>17, <1>18, <1>19

(***************************************************************************)
(* Steps that leave alone every slot's run and which commands are awaited  *)
(* preserve what the invariant says of them.                               *)
(***************************************************************************)
LEMMA SameAwaited ==
    ASSUME NEW k \in Kinds,
           slots'[k].generation = slots[k].generation,
           \A t \in Ticker :
              /\ ticks'[t].status = "firing" <=> ticks[t].status = "firing"
              /\ ticks[t].status = "firing" => ticks'[t] = ticks[t]
    PROVE  InFlight(k)' = InFlight(k)
  <1>1. ASSUME NEW u \in Ticker
        PROVE  (/\ ticks[u].status = "firing" /\ ticks[u].kind = k
                /\ ticks[u].generation = slots[k].generation)
               <=> (/\ ticks'[u].status = "firing" /\ ticks'[u].kind = k
                    /\ ticks'[u].generation = slots'[k].generation)
    BY <1>1
  <1> QED BY <1>1 DEF InFlight

\* What the return of a command does to its slot and to the call that fired it.
LEMMA FireReturnsEffect ==
    ASSUME IInv, NEW t \in Ticker, FireReturns(t)
    PROVE  LET k == ticks[t].kind
               s == slots[k]
               r == slots'[k]
           IN  /\ k \in Kinds /\ s \in Slot /\ ticks[t].status = "firing" /\ clock' = clock
               /\ slots' \in [Kinds -> Slot] /\ \A j \in Kinds \ {k} : slots'[j] = slots[j]
               /\ r.plan = s.plan /\ r.state = s.state /\ r.base = s.base
               /\ r.position = s.position /\ r.skipped = s.skipped
               /\ r.generation = s.generation
               /\ s.generation = ticks[t].generation =>
                     /\ r.executed = s.executed + 1 /\ r.lastName = ticks[t].command
                     /\ r.lastResult \in {"SUCCESS", "FAILED"}
               /\ s.generation # ticks[t].generation => r = s
               /\ ticks' \in [Ticker -> Frame] /\ ticks'[t].status = "scanning"
               /\ ticks'[t].now = ticks[t].now /\ ticks'[t].lastFired = ticks[t].lastFired
               /\ \A u \in Ticker \ {t} : ticks'[u] = ticks[u]
  <1> USE DEF IInv
  <1>k. PICK k \in Kinds : k = ticks[t].kind
    BY DEF TypeOK, Frame
  <1> DEFINE s == slots[k]
  <1>1. /\ slots \in [Kinds -> Slot] /\ ticks \in [Ticker -> Frame] /\ clock \in Nat
        /\ ticks[t] \in Frame /\ s \in Slot
    BY DEF TypeOK
  <1>2. PICK result \in {"SUCCESS", "FAILED"} :
           slots' = [slots EXCEPT ![k] = Recorded(s, ticks[t], result)]
    BY <1>1, <1>k DEF FireReturns
  <1>3. /\ ticks[t].status = "firing" /\ clock' = clock
        /\ ticks' = [ticks EXCEPT ![t] = [ticks[t] EXCEPT !.status = "scanning"]]
    BY <1>1 DEF FireReturns
  <1>4. /\ ticks' \in [Ticker -> Frame] /\ ticks'[t].status = "scanning"
        /\ ticks'[t].now = ticks[t].now /\ ticks'[t].lastFired = ticks[t].lastFired
        /\ \A u \in Ticker \ {t} : ticks'[u] = ticks[u]
    <2> DEFINE f == [ticks[t] EXCEPT !.status = "scanning"]
    <2>1. f \in Frame
      BY <1>1 DEF Frame
    <2>2. f.status = "scanning" /\ f.now = ticks[t].now /\ f.lastFired = ticks[t].lastFired
      BY <1>1 DEF Frame
    <2> HIDE DEF f
    <2> QED BY <1>1, <1>3, <2>1, <2>2 DEF f
  <1> HIDE DEF s
  <1>5. s.executed + 1 \in Nat
    BY <1>1, SlotFields
  <1>6. Recorded(s, ticks[t], result) \in Slot
    <2>1. result \in Results /\ ticks[t].command \in Commands \cup {""}
      BY <1>1 DEF Results, Frame
    <2>2. [s EXCEPT !.executed = s.executed + 1, !.lastName = ticks[t].command,
                    !.lastResult = result] \in Slot
      BY <1>1, <1>5, <2>1 DEF Slot
    <2> QED BY <1>1, <2>2 DEF Recorded
  <1>7. /\ slots' \in [Kinds -> Slot]
        /\ slots'[k] = Recorded(s, ticks[t], result)
        /\ \A j \in Kinds \ {k} : slots'[j] = slots[j]
    BY <1>1, <1>2, <1>6
  <1>8. /\ slots'[k].plan = s.plan /\ slots'[k].state = s.state /\ slots'[k].base = s.base
        /\ slots'[k].position = s.position /\ slots'[k].skipped = s.skipped
        /\ slots'[k].generation = s.generation
        /\ s.generation = ticks[t].generation =>
              /\ slots'[k].executed = s.executed + 1 /\ slots'[k].lastName = ticks[t].command
              /\ slots'[k].lastResult = result
        /\ s.generation # ticks[t].generation => slots'[k] = s
    BY <1>1, <1>7 DEF Recorded, Slot
  <1> QED BY <1>k, <1>1, <1>3, <1>4, <1>7, <1>8 DEF s

\* A command that returns moves from "awaited" to "executed" in its own run,
\* and changes nothing when that run is over.
LEMMA FireReturnsInv ==
    ASSUME IInv, NEW t \in Ticker, FireReturns(t)
    PROVE  IInv'
  <1> USE DEF IInv
  <1>k. PICK k \in Kinds : k = ticks[t].kind
    BY DEF TypeOK, Frame
  <1> DEFINE s == slots[k]
  <1>1. /\ slots \in [Kinds -> Slot] /\ ticks \in [Ticker -> Frame] /\ clock \in Nat
        /\ ticks[t] \in Frame /\ s \in Slot
    BY DEF TypeOK
  <1>3. ticks[t].status = "firing" /\ clock' = clock
    BY FireReturnsEffect
  <1>4. /\ ticks' \in [Ticker -> Frame] /\ ticks'[t].status = "scanning"
        /\ \A u \in Ticker \ {t} : ticks'[u] = ticks[u]
    BY FireReturnsEffect
  <1> HIDE DEF s
  <1>5. s.position \in Nat /\ s.generation \in Nat /\ s.executed \in Nat /\ s.skipped \in Nat
    BY <1>1, SlotFields
  <1>7. slots' \in [Kinds -> Slot] /\ \A j \in Kinds \ {k} : slots'[j] = slots[j]
    BY <1>k, FireReturnsEffect
  <1>8. /\ slots'[k].plan = s.plan /\ slots'[k].state = s.state
        /\ slots'[k].position = s.position /\ slots'[k].skipped = s.skipped
        /\ slots'[k].generation = s.generation
        /\ s.generation = ticks[t].generation => slots'[k].executed = s.executed + 1
        /\ s.generation # ticks[t].generation => slots'[k] = s
    BY <1>k, FireReturnsEffect DEF s
  <1>9. \A j \in Kinds : /\ slots'[j].plan = slots[j].plan
                         /\ slots'[j].state = slots[j].state
                         /\ slots'[j].position = slots[j].position
                         /\ slots'[j].skipped = slots[j].skipped
                         /\ slots'[j].generation = slots[j].generation
    BY <1>7, <1>8 DEF s
  <1>10. TypeOK'
    <2>1. \A j \in Kinds : slots'[j].plan # NoPlan => slots'[j].plan.kind = j
      BY <1>9 DEF TypeOK
    <2> QED BY <1>1, <1>3, <1>4, <1>7, <2>1 DEF TypeOK
  <1>11. PlanOnBoard'
    BY <1>9 DEF PlanOnBoard
  <1>12. AwaitedRunsHaveBegun'
    <2> SUFFICES ASSUME NEW u \in Ticker, ticks'[u].status = "firing"
                 PROVE  ticks'[u].generation <= slots'[ticks'[u].kind].generation
      BY DEF AwaitedRunsHaveBegun
    <2>1. u # t /\ ticks'[u] = ticks[u]
      BY <1>4
    <2>2. ticks[u].kind \in Kinds
      BY <1>1 DEF Frame
    <2> QED BY <1>9, <2>1, <2>2 DEF AwaitedRunsHaveBegun
  <1>13. ASSUME NEW j \in Kinds, t \notin InFlight(j)
         PROVE  InFlight(j)' = InFlight(j)
    <2>1. ASSUME NEW u \in Ticker
          PROVE  (/\ ticks[u].status = "firing" /\ ticks[u].kind = j
                  /\ ticks[u].generation = slots[j].generation)
                 <=> (/\ ticks'[u].status = "firing" /\ ticks'[u].kind = j
                      /\ ticks'[u].generation = slots'[j].generation)
      BY <1>4, <1>9, <1>13, <2>1 DEF InFlight
    <2> QED BY <2>1 DEF InFlight
  <1>14. ASSUME s.generation = ticks[t].generation
         PROVE  InFlight(k)' = InFlight(k) \ {t} /\ t \in InFlight(k)
    <2>1. t \in InFlight(k)
      BY <1>k, <1>3, <1>14 DEF InFlight, s
    <2>2. t \notin InFlight(k)'
      BY <1>4 DEF InFlight
    <2>3. slots'[k].generation = slots[k].generation
      BY <1>1, <1>9
    <2>4. \A u \in Ticker \ {t} : u \in InFlight(k)' <=> u \in InFlight(k)
      BY <1>4, <2>3 DEF InFlight
    <2>5. InFlight(k) \subseteq Ticker /\ InFlight(k)' \subseteq Ticker
      BY DEF InFlight
    <2> QED BY <2>1, <2>2, <2>4, <2>5
  <1>15. Ledger'
    <2> SUFFICES ASSUME NEW j \in Kinds
                 PROVE  /\ slots'[j].executed + slots'[j].skipped + Cardinality(InFlight(j)')
                               = slots'[j].position
                        /\ slots'[j].position <= Total(slots'[j])
      BY DEF Ledger, Total
    <2>1. slots'[j].position <= Total(slots'[j])
      BY <1>9 DEF Ledger, Total
    <2>2. slots[j].executed + slots[j].skipped + Cardinality(InFlight(j)) = slots[j].position
      BY DEF Ledger
    <2>3. CASE t \in InFlight(j)
      <3>1. j = k /\ s.generation = ticks[t].generation
        BY <1>k, <2>3 DEF InFlight, s
      <3>2. Cardinality(InFlight(k)') = Cardinality(InFlight(k)) - 1
            /\ Cardinality(InFlight(k)) \in Nat
        BY <1>1, <1>14, <3>1, InFlightFinite, FS_RemoveElement
      <3>3. slots'[k].executed = s.executed + 1 /\ slots'[k].skipped = s.skipped
            /\ slots'[k].position = s.position
        BY <1>8, <3>1
      <3>4. s.executed + s.skipped + Cardinality(InFlight(k)) = s.position
        BY <2>2, <3>1 DEF s
      <3>5. slots'[k].executed + slots'[k].skipped + Cardinality(InFlight(k)') = slots'[k].position
        BY <1>5, <3>2, <3>3, <3>4
      <3> QED BY <2>1, <3>1, <3>5
    <2>4. CASE t \notin InFlight(j)
      <3>1. slots'[j] = slots[j]
        <4>1. CASE j # k
          BY <1>7, <4>1
        <4>2. CASE j = k
          BY <1>k, <1>3, <1>8, <2>4, <4>2 DEF InFlight, s
        <4> QED BY <4>1, <4>2
      <3>2. InFlight(j)' = InFlight(j)
        BY <1>13, <2>4
      <3> QED BY <2>1, <2>2, <3>1, <3>2
    <2> QED BY <2>3, <2>4
  <1>16. IdleSlotIsPristine'
    <2> SUFFICES ASSUME NEW j \in Kinds, slots[j].state \in {"IDLE", "LOADED", "ERROR"}
                 PROVE  slots'[j] = slots[j]
      BY <1>9 DEF IdleSlotIsPristine
    <2>1. slots[j] = [EmptySlot EXCEPT !.plan = slots[j].plan, !.state = slots[j].state,
                                      !.generation = slots[j].generation]
      BY DEF IdleSlotIsPristine
    <2>2. slots[j].executed = 0 /\ slots[j].skipped = 0 /\ slots[j].position = 0
      BY <2>1 DEF EmptySlot
    <2>3. Cardinality(InFlight(j)) = 0
      BY <2>2, InFlightFinite DEF Ledger
    <2>4. t \notin InFlight(j)
      BY <2>3, InFlightFinite, FS_EmptySet
    <2>5. CASE j # k
      BY <1>7, <2>5
    <2>6. CASE j = k
      BY <1>k, <1>3, <1>8, <2>4, <2>6 DEF InFlight, s
    <2> QED BY <2>5, <2>6
  <1>17. CompleteMeansDispatched'
    BY <1>9 DEF CompleteMeansDispatched, Total
  <1>18. (\A j \in Kinds : slots[j].state = "RUNNING" => slots[j].skipped < Total(slots[j]))'
    BY <1>9 DEF Total
  <1> QED BY <1>10, <1>11, <1>12, <1>15, <1>16, <1>17, <1>18

\* A call of tick() begins with nothing awaited.
LEMMA TickBeginInv ==
    ASSUME IInv, NEW t \in Ticker, TickBegin(t)
    PROVE  IInv'
  <1> USE DEF IInv
  <1>1. /\ slots' = slots /\ clock' = clock /\ slots \in [Kinds -> Slot] /\ clock \in Nat
        /\ ticks \in [Ticker -> Frame] /\ ticks[t].status = "idle"
        /\ ticks' = [ticks EXCEPT ![t] =
                        [IdleFrame EXCEPT !.status = "scanning", !.now = clock]]
    BY DEF TickBegin, TypeOK
  <1>2. [IdleFrame EXCEPT !.status = "scanning", !.now = clock] \in Frame
    BY <1>1 DEF IdleFrame, Frame, Kinds
  <1>3. [IdleFrame EXCEPT !.status = "scanning", !.now = clock].status = "scanning"
    BY DEF IdleFrame
  <1>4. /\ ticks' \in [Ticker -> Frame] /\ ticks'[t].status = "scanning"
        /\ \A u \in Ticker \ {t} : ticks'[u] = ticks[u]
    BY <1>1, <1>2, <1>3
  <1>5. \A j \in Kinds : InFlight(j)' = InFlight(j)
    BY <1>1, <1>4, SameAwaited
  <1>6. TypeOK'
    BY <1>1, <1>4 DEF TypeOK
  <1>7. AwaitedRunsHaveBegun'
    BY <1>1, <1>4 DEF AwaitedRunsHaveBegun
  <1>8. Ledger'
    BY <1>1, <1>5 DEF Ledger, Total
  <1>9. /\ PlanOnBoard' /\ IdleSlotIsPristine' /\ CompleteMeansDispatched'
        /\ (\A j \in Kinds : slots[j].state = "RUNNING" => slots[j].skipped < Total(slots[j]))'
    BY <1>1 DEF PlanOnBoard, IdleSlotIsPristine, CompleteMeansDispatched, Total
  <1> QED BY <1>6, <1>7, <1>8, <1>9

\* What the end of a tick may do to a slot: complete it, and nothing else.
LEMMA CompletedEffect ==
    ASSUME NEW s \in Slot, NEW now \in Nat
    PROVE  /\ Completed(s, now) \in Slot
           /\ Completed(s, now).plan = s.plan
           /\ Completed(s, now).position = s.position
           /\ Completed(s, now).executed = s.executed
           /\ Completed(s, now).skipped = s.skipped
           /\ Completed(s, now).generation = s.generation
           /\ Completed(s, now).base = s.base
           /\ Completed(s, now).lastName = s.lastName
           /\ Completed(s, now).lastResult = s.lastResult
           /\ \/ Completed(s, now) = s
              \/ s.state = "RUNNING" /\ Exhausted(s) /\ Completed(s, now).state = "COMPLETE"
  <1>1. Elapsed(s, now) \in Nat
    BY SlotFields DEF Elapsed
  <1>2. CASE s.state = "RUNNING" /\ Exhausted(s)
    <2> DEFINE e == Elapsed(s, now)
    <2>1. Completed(s, now) = [s EXCEPT !.state = "COMPLETE", !.finalElapsed = e]
      BY <1>2 DEF Completed
    <2> HIDE DEF e
    <2>2. e \in Nat
      BY <1>1 DEF e
    <2>3. [s EXCEPT !.state = "COMPLETE", !.finalElapsed = e] \in Slot
      BY <2>2 DEF Slot, States
    <2>4. /\ Completed(s, now).plan = s.plan
          /\ Completed(s, now).position = s.position
          /\ Completed(s, now).executed = s.executed
          /\ Completed(s, now).skipped = s.skipped
          /\ Completed(s, now).generation = s.generation
          /\ Completed(s, now).base = s.base
          /\ Completed(s, now).lastName = s.lastName
          /\ Completed(s, now).lastResult = s.lastResult
          /\ Completed(s, now).state = "COMPLETE"
      BY <2>1 DEF Slot
    <2> QED BY <1>2, <2>1, <2>3, <2>4
  <1>3. CASE ~(s.state = "RUNNING" /\ Exhausted(s))
    BY <1>3 DEF Completed
  <1> QED BY <1>2, <1>3

\* What the end of a tick does to the slots.
LEMMA TickEndEffect ==
    ASSUME TypeOK, NEW t \in Ticker, TickEnd(t)
    PROVE  /\ ticks[t].status = "scanning" /\ NextDue(ticks[t].now) = {} /\ clock' = clock
           /\ ticks' \in [Ticker -> Frame] /\ ticks'[t].status = "idle"
           /\ \A u \in Ticker \ {t} : ticks'[u] = ticks[u]
           /\ slots' \in [Kinds -> Slot]
           /\ \A j \in Kinds :
                 LET s == slots[j]
                     r == slots'[j]
                 IN  /\ r.plan = s.plan /\ r.base = s.base /\ r.generation = s.generation
                     /\ r.position = s.position /\ r.skipped = s.skipped
                     /\ r.executed = s.executed
                     /\ r.lastName = s.lastName /\ r.lastResult = s.lastResult
                     /\ \/ r = s
                        \/ s.state = "RUNNING" /\ Exhausted(s) /\ r.state = "COMPLETE"
  <1>1. /\ slots \in [Kinds -> Slot] /\ ticks \in [Ticker -> Frame]
        /\ clock' = clock /\ NextDue(ticks[t].now) = {}
        /\ ticks[t].status = "scanning" /\ ticks[t].now \in Nat
        /\ ticks' = [ticks EXCEPT ![t] = IdleFrame]
        /\ slots' = [k \in Kinds |-> Completed(slots[k], ticks[t].now)]
    <2>1. /\ slots \in [Kinds -> Slot] /\ ticks \in [Ticker -> Frame]
      BY DEF TypeOK
    <2>2. ticks[t].now \in Nat
      BY <2>1 DEF Frame
    <2> QED BY <2>1, <2>2 DEF TickEnd
  <1>2. IdleFrame \in Frame /\ IdleFrame.status = "idle"
    BY DEF IdleFrame, Frame, Kinds
  <1>3. /\ ticks' \in [Ticker -> Frame] /\ ticks'[t].status = "idle"
        /\ \A u \in Ticker \ {t} : ticks'[u] = ticks[u]
    BY <1>1, <1>2
  <1>4. \A j \in Kinds :
           /\ slots'[j] \in Slot
           /\ slots'[j].plan = slots[j].plan /\ slots'[j].base = slots[j].base
           /\ slots'[j].position = slots[j].position
           /\ slots'[j].executed = slots[j].executed
           /\ slots'[j].skipped = slots[j].skipped
           /\ slots'[j].generation = slots[j].generation
           /\ slots'[j].lastName = slots[j].lastName
           /\ slots'[j].lastResult = slots[j].lastResult
           /\ \/ slots'[j] = slots[j]
              \/ /\ slots[j].state = "RUNNING" /\ Exhausted(slots[j])
                 /\ slots'[j].state = "COMPLETE"
    BY <1>1, CompletedEffect
  <1>5. slots' \in [Kinds -> Slot]
    BY <1>1, <1>4
  <1> QED BY <1>1, <1>3, <1>4, <1>5

\* A call of tick() completes the slots that are exhausted.
LEMMA TickEndInv ==
    ASSUME IInv, NEW t \in Ticker, TickEnd(t)
    PROVE  IInv'
  <1> USE DEF IInv
  <1>1. slots \in [Kinds -> Slot] /\ clock \in Nat /\ clock' = clock /\ ticks \in [Ticker -> Frame]
    BY TickEndEffect DEF TypeOK
  <1>3. /\ ticks' \in [Ticker -> Frame] /\ ticks'[t].status = "idle"
        /\ ticks[t].status = "scanning"
        /\ \A u \in Ticker \ {t} : ticks'[u] = ticks[u]
    BY TickEndEffect
  <1>4. \A j \in Kinds :
           /\ slots'[j] \in Slot
           /\ slots'[j].plan = slots[j].plan
           /\ slots'[j].position = slots[j].position
           /\ slots'[j].executed = slots[j].executed
           /\ slots'[j].skipped = slots[j].skipped
           /\ slots'[j].generation = slots[j].generation
           /\ \/ slots'[j] = slots[j]
              \/ /\ slots[j].state = "RUNNING" /\ Exhausted(slots[j])
                 /\ slots'[j].state = "COMPLETE"
    BY TickEndEffect
  <1>5. \A j \in Kinds : InFlight(j)' = InFlight(j)
    BY <1>1, <1>3, <1>4, SameAwaited
  <1>6. TypeOK'
    <2>1. slots' \in [Kinds -> Slot]
      BY TickEndEffect
    <2>2. \A j \in Kinds : slots'[j].plan # NoPlan => slots'[j].plan.kind = j
      BY <1>4 DEF TypeOK
    <2> QED BY <1>1, <1>3, <2>1, <2>2 DEF TypeOK
  <1>7. AwaitedRunsHaveBegun'
    <2> SUFFICES ASSUME NEW u \in Ticker, ticks'[u].status = "firing"
                 PROVE  ticks'[u].generation <= slots'[ticks'[u].kind].generation
      BY DEF AwaitedRunsHaveBegun
    <2>1. ticks'[u] = ticks[u]
      BY <1>3
    <2>2. ticks[u].kind \in Kinds
      BY <1>1 DEF Frame
    <2> QED BY <1>4, <2>1, <2>2 DEF AwaitedRunsHaveBegun
  <1>8. Ledger'
    BY <1>4, <1>5 DEF Ledger, Total
  <1>9. PlanOnBoard'
    BY <1>4 DEF PlanOnBoard
  <1>10. IdleSlotIsPristine'
    BY ZenonT(60), <1>4 DEF IdleSlotIsPristine
  <1>11. CompleteMeansDispatched'
    <2> SUFFICES ASSUME NEW j \in Kinds, slots'[j].state = "COMPLETE"
                 PROVE  slots'[j].position = Total(slots'[j])
                        /\ slots'[j].skipped < slots'[j].position
      BY DEF CompleteMeansDispatched, Total
    <2>1. CASE slots'[j] = slots[j]
      BY <2>1 DEF CompleteMeansDispatched
    <2>2. CASE slots[j].state = "RUNNING" /\ Exhausted(slots[j])
      <3>1. Total(slots[j]) \in Nat /\ slots[j].position \in Nat /\ slots[j].skipped \in Nat
        BY <1>1, PlanEntries, SlotFields
      <3>2. slots[j].position = Total(slots[j])
        BY <2>2, <3>1 DEF Exhausted, Ledger
      <3>3. slots[j].skipped < Total(slots[j])
        BY <2>2
      <3> QED BY <1>4, <3>2, <3>3 DEF Total
    <2> QED BY <1>4, <2>1, <2>2
  <1>12. (\A j \in Kinds : slots[j].state = "RUNNING" => slots[j].skipped < Total(slots[j]))'
    BY <1>4 DEF Total
  <1> QED BY <1>6, <1>7, <1>8, <1>9, <1>10, <1>11, <1>12

\* Steps of the clock, and steps of nothing, leave slots and ticks alone.
LEMMA ClockInv ==
    ASSUME IInv, UNCHANGED <<slots, ticks>>, clock' \in Nat
    PROVE  IInv'
  BY DEF IInv, TypeOK, PlanOnBoard, AwaitedRunsHaveBegun, Ledger, InFlight, IdleSlotIsPristine,
         CompleteMeansDispatched, Total

\* Every step keeps the inductive invariant.
LEMMA NextInv == IInv /\ [Next]_vars => IInv'
  <1> SUFFICES ASSUME IInv, [Next]_vars PROVE IInv'
    OBVIOUS
  <1>1. TypeOK /\ PlanOnBoard
    BY DEF IInv
  <1>2. CASE Command
    BY <1>1, <1>2, CommandIsNewRun, NewRunInv
  <1>3. ASSUME NEW t \in Ticker, TickStep(t)
        PROVE  IInv'
    BY <1>3, TickBeginInv, FireInv, FireReturnsInv, TickEndInv DEF TickStep
  <1>4. CASE ClockAdvances
    BY <1>1, <1>4, ClockInv DEF ClockAdvances, TypeOK
  <1>5. CASE ClockStepsBack
    BY <1>1, <1>5, ClockInv DEF ClockStepsBack, TypeOK
  <1>6. CASE UNCHANGED vars
    BY <1>1, <1>6, ClockInv DEF vars, TypeOK
  <1> QED BY <1>2, <1>3, <1>4, <1>5, <1>6 DEF Next

-----------------------------------------------------------------------------
\* The inductive invariant holds in every execution of the sequencer.
THEOREM Invariance == Spec => []IInv
  BY InitInv, NextInv, PTL DEF Spec

\* The variables of the sequencer keep their types: in particular no counter
\* of the status packets is ever negative.
THEOREM TypeCorrect == Spec => []TypeOK
  <1>1. IInv => TypeOK
    BY DEF IInv
  <1> QED BY <1>1, Invariance, PTL

\* Every entry a run has passed is executed, skipped or awaited, and counted
\* once, however the commands it fires interfere with its own slot.
THEOREM LedgerHolds == Spec => []Ledger
  <1>1. IInv => Ledger
    BY DEF IInv
  <1> QED BY <1>1, Invariance, PTL

\* A slot that is not in a run shows nothing of an earlier one.
THEOREM IdleSlotsArePristine == Spec => []IdleSlotIsPristine
  <1>1. IInv => IdleSlotIsPristine
    BY DEF IInv
  <1> QED BY <1>1, Invariance, PTL

\* A slot is COMPLETE only when its whole plan was dispatched or skipped, and
\* not all of it skipped.
THEOREM CompleteIsHonest == Spec => []CompleteMeansDispatched
  <1>1. IInv => CompleteMeansDispatched
    BY DEF IInv
  <1> QED BY <1>1, Invariance, PTL

-----------------------------------------------------------------------------
(***************************************************************************)
(* The refinement: every step of the sequencer is, seen from either slot,  *)
(* a step of SlotPromise or none.  PromiseStep(k) says so in the terms of  *)
(* the slot, one disjunct for each action of SlotPromise.                  *)
(***************************************************************************)
PromiseStep(k) ==
    LET s == slots[k]
        r == slots'[k]
        Same == r.plan = s.plan /\ r.skipped = s.skipped
        Closed == r.skipped = 0 /\ r.position = 0
    IN  \/ Same /\ r.position = s.position /\ Phase(r) = Phase(s)
        \/ Phase(s) # "running" /\ Phase(r) = "ready" /\ r.plan # NoPlan /\ Closed
        \/ Phase(r) = "empty" /\ r.plan = NoPlan /\ Closed
        \/ /\ Phase(s) \in {"ready", "done"} /\ Phase(r) = "running" /\ r.plan = s.plan
           /\ r.skipped \in 0..(Len(s.plan.entries) - 1) /\ r.position = r.skipped
        \/ /\ Same /\ Phase(s) = "running" /\ Phase(r) = "running"
           /\ s.position < Len(s.plan.entries) /\ r.position = s.position + 1
        \/ /\ Same /\ Phase(s) = "running" /\ Phase(r) = "done"
           /\ s.position = Len(s.plan.entries) /\ r.position = s.position
        \/ Phase(s) = "running" /\ Phase(r) = "ready" /\ r.plan = s.plan /\ Closed

\* A command opens, halts or discards a window of the promise.
LEMMA NewRunPromise ==
    ASSUME IInv, NEW j \in Kinds, NEW k \in Kinds, NewRun(j)
    PROVE  PromiseStep(k)
  <1>1. CASE k # j
    <2>1. slots'[k] = slots[k]
      BY <1>1 DEF NewRun
    <2> QED BY <2>1 DEF PromiseStep
  <1>2. CASE k = j
    <2> DEFINE s == slots[k]
               r == slots'[k]
    <2>1. s \in Slot /\ r \in Slot
      BY <1>2 DEF NewRun, IInv, TypeOK
    <2>2. s.state \in States /\ r.skipped \in Nat /\ Total(s) \in Nat
      BY <2>1, SlotFields, PlanEntries
    <2>3. /\ r.position = r.skipped
          /\ r.plan = NoPlan <=> r.state \in {"IDLE", "ERROR"}
          /\ \/ /\ r.state \in {"IDLE", "LOADED", "ERROR"} /\ r.skipped = 0
                /\ r.state = "LOADED" => s.state # "RUNNING" \/ r.plan = s.plan
             \/ /\ r.state = "RUNNING" /\ r.skipped < Total(r)
                /\ s.state \in {"LOADED", "COMPLETE"} /\ r.plan = s.plan
      BY <1>2 DEF NewRun
    <2> HIDE DEF s, r
    <2>4. CASE r.state \in {"IDLE", "ERROR"}
      BY <2>3, <2>4 DEF PromiseStep, Phase, s, r
    <2>5. CASE r.state = "LOADED" /\ s.state # "RUNNING"
      <3>1. Phase(s) # "running" /\ Phase(r) = "ready"
        BY <2>2, <2>5 DEF Phase, States
      <3> QED BY <2>3, <2>5, <3>1 DEF PromiseStep, s, r
    <2>6. CASE r.state = "LOADED" /\ s.state = "RUNNING"
      <3>1. Phase(s) = "running" /\ Phase(r) = "ready"
        BY <2>6 DEF Phase
      <3> QED BY <2>3, <2>6, <3>1 DEF PromiseStep, s, r
    <2>7. CASE r.state = "RUNNING"
      <3>1. Phase(s) \in {"ready", "done"} /\ Phase(r) = "running" /\ r.plan = s.plan
        BY <2>3, <2>7 DEF Phase
      <3>2. r.skipped \in 0..(Len(s.plan.entries) - 1) /\ r.position = r.skipped
        BY <2>2, <2>3, <2>7 DEF Total
      <3> QED BY <3>1, <3>2 DEF PromiseStep, s, r
    <2> QED BY <2>3, <2>4, <2>5, <2>6, <2>7
  <1> QED BY <1>1, <1>2

\* A claimed entry is dispatched as promised.
LEMMA FirePromise ==
    ASSUME IInv, NEW t \in Ticker, NEW j \in Kinds, NEW k \in Kinds, Fire(t, j)
    PROVE  PromiseStep(k)
  <1>1. slots \in [Kinds -> Slot] /\ slots[k] \in Slot
    BY DEF IInv, TypeOK
  <1>2. CASE k # j
    <2>1. slots'[k] = slots[k]
      BY <1>1, <1>2 DEF Fire
    <2> QED BY <2>1 DEF PromiseStep
  <1>3. CASE k = j
    <2>1. slots'[k] = [slots[k] EXCEPT !.position = slots[k].position + 1]
      BY <1>1, <1>3 DEF Fire
    <2>2. Pending(slots[k])
      BY <1>3 DEF Fire, NextDue, IsDue
    <2>3. slots[k].state = "RUNNING" /\ slots[k].plan # NoPlan
      BY <2>2 DEF Pending, IInv, PlanOnBoard
    <2>4. slots[k].position + 1 \in 1..Total(slots[k]) /\ slots[k].position \in Nat
          /\ Total(slots[k]) \in Nat
      BY <1>1, <2>2, <2>3, PendingHasNext, SlotFields, PlanEntries
    <2>5. /\ slots'[k].plan = slots[k].plan /\ slots'[k].skipped = slots[k].skipped
          /\ slots'[k].state = "RUNNING" /\ slots'[k].position = slots[k].position + 1
      BY <1>1, <2>1, <2>3 DEF Slot
    <2>6. Phase(slots[k]) = "running" /\ Phase(slots'[k]) = "running"
      BY <2>3, <2>5 DEF Phase
    <2>7. slots[k].position < Len(slots[k].plan.entries)
      BY <2>4 DEF Total
    <2> QED BY <2>5, <2>6, <2>7 DEF PromiseStep
  <1> QED BY <1>2, <1>3

\* The record of a fired command is no part of the promise.
LEMMA FireReturnsPromise ==
    ASSUME IInv, NEW t \in Ticker, NEW k \in Kinds, FireReturns(t)
    PROVE  PromiseStep(k)
  <1>1. slots \in [Kinds -> Slot] /\ slots[k] \in Slot
    BY DEF IInv, TypeOK
  <1>2. PICK result \in {"SUCCESS", "FAILED"} :
           slots' = [slots EXCEPT ![ticks[t].kind] =
                        Recorded(slots[ticks[t].kind], ticks[t], result)]
    BY DEF FireReturns
  <1>3. slots'[k] = slots[k] \/ slots'[k] = Recorded(slots[k], ticks[t], result)
    BY <1>1, <1>2
  <1>4. /\ slots'[k].plan = slots[k].plan /\ slots'[k].skipped = slots[k].skipped
        /\ slots'[k].state = slots[k].state /\ slots'[k].position = slots[k].position
    BY <1>1, <1>3 DEF Recorded, Slot
  <1> QED BY <1>4 DEF PromiseStep, Phase

\* A slot that completes has finished its window.
LEMMA TickEndPromise ==
    ASSUME IInv, NEW t \in Ticker, NEW k \in Kinds, TickEnd(t)
    PROVE  PromiseStep(k)
  <1>1. slots[k] \in Slot /\ ticks[t].now \in Nat
    BY DEF IInv, TypeOK, Frame
  <1>2. slots'[k] = Completed(slots[k], ticks[t].now)
    BY DEF TickEnd
  <1>3. /\ slots'[k].plan = slots[k].plan /\ slots'[k].position = slots[k].position
        /\ slots'[k].skipped = slots[k].skipped
        /\ \/ slots'[k] = slots[k]
           \/ /\ slots[k].state = "RUNNING" /\ Exhausted(slots[k])
              /\ slots'[k].state = "COMPLETE"
    BY <1>1, <1>2, CompletedEffect
  <1>4. CASE slots'[k] = slots[k]
    BY <1>4 DEF PromiseStep
  <1>5. CASE slots[k].state = "RUNNING" /\ Exhausted(slots[k]) /\ slots'[k].state = "COMPLETE"
    <2>1. Phase(slots[k]) = "running" /\ Phase(slots'[k]) = "done"
      BY <1>5 DEF Phase
    <2>2. Total(slots[k]) \in Nat /\ slots[k].position \in Nat
      BY <1>1, PlanEntries, SlotFields
    <2>3. slots[k].position = Len(slots[k].plan.entries)
      BY <1>5, <2>2 DEF Exhausted, IInv, Ledger, Total
    <2> QED BY <1>3, <2>1, <2>3 DEF PromiseStep
  <1> QED BY <1>3, <1>4, <1>5

\* Every step of the sequencer is a step of the promise, or none.
LEMMA NextPromise ==
    ASSUME IInv, [Next]_vars, NEW k \in Kinds
    PROVE  PromiseStep(k)
  <1>1. CASE Command
    BY <1>1, CommandIsNewRun, NewRunPromise DEF IInv
  <1>2. ASSUME NEW t \in Ticker, TickStep(t)
        PROVE  PromiseStep(k)
    <2>1. CASE TickBegin(t)
      BY <2>1 DEF TickBegin, PromiseStep
    <2> QED BY <1>2, <2>1, FirePromise, FireReturnsPromise, TickEndPromise DEF TickStep
  <1>3. CASE UNCHANGED slots
    BY <1>3 DEF PromiseStep
  <1> QED BY <1>1, <1>2, <1>3 DEF Next, ClockAdvances, ClockStepsBack, vars

\* A pristine slot has promised nothing.
LEMMA InitPromise == Init => AtsPromise!Init /\ RtsPromise!Init
  <1>1. /\ EmptySlot.plan = NoPlan /\ Phase(EmptySlot) = "empty"
        /\ EmptySlot.skipped = 0 /\ EmptySlot.position = 0
    BY DEF EmptySlot, Phase
  <1> QED BY <1>1 DEF Init, Kinds, AtsPromise!Init, RtsPromise!Init

\* Each slot dispatches its plan in order, every entry at most once in a run,
\* until it is done, halted or discarded (SlotPromise).
THEOREM SlotsKeepTheirPromise == Spec => KeepsPromise
  <1>1. IInv /\ [Next]_vars => [AtsPromise!Next]_AtsPromise!vars
    <2> SUFFICES ASSUME IInv, [Next]_vars
                 PROVE  [AtsPromise!Next]_AtsPromise!vars
      OBVIOUS
    <2>1. PromiseStep("ats")
      BY NextPromise DEF Kinds
    <2> QED BY <2>1 DEF PromiseStep, AtsPromise!Next, AtsPromise!vars, AtsPromise!Install,
               AtsPromise!Discard, AtsPromise!Open, AtsPromise!Dispatch, AtsPromise!Finish,
               AtsPromise!Halt, AtsPromise!Close
  <1>2. IInv /\ [Next]_vars => [RtsPromise!Next]_RtsPromise!vars
    <2> SUFFICES ASSUME IInv, [Next]_vars
                 PROVE  [RtsPromise!Next]_RtsPromise!vars
      OBVIOUS
    <2>1. PromiseStep("rts")
      BY NextPromise DEF Kinds
    <2> QED BY <2>1 DEF PromiseStep, RtsPromise!Next, RtsPromise!vars, RtsPromise!Install,
               RtsPromise!Discard, RtsPromise!Open, RtsPromise!Dispatch, RtsPromise!Finish,
               RtsPromise!Halt, RtsPromise!Close
  <1> QED BY <1>1, <1>2, InitPromise, Invariance, PTL
          DEF Spec, KeepsPromise, AtsPromise!Spec, RtsPromise!Spec
-----------------------------------------------------------------------------
(***************************************************************************)
(* A run is stable, and records and skips of it are its own.               *)
(***************************************************************************)
\* What a step makes of slot k when it is not a command for it.
Proceeds(k) ==
    LET s == slots[k]
        r == slots'[k]
    IN  /\ r.generation = s.generation /\ r.plan = s.plan /\ r.base = s.base
        /\ r.skipped = s.skipped
        /\ \/ r.state = s.state
           \/ s.state = "RUNNING" /\ r.state = "COMPLETE"

\* A step gives a slot a new run or lets it proceed by one entry at most.
LEMMA NextStepsSlot ==
    ASSUME IInv, [Next]_vars, NEW k \in Kinds
    PROVE  /\ slots[k] \in Slot /\ slots'[k] \in Slot
           /\ \/ NewRun(k)
              \/ /\ Proceeds(k)
                 /\ slots'[k].position - slots[k].position \in {0, 1}
                 /\ slots'[k].executed - slots[k].executed \in {0, 1}
  <1> DEFINE Small == /\ slots'[k].position - slots[k].position \in {0, 1}
                      /\ slots'[k].executed - slots[k].executed \in {0, 1}
  <1>1. slots[k] \in Slot /\ slots[k].position \in Nat /\ slots[k].executed \in Nat
    BY SlotFields DEF IInv, TypeOK
  <1>2. slots'[k] \in Slot
    BY NextInv DEF IInv, TypeOK
  <1>3. CASE slots'[k] = slots[k]
    BY <1>1, <1>2, <1>3 DEF Proceeds
  <1>4. ASSUME Command, slots'[k] # slots[k]
        PROVE  NewRun(k)
    BY <1>4, CommandIsNewRun DEF NewRun, IInv
  <1>5. ASSUME NEW t \in Ticker, TickStep(t), slots'[k] # slots[k]
        PROVE  Proceeds(k) /\ Small
    <2>1. CASE TickBegin(t)
      BY <1>5, <2>1 DEF TickBegin
    <2>2. ASSUME NEW j \in Kinds, Fire(t, j)
          PROVE  Proceeds(k) /\ Small
      <3>1. j = k
        BY <1>5, <2>2, FireEffect
      <3> QED BY <1>1, <2>2, <3>1, FireEffect DEF Proceeds
    <2>3. CASE FireReturns(t)
      <3>1. k = ticks[t].kind /\ slots[k].generation = ticks[t].generation
        BY <1>5, <2>3, FireReturnsEffect
      <3> QED BY <1>1, <2>3, <3>1, FireReturnsEffect DEF Proceeds
    <2>4. CASE TickEnd(t)
      <3>1. TypeOK
        BY DEF IInv
      <3> QED BY <1>1, <1>5, <2>4, <3>1, TickEndEffect DEF Proceeds
    <2> QED BY <1>5, <2>1, <2>2, <2>3, <2>4 DEF TickStep
  <1> QED BY <1>1, <1>2, <1>3, <1>4, <1>5 DEF Next, ClockAdvances, ClockStepsBack, vars

\* While a run lasts, its plan, its base and its window stand, it goes forward
\* by single steps, and it ends as COMPLETE or under another number.
THEOREM RunsAreStable == Spec => RunIsStable
  <1> DEFINE Stable ==
          \A k \in Kinds :
             slots'[k].generation = slots[k].generation =>
               /\ slots'[k].plan = slots[k].plan
               /\ slots'[k].base = slots[k].base
               /\ slots'[k].skipped = slots[k].skipped
               /\ slots'[k].position - slots[k].position \in {0, 1}
               /\ slots'[k].executed - slots[k].executed \in {0, 1}
               /\ \/ slots'[k].state = slots[k].state
                  \/ slots[k].state = "RUNNING" /\ slots'[k].state = "COMPLETE"
  <1>1. IInv /\ [Next]_vars => [Stable]_vars
    <2> SUFFICES ASSUME IInv, [Next]_vars, NEW k \in Kinds,
                        slots'[k].generation = slots[k].generation
                 PROVE  Proceeds(k) /\ slots'[k].position - slots[k].position \in {0, 1}
                        /\ slots'[k].executed - slots[k].executed \in {0, 1}
      BY DEF Proceeds
    <2>1. slots[k].generation \in Nat
      BY NextStepsSlot, SlotFields
    <2>2. ~NewRun(k)
      BY <2>1 DEF NewRun
    <2> QED BY <2>2, NextStepsSlot
  <1> QED BY <1>1, Invariance, PTL DEF Spec, RunIsStable

-----------------------------------------------------------------------------
\* A plan is in the order of its times.
LEMMA PlanIsSorted ==
    ASSUME NEW s \in Slot, NEW i \in 1..Total(s), NEW j \in 1..Total(s), i <= j
    PROVE  /\ s.plan.entries[i].time \in Nat /\ s.plan.entries[j].time \in Nat
           /\ s.plan.entries[i].time <= s.plan.entries[j].time
  <1>1. s.plan.entries \in Seq(Entry) /\ Total(s) \in Nat /\ s.plan # NoPlan /\ s.plan \in Plans
    BY PlanEntries
  <1>2. s.plan.entries[i] \in Entry /\ s.plan.entries[j] \in Entry
    BY <1>1 DEF Total
  <1>3. i < j => s.plan.entries[i].time <= s.plan.entries[j].time
    BY <1>1, PlansAssumption DEF Total
  <1> QED BY <1>2, <1>3 DEF Entry

\* As a plan is sorted, its past entries are its first ones.
LEMMA PastIsAPrefix ==
    ASSUME NEW s \in Slot, NEW now \in Nat, NEW i \in 1..Total(s)
    PROVE  i <= PastCount(s.plan, now) <=> s.plan.entries[i].time < now
  <1> DEFINE Past == {j \in 1..Len(s.plan.entries) : s.plan.entries[j].time < now}
  <1>1. Total(s) \in Nat /\ Total(s) = Len(s.plan.entries)
    BY PlanEntries DEF Total
  <1>2. Past \in SUBSET (1..Total(s)) /\ IsFiniteSet(Past) /\ Cardinality(Past) \in Nat
    <2>1. IsFiniteSet(1..Total(s))
      BY <1>1, FS_Interval
    <2>2. Past \in SUBSET (1..Total(s))
      BY <1>1
    <2> QED BY <2>1, <2>2, FS_Subset, FS_CardinalityType
  <1>3. PastCount(s.plan, now) = Cardinality(Past)
    BY DEF PastCount
  <1>4. \A j \in 1..Total(s) : j \in Past <=> s.plan.entries[j].time < now
    BY <1>1
  <1> HIDE DEF Past
  <1>5. ASSUME s.plan.entries[i].time < now
        PROVE  i <= Cardinality(Past)
    <2>1. \A j \in 1..i : j \in 1..Total(s) /\ s.plan.entries[j].time < now
      BY <1>1, <1>5, PlanIsSorted
    <2>2. 1..i \in SUBSET Past
      BY <1>4, <2>1
    <2>3. Cardinality(1..i) = i
      BY FS_Interval
    <2> QED BY <1>2, <2>2, <2>3, FS_Subset
  <1>6. ASSUME ~(s.plan.entries[i].time < now)
        PROVE  Cardinality(Past) < i
    <2>1. \A j \in 1..Total(s) : j >= i => ~(s.plan.entries[j].time < now)
      BY <1>1, <1>6, PlanIsSorted
    <2>2. Past \in SUBSET (1..(i - 1))
      BY <1>2, <1>4, <2>1
    <2>3. IsFiniteSet(1..(i - 1)) /\ Cardinality(1..(i - 1)) = i - 1
      BY FS_Interval
    <2>4. Cardinality(Past) <= i - 1
      BY <2>2, <2>3, FS_Subset
    <2> QED BY <1>2, <2>4
  <1> QED BY <1>2, <1>3, <1>5, <1>6

\* START passes over the past entries of an ATS and over nothing of an RTS.
LEMMA StartSkipsThePast ==
    ASSUME TypeOK, NEW k \in Kinds, Start(k)
    PROVE  LET r == slots'[k]
           IN  /\ r.base = clock /\ r.plan = slots[k].plan
               /\ r.executed = 0 /\ r.lastName = "" /\ r.lastResult = "PENDING"
               /\ \A i \in 1..Total(r) :
                     i <= r.skipped <=> r.plan.kind = "ats" /\ r.plan.entries[i].time < r.base
  <1> DEFINE s == slots[k]
             n == SkipCount(s)
             r == slots'[k]
  <1>1. slots \in [Kinds -> Slot] /\ s \in Slot /\ clock \in Nat
    BY DEF TypeOK
  <1>2. r = [Fresh(s, s.plan, "RUNNING") EXCEPT !.base = clock, !.position = n, !.skipped = n]
    BY <1>1 DEF Start, Started
  <1>3. /\ r.base = clock /\ r.plan = s.plan /\ r.skipped = n
        /\ r.executed = 0 /\ r.lastName = "" /\ r.lastResult = "PENDING"
    BY <1>2 DEF Fresh, EmptySlot
  <1>4. n = IF s.plan.kind = "ats" THEN PastCount(s.plan, clock) ELSE 0
    BY DEF SkipCount
  <1> HIDE DEF s, n, r
  <1>5. ASSUME NEW i \in 1..Total(s)
        PROVE  i <= n <=> s.plan.kind = "ats" /\ s.plan.entries[i].time < clock
    <2>1. i \in Nat /\ i > 0
      BY <1>1, PlanEntries
    <2> QED BY <1>1, <1>4, <2>1, PastIsAPrefix
  <1> QED BY <1>3, <1>5 DEF Total, r, s

\* A run that a command begins and that is in motion was begun by START.
LEMMA RunningMeansStarted ==
    ASSUME TypeOK, PlanOnBoard, Command, NEW k \in Kinds, slots'[k] # slots[k],
           slots'[k].state \in {"RUNNING", "COMPLETE"}
    PROVE  Start(k)
  <1>1. slots \in [Kinds -> Slot]
    BY DEF TypeOK
  <1>2. \A p, st : Fresh(slots[k], p, st).state = st
    BY DEF Fresh, EmptySlot
  <1>3. ASSUME NEW p \in Plans, Load(p)
        PROVE  FALSE
    <2>1. p.kind \in Kinds /\ slots' = [slots EXCEPT ![p.kind] = Fresh(slots[p.kind], p, "LOADED")]
      BY <1>3, PlansAssumption DEF Load
    <2>2. slots'[k] = Fresh(slots[k], p, "LOADED")
      BY <1>1, <2>1
    <2> QED BY <1>2, <2>2
  <1>4. ASSUME NEW j \in Kinds, LoadFailed(j) \/ Stop(j) \/ Abort(j)
        PROVE  FALSE
    <2>1. PICK p \in Plans \cup {NoPlan}, st \in {"IDLE", "ERROR", "LOADED"} :
             slots' = [slots EXCEPT ![j] = Fresh(slots[j], p, st)]
      BY <1>4, SlotFields DEF LoadFailed, Stop, Abort, TypeOK
    <2>2. slots'[k] = Fresh(slots[k], p, st)
      BY <1>1, <2>1
    <2> QED BY <1>2, <2>2
  <1>5. ASSUME NEW j \in Kinds, Start(j)
        PROVE  j = k
    BY <1>1, <1>5 DEF Start, Started
  <1> QED BY <1>3, <1>4, <1>5 DEF Command

-----------------------------------------------------------------------------
(***************************************************************************)
(* The window of a run and its records: RunInv.                            *)
(***************************************************************************)
LEMMA InitRunInv == Init => RunInv
  <1> SUFFICES ASSUME Init PROVE RunInv
    OBVIOUS
  <1>1. /\ EmptySlot.state = "IDLE" /\ EmptySlot.executed = 0
        /\ EmptySlot.lastName = "" /\ EmptySlot.lastResult = "PENDING"
    BY DEF EmptySlot
  <1>2. \A k \in Kinds : slots[k] = EmptySlot
    BY DEF Init
  <1>3. \A t \in Ticker : ticks[t].status = "idle"
    BY DEF Init, IdleFrame
  <1>4. AwaitedIsDispatched
    <2>1. \A k \in Kinds : InFlight(k) = {}
      BY <1>3 DEF InFlight
    <2> QED BY <2>1 DEF AwaitedIsDispatched
  <1>5. SkipsExactlyThePast
    BY <1>1, <1>2 DEF SkipsExactlyThePast
  <1>6. LastRecordIsOfThisRun
    <2>1. ~(0 > 0)
      OBVIOUS
    <2>2. \A k \in Kinds : /\ slots[k].executed = 0 /\ ~(slots[k].executed > 0)
                           /\ slots[k].lastResult = "PENDING" /\ slots[k].lastName = ""
      BY <1>1, <1>2, <2>1, Zenon
    <2> QED BY <2>2, Zenon DEF LastRecordIsOfThisRun
  <1> QED BY <1>4, <1>5, <1>6 DEF RunInv

\* A command that begins a run leaves it with its window and without records.
LEMMA CommandRunInv ==
    ASSUME IInv, RunInv, Command
    PROVE  RunInv'
  <1>1. PICK k \in Kinds : NewRun(k)
    BY CommandIsNewRun DEF IInv
  <1>2. /\ \A j \in Kinds \ {k} : slots'[j] = slots[j]
        /\ ticks' = ticks
        /\ slots'[k] # slots[k]
    <2>1. slots[k].generation \in Nat
      BY SlotFields DEF IInv, TypeOK
    <2> QED BY <1>1, <2>1 DEF NewRun
  <1>3. InFlight(k)' = {} /\ \A j \in Kinds \ {k} : InFlight(j)' = InFlight(j)
    BY <1>1, NewRunAwaitsNothing DEF IInv
  <1>4. SkipsExactlyThePast'
    <2> SUFFICES ASSUME NEW j \in Kinds, slots'[j].state \in {"RUNNING", "COMPLETE"},
                        NEW i \in 1..Total(slots'[j])
                 PROVE  i <= slots'[j].skipped <=>
                           slots'[j].plan.kind = "ats"
                           /\ slots'[j].plan.entries[i].time < slots'[j].base
      BY DEF SkipsExactlyThePast, Total
    <2>1. CASE j = k
      <3>1. Start(k)
        BY <1>2, <2>1, RunningMeansStarted DEF IInv
      <3> QED BY <2>1, <3>1, StartSkipsThePast DEF IInv
    <2>2. CASE j # k
      BY <1>2, <2>2 DEF RunInv, SkipsExactlyThePast
    <2> QED BY <2>1, <2>2
  <1>5. AwaitedIsDispatched'
    <2>1. AwaitedIsDispatched
      BY DEF RunInv
    <2> SUFFICES ASSUME NEW j \in Kinds, NEW t \in InFlight(j)'
                 PROVE  \E i \in (slots'[j].skipped + 1)..slots'[j].position :
                           slots'[j].plan.entries[i].command = ticks'[t].command
      BY DEF AwaitedIsDispatched
    <2>2. j # k /\ t \in InFlight(j)
      BY <1>3
    <2> QED BY <1>2, <2>1, <2>2 DEF AwaitedIsDispatched
  <1>6. LastRecordIsOfThisRun'
    <2>1. slots'[k].executed = 0 /\ slots'[k].lastName = "" /\ slots'[k].lastResult = "PENDING"
      <3>1. CASE slots'[k].state = "RUNNING"
        <4>1. Start(k)
          BY <1>2, <3>1, RunningMeansStarted DEF IInv
        <4> QED BY <4>1, StartSkipsThePast DEF IInv
      <3>2. CASE slots'[k] = [EmptySlot EXCEPT !.plan = slots'[k].plan, !.state = slots'[k].state,
                                               !.generation = slots'[k].generation]
        BY <3>2 DEF EmptySlot
      <3> QED BY <1>1, <3>1, <3>2 DEF NewRun
    <2> SUFFICES ASSUME NEW j \in Kinds
                 PROVE  /\ slots'[j].executed = 0 <=> slots'[j].lastResult = "PENDING"
                        /\ slots'[j].executed = 0 <=> slots'[j].lastName = ""
                        /\ slots'[j].executed > 0 =>
                              \E i \in (slots'[j].skipped + 1)..slots'[j].position :
                                 slots'[j].plan.entries[i].command = slots'[j].lastName
      BY DEF LastRecordIsOfThisRun
    <2>2. CASE j # k
      <3>1. slots'[j] = slots[j]
        BY <1>2, <2>2
      <3> QED BY <3>1 DEF RunInv, LastRecordIsOfThisRun
    <2>3. CASE j = k
      <3>1. ~(0 > 0)
        OBVIOUS
      <3> QED BY <2>1, <2>3, <3>1, Zenon
    <2> QED BY <2>2, <2>3
  <1> QED BY <1>4, <1>5, <1>6 DEF RunInv

\* Claiming an entry adds it to what the run dispatched and now awaits.
LEMMA FireRunInv ==
    ASSUME IInv, RunInv, NEW t \in Ticker, NEW k \in Kinds, Fire(t, k)
    PROVE  RunInv'
  <1> DEFINE s == slots[k]
             r == slots'[k]
  <1>1. /\ s \in Slot /\ s.state = "RUNNING"
        /\ r.position = s.position + 1 /\ r.plan = s.plan /\ r.state = "RUNNING"
        /\ r.base = s.base /\ r.executed = s.executed /\ r.skipped = s.skipped
        /\ r.lastName = s.lastName /\ r.lastResult = s.lastResult /\ r.generation = s.generation
        /\ \A j \in Kinds \ {k} : slots'[j] = slots[j]
    BY FireEffect
  <1>2. /\ ticks[t].status = "scanning" /\ ticks'[t].kind = k
        /\ ticks'[t].command = s.plan.entries[s.position + 1].command
        /\ \A u \in Ticker \ {t} : ticks'[u] = ticks[u]
    BY FireEffect
  <1>3. s.position \in Nat /\ s.skipped \in Nat /\ s.skipped <= s.position
    <2>1. s.position \in Nat /\ s.skipped \in Nat /\ s.executed \in Nat
      BY <1>1, SlotFields
    <2>2. s.executed + s.skipped + Cardinality(InFlight(k)) = s.position
          /\ Cardinality(InFlight(k)) \in Nat
      BY InFlightFinite DEF IInv, Ledger
    <2> QED BY <2>1, <2>2
  <1> HIDE DEF s, r
  <1>4. SkipsExactlyThePast'
    BY <1>1 DEF RunInv, SkipsExactlyThePast, Total, s, r
  <1>5. AwaitedIsDispatched'
    <2> SUFFICES ASSUME NEW j \in Kinds, NEW u \in Ticker, ticks'[u].status = "firing",
                        ticks'[u].kind = j, ticks'[u].generation = slots'[j].generation
                 PROVE  \E i \in (slots'[j].skipped + 1)..slots'[j].position :
                           slots'[j].plan.entries[i].command = ticks'[u].command
      BY DEF AwaitedIsDispatched, InFlight
    <2>1. CASE u = t
      <3>1. j = k
        BY <1>2, <2>1
      <3>2. s.position + 1 \in (r.skipped + 1)..r.position
        BY <1>1, <1>3
      <3>3. r.plan.entries[s.position + 1].command = ticks'[u].command
        BY <1>1, <1>2, <2>1
      <3> QED BY <3>1, <3>2, <3>3 DEF r
    <2>2. CASE u # t
      <3>1. slots'[j].generation = slots[j].generation /\ slots'[j].plan = slots[j].plan
            /\ slots'[j].skipped = slots[j].skipped
        BY <1>1 DEF s, r
      <3>2. u \in InFlight(j) /\ ticks'[u] = ticks[u]
        BY <1>2, <2>2, <3>1 DEF InFlight
      <3>3. PICK i \in (slots[j].skipped + 1)..slots[j].position :
               slots[j].plan.entries[i].command = ticks[u].command
        BY <3>2 DEF RunInv, AwaitedIsDispatched
      <3>4. i \in (slots'[j].skipped + 1)..slots'[j].position
        BY <1>1, <1>3, <3>1, <3>3 DEF s, r
      <3> QED BY <3>1, <3>2, <3>3, <3>4
    <2> QED BY <2>1, <2>2
  <1>6. LastRecordIsOfThisRun'
    <2> SUFFICES ASSUME NEW j \in Kinds
                 PROVE  /\ slots'[j].executed = 0 <=> slots'[j].lastResult = "PENDING"
                        /\ slots'[j].executed = 0 <=> slots'[j].lastName = ""
                        /\ slots'[j].executed > 0 =>
                              \E i \in (slots'[j].skipped + 1)..slots'[j].position :
                                 slots'[j].plan.entries[i].command = slots'[j].lastName
      BY DEF LastRecordIsOfThisRun
    <2>1. CASE j # k
      BY ZenonT(60), <1>1, <2>1 DEF RunInv, LastRecordIsOfThisRun
    <2>2. CASE j = k
      <3>1. /\ s.executed = 0 <=> s.lastResult = "PENDING"
            /\ s.executed = 0 <=> s.lastName = ""
            /\ s.executed > 0 => \E i \in (s.skipped + 1)..s.position :
                                    s.plan.entries[i].command = s.lastName
        BY DEF RunInv, LastRecordIsOfThisRun, s
      <3>2. (s.skipped + 1)..s.position \subseteq (r.skipped + 1)..r.position
        BY <1>1, <1>3
      <3> QED BY <1>1, <2>2, <3>1, <3>2 DEF r
    <2> QED BY <2>1, <2>2
  <1> QED BY <1>4, <1>5, <1>6 DEF RunInv

\* A command that returns is recorded as the one its run dispatched.
LEMMA FireReturnsRunInv ==
    ASSUME IInv, RunInv, NEW t \in Ticker, FireReturns(t)
    PROVE  RunInv'
  <1>k. PICK k \in Kinds : k = ticks[t].kind
    BY DEF IInv, TypeOK, Frame
  <1> DEFINE s == slots[k]
             r == slots'[k]
  <1>1. /\ s \in Slot /\ ticks[t].status = "firing"
        /\ s.generation = ticks[t].generation =>
              /\ r.executed = s.executed + 1 /\ r.lastName = ticks[t].command
              /\ r.lastResult \in {"SUCCESS", "FAILED"}
        /\ s.generation # ticks[t].generation => r = s
        /\ \A j \in Kinds \ {k} : slots'[j] = slots[j]
    BY <1>k, FireReturnsEffect
  <1>2. \A j \in Kinds : /\ slots'[j].plan = slots[j].plan /\ slots'[j].state = slots[j].state
                         /\ slots'[j].base = slots[j].base
                         /\ slots'[j].position = slots[j].position
                         /\ slots'[j].skipped = slots[j].skipped
                         /\ slots'[j].generation = slots[j].generation
    <2>1. /\ r.plan = s.plan /\ r.state = s.state /\ r.base = s.base
          /\ r.position = s.position /\ r.skipped = s.skipped /\ r.generation = s.generation
      BY <1>k, FireReturnsEffect
    <2> QED BY <1>1, <2>1
  <1>3. ticks'[t].status = "scanning" /\ \A u \in Ticker \ {t} : ticks'[u] = ticks[u]
    BY FireReturnsEffect
  <1>4. SkipsExactlyThePast'
    BY <1>2 DEF RunInv, SkipsExactlyThePast, Total
  <1>5. AwaitedIsDispatched'
    <2> SUFFICES ASSUME NEW j \in Kinds, NEW u \in Ticker, ticks'[u].status = "firing",
                        ticks'[u].kind = j, ticks'[u].generation = slots'[j].generation
                 PROVE  \E i \in (slots'[j].skipped + 1)..slots'[j].position :
                           slots'[j].plan.entries[i].command = ticks'[u].command
      BY DEF AwaitedIsDispatched, InFlight
    <2>1. u \in InFlight(j) /\ ticks'[u] = ticks[u]
      BY <1>2, <1>3 DEF InFlight
    <2> QED BY <1>2, <2>1 DEF RunInv, AwaitedIsDispatched
  <1> HIDE DEF s, r
  <1>6. ASSUME s.generation = ticks[t].generation
        PROVE  /\ r.executed > 0 /\ r.lastResult # "PENDING" /\ r.lastName # ""
               /\ r.executed # 0
               /\ \E i \in (s.skipped + 1)..s.position :
                     s.plan.entries[i].command = r.lastName
    <2>1. t \in InFlight(k)
      BY <1>k, <1>1, <1>6 DEF InFlight, s
    <2>2. PICK i \in (s.skipped + 1)..s.position : s.plan.entries[i].command = ticks[t].command
      BY <2>1 DEF RunInv, AwaitedIsDispatched, s
    <2>3. s.position \in Nat /\ s.skipped \in Nat /\ s.executed \in Nat /\ Total(s) \in Nat
      BY <1>1, SlotFields, PlanEntries
    <2>4. i \in 1..Total(s)
      BY <2>2, <2>3 DEF IInv, Ledger, s
    <2>5. ticks[t].command # ""
      BY <1>1, <2>2, <2>4, DeadlineType, BoundsAssumption
    <2>6. r.executed > 0 /\ r.executed # 0
      BY <1>1, <1>6, <2>3
    <2>7. r.lastName = ticks[t].command /\ r.lastResult # "PENDING"
      BY <1>1, <1>6
    <2> QED BY <2>2, <2>5, <2>6, <2>7
  <1>7. LastRecordIsOfThisRun'
    <2> SUFFICES ASSUME NEW j \in Kinds
                 PROVE  /\ slots'[j].executed = 0 <=> slots'[j].lastResult = "PENDING"
                        /\ slots'[j].executed = 0 <=> slots'[j].lastName = ""
                        /\ slots'[j].executed > 0 =>
                              \E i \in (slots'[j].skipped + 1)..slots'[j].position :
                                 slots'[j].plan.entries[i].command = slots'[j].lastName
      BY DEF LastRecordIsOfThisRun
    <2>1. CASE slots'[j] = slots[j]
      BY <2>1 DEF RunInv, LastRecordIsOfThisRun
    <2>2. CASE j = k /\ s.generation = ticks[t].generation
      BY <1>2, <1>6, <2>2 DEF s, r
    <2> QED BY <1>1, <2>1, <2>2 DEF s, r
  <1> QED BY <1>4, <1>5, <1>7 DEF RunInv

\* A step that leaves runs, records and what is awaited alone, but for a run
\* that completes.
LEMMA SameRunsRunInv ==
    ASSUME RunInv,
           \A j \in Kinds :
              LET s == slots[j]
                  r == slots'[j]
              IN  /\ r.plan = s.plan /\ r.base = s.base /\ r.generation = s.generation
                  /\ r.position = s.position /\ r.skipped = s.skipped
                  /\ r.executed = s.executed
                  /\ r.lastName = s.lastName /\ r.lastResult = s.lastResult
                  /\ (r.state # s.state => s.state = "RUNNING" /\ r.state = "COMPLETE"),
           \A t \in Ticker :
              /\ ticks'[t].status = "firing" <=> ticks[t].status = "firing"
              /\ ticks[t].status = "firing" => ticks'[t] = ticks[t]
    PROVE  RunInv'
  <1>1. SkipsExactlyThePast'
    BY DEF RunInv, SkipsExactlyThePast, Total
  <1>2. \A j \in Kinds : InFlight(j)' = InFlight(j)
    BY SameAwaited
  <1>3. \A j \in Kinds : \A t \in InFlight(j) : ticks'[t] = ticks[t]
    BY DEF InFlight
  <1>4. AwaitedIsDispatched'
    <2>1. AwaitedIsDispatched
      BY DEF RunInv
    <2> SUFFICES ASSUME NEW j \in Kinds, NEW t \in InFlight(j)'
                 PROVE  \E i \in (slots'[j].skipped + 1)..slots'[j].position :
                           slots'[j].plan.entries[i].command = ticks'[t].command
      BY DEF AwaitedIsDispatched
    <2>2. t \in InFlight(j) /\ ticks'[t] = ticks[t]
      BY <1>2, <1>3
    <2> QED BY <2>1, <2>2 DEF AwaitedIsDispatched
  <1>5. LastRecordIsOfThisRun'
    <2> SUFFICES ASSUME NEW j \in Kinds
                 PROVE  /\ slots'[j].executed = 0 <=> slots'[j].lastResult = "PENDING"
                        /\ slots'[j].executed = 0 <=> slots'[j].lastName = ""
                        /\ slots'[j].executed > 0 =>
                              \E i \in (slots'[j].skipped + 1)..slots'[j].position :
                                 slots'[j].plan.entries[i].command = slots'[j].lastName
      BY DEF LastRecordIsOfThisRun
    <2>1. /\ slots[j].executed = 0 <=> slots[j].lastResult = "PENDING"
          /\ slots[j].executed = 0 <=> slots[j].lastName = ""
          /\ slots[j].executed > 0 =>
                \E i \in (slots[j].skipped + 1)..slots[j].position :
                   slots[j].plan.entries[i].command = slots[j].lastName
      BY DEF RunInv, LastRecordIsOfThisRun
    <2>2. slots'[j].executed = 0 <=> slots'[j].lastResult = "PENDING"
      BY <2>1
    <2>3. slots'[j].executed = 0 <=> slots'[j].lastName = ""
      BY <2>1
    <2>4. slots'[j].executed > 0 =>
                              \E i \in (slots'[j].skipped + 1)..slots'[j].position :
                                 slots'[j].plan.entries[i].command = slots'[j].lastName
      BY ZenonT(60), <2>1
    <2> QED BY <2>2, <2>3, <2>4
  <1> QED BY <1>1, <1>4, <1>5 DEF RunInv

\* Every step keeps windows and records with their runs.
LEMMA NextRunInv == IInv /\ RunInv /\ [Next]_vars => RunInv'
  <1> SUFFICES ASSUME IInv, RunInv, [Next]_vars PROVE RunInv'
    OBVIOUS
  <1>1. ASSUME NEW t \in Ticker, TickBegin(t)
        PROVE  RunInv'
    <2>1. /\ slots' = slots /\ ticks \in [Ticker -> Frame] /\ ticks[t].status = "idle"
          /\ ticks' = [ticks EXCEPT ![t] = [IdleFrame EXCEPT !.status = "scanning", !.now = clock]]
      BY <1>1 DEF TickBegin, IInv, TypeOK
    <2>2. [IdleFrame EXCEPT !.status = "scanning", !.now = clock].status = "scanning"
      BY DEF IdleFrame
    <2>3. ticks'[t].status = "scanning" /\ \A u \in Ticker \ {t} : ticks'[u] = ticks[u]
      BY <2>1, <2>2
    <2>4. \A u \in Ticker : /\ ticks'[u].status = "firing" <=> ticks[u].status = "firing"
                            /\ ticks[u].status = "firing" => ticks'[u] = ticks[u]
      BY <2>1, <2>3
    <2> QED BY <2>1, <2>4, SameRunsRunInv
  <1>2. ASSUME NEW t \in Ticker, TickEnd(t)
        PROVE  RunInv'
    <2>1. TypeOK
      BY DEF IInv
    <2>2. \A j \in Kinds :
             LET s == slots[j]
                 r == slots'[j]
             IN  /\ r.plan = s.plan /\ r.base = s.base /\ r.generation = s.generation
                 /\ r.position = s.position /\ r.skipped = s.skipped
                 /\ r.executed = s.executed
                 /\ r.lastName = s.lastName /\ r.lastResult = s.lastResult
                 /\ (r.state # s.state => s.state = "RUNNING" /\ r.state = "COMPLETE")
      BY <1>2, <2>1, TickEndEffect
    <2>3. \A u \in Ticker : /\ ticks'[u].status = "firing" <=> ticks[u].status = "firing"
                            /\ ticks[u].status = "firing" => ticks'[u] = ticks[u]
      BY <1>2, <2>1, TickEndEffect
    <2> QED BY <2>2, <2>3, SameRunsRunInv
  <1>3. CASE UNCHANGED <<slots, ticks>>
    BY <1>3, SameRunsRunInv
  <1> QED BY <1>1, <1>2, <1>3, CommandRunInv, FireRunInv, FireReturnsRunInv
          DEF Next, TickStep, ClockAdvances, ClockStepsBack, vars

\* The start() of sequencer.py skips exactly what was past when it ran, and a
\* record is of the run that fired it: tick() compares the generations.
THEOREM RunInvariance == Spec => []RunInv
  BY InitRunInv, NextRunInv, Invariance, PTL DEF Spec

\* A START passes over the entries strictly before it and over no other, and
\* the window stands as long as the run does.
THEOREM WindowIsThePast == Spec => []SkipsExactlyThePast
  <1>1. RunInv => SkipsExactlyThePast
    BY DEF RunInv
  <1> QED BY <1>1, RunInvariance, PTL

\* The last command a slot reports is one its own run has dispatched.
THEOREM RecordsAreOfTheRun == Spec => []LastRecordIsOfThisRun
  <1>1. RunInv => LastRecordIsOfThisRun
    BY DEF RunInv
  <1> QED BY <1>1, RunInvariance, PTL

-----------------------------------------------------------------------------
(***************************************************************************)
(* Times, while nobody sets the clock back: TimeInv.                       *)
(***************************************************************************)
Timely == NothingFiresEarly /\ TicksLagTheClock /\ LaterIsLater

\* The next entry of a slot that is pending, and its deadline.
LEMMA PendingDeadline ==
    ASSUME TypeOK, PlanOnBoard, NEW k \in Kinds, Pending(slots[k])
    PROVE  /\ slots[k] \in Slot /\ slots[k].position \in Nat /\ slots[k].state = "RUNNING"
           /\ slots[k].position + 1 \in 1..Total(slots[k])
           /\ Deadline(slots[k]) \in Nat
  <1>1. slots[k] \in Slot /\ slots[k].position \in Nat
    BY SlotFields DEF TypeOK
  <1>2. slots[k].state = "RUNNING" /\ slots[k].plan # NoPlan
    BY DEF Pending, PlanOnBoard
  <1>3. slots[k].position + 1 \in 1..Total(slots[k])
    BY <1>1, <1>2, PendingHasNext
  <1> QED BY <1>1, <1>2, <1>3, DeadlineType DEF Deadline

\* An entry outside the window START passed over is due at the base or later.
LEMMA AheadOfBase ==
    ASSUME NEW s \in Slot, NEW i \in 1..Total(s),
           ~(s.plan.kind = "ats" /\ s.plan.entries[i].time < s.base)
    PROVE  s.base <= DeadlineAt(s, i)
  <1>1. s.plan.entries[i].time \in Nat
    BY PlanIsSorted
  <1>2. s.base \in Nat
    BY SlotFields
  <1> QED BY <1>1, <1>2 DEF DeadlineAt

\* Deadlines follow the order of the entries.
LEMMA DeadlinesAreSorted ==
    ASSUME NEW s \in Slot, NEW i \in 1..Total(s), NEW j \in 1..Total(s), i <= j
    PROVE  DeadlineAt(s, i) <= DeadlineAt(s, j)
  <1>1. /\ s.plan.entries[i].time \in Nat /\ s.plan.entries[j].time \in Nat
        /\ s.plan.entries[i].time <= s.plan.entries[j].time
    BY PlanIsSorted
  <1>2. s.base \in Nat
    BY SlotFields
  <1> QED BY <1>1, <1>2 DEF DeadlineAt

\* Nothing is late before there is a run.
LEMMA InitTimely == Init => Timely
  <1> SUFFICES ASSUME Init PROVE Timely
    OBVIOUS
  <1>1. /\ EmptySlot.state = "IDLE" /\ EmptySlot.skipped = 0 /\ EmptySlot.position = 0
        /\ EmptySlot.base = 0
    BY DEF EmptySlot
  <1>2. \A k \in Kinds : slots[k] = EmptySlot
    BY DEF Init
  <1>3. \A t \in Ticker : ticks[t].status = "idle"
    BY DEF Init, IdleFrame
  <1>4. clock = 0
    BY DEF Init
  <1>5. NothingFiresEarly
    <2>1. (0 + 1)..0 = {}
      OBVIOUS
    <2> QED BY <1>1, <1>2, <2>1 DEF NothingFiresEarly
  <1>6. TicksLagTheClock
    BY <1>1, <1>2, <1>3, <1>4 DEF TicksLagTheClock
  <1>7. LaterIsLater
    BY <1>3 DEF LaterIsLater
  <1> QED BY <1>5, <1>6, <1>7 DEF Timely

\* What a new run dispatches is due at its START or later.
LEMMA CommandTimely ==
    ASSUME IInv, Timely, Command
    PROVE  Timely'
  <1>1. PICK k \in Kinds : NewRun(k)
    BY CommandIsNewRun DEF IInv
  <1> DEFINE r == slots'[k]
  <1>2. /\ \A j \in Kinds \ {k} : slots'[j] = slots[j]
        /\ ticks' = ticks /\ clock' = clock
        /\ r # slots[k] /\ r.position = r.skipped
    <2>1. slots[k].generation \in Nat
      BY SlotFields DEF IInv, TypeOK
    <2> QED BY <1>1, <2>1 DEF NewRun
  <1>3. r \in Slot /\ clock \in Nat /\ r.position \in Nat
    BY <1>1, SlotFields DEF NewRun, IInv, TypeOK
  <1>4. r.state = "RUNNING" => Start(k)
    BY <1>2, RunningMeansStarted DEF IInv
  <1>5. r.base <= clock
    <2>1. CASE r.state = "RUNNING"
      <3>1. r.base = clock
        BY <1>4, <2>1, StartSkipsThePast DEF IInv
      <3> QED BY <1>3, <3>1
    <2>2. CASE r = [EmptySlot EXCEPT !.plan = r.plan, !.state = r.state,
                                     !.generation = r.generation]
      <3>1. r.base = 0
        BY <2>2 DEF EmptySlot
      <3> QED BY <1>3, <3>1
    <2> QED BY <1>1, <2>1, <2>2 DEF NewRun
  <1>6. ASSUME Pending(r)
        PROVE  Deadline(r) \in Nat /\ clock <= Deadline(r)
    <2>1. IInv'
      BY <1>1, NewRunInv
    <2>2. r.state = "RUNNING" /\ r.position + 1 \in 1..Total(r)
      <3>1. r.state = "RUNNING"
        BY <1>6 DEF Pending
      <3>2. r.plan # NoPlan
        BY <1>1, <3>1 DEF NewRun
      <3> QED BY <1>3, <1>6, <3>1, <3>2, PendingHasNext
    <2>3. r.base = clock /\ ~(r.plan.kind = "ats" /\ r.plan.entries[r.position + 1].time < r.base)
      <3>1. ~(r.position + 1 <= r.skipped)
        BY <1>2, <1>3
      <3> QED BY <1>4, <2>2, <3>1, StartSkipsThePast DEF IInv
    <2> QED BY <1>3, <2>2, <2>3, AheadOfBase, DeadlineType DEF Deadline
  <1> HIDE DEF r
  <1>7. NothingFiresEarly'
    <2> SUFFICES ASSUME NEW j \in Kinds, NEW i \in (slots'[j].skipped + 1)..slots'[j].position
                 PROVE  slots'[j].base <= DeadlineAt(slots'[j], i)
                        /\ DeadlineAt(slots'[j], i) <= clock
      BY <1>2 DEF NothingFiresEarly, DeadlineAt
    <2>1. j # k
      BY <1>2, <1>3 DEF r
    <2> QED BY <1>2, <2>1 DEF Timely, NothingFiresEarly
  <1>8. TicksLagTheClock'
    BY <1>2, <1>5 DEF Timely, TicksLagTheClock, r
  <1>9. LaterIsLater'
    <2> SUFFICES ASSUME NEW t \in Ticker, NEW j \in Kinds,
                        ticks[t].status # "idle", Pending(slots'[j])
                 PROVE  ticks[t].lastFired <= Deadline(slots'[j])
      BY <1>2 DEF LaterIsLater, Pending, Exhausted, Total, Deadline, DeadlineAt
    <2>1. CASE j = k
      <3>1. ticks[t].lastFired <= ticks[t].now /\ ticks[t].now <= clock
            /\ ticks[t].lastFired \in Nat /\ ticks[t].now \in Nat
        BY DEF Timely, TicksLagTheClock, IInv, TypeOK, Frame
      <3> QED BY <1>3, <1>6, <2>1, <3>1 DEF r
    <2>2. CASE j # k
      BY <1>2, <2>2 DEF Timely, LaterIsLater
    <2> QED BY <2>1, <2>2
  <1> QED BY <1>7, <1>8, <1>9 DEF Timely

\* The entry a call claims is due by the time of the call, and nothing that
\* is still to be claimed is due before it.
LEMMA FireTimely ==
    ASSUME IInv, RunInv, Timely, NEW t \in Ticker, NEW k \in Kinds, Fire(t, k)
    PROVE  Timely'
  <1> DEFINE s == slots[k]
             r == slots'[k]
             d == Deadline(s)
  <1>1. /\ s \in Slot /\ s.state = "RUNNING" /\ s.position + 1 \in 1..Total(s)
        /\ r.position = s.position + 1 /\ r.plan = s.plan
        /\ r.base = s.base /\ r.skipped = s.skipped
        /\ slots' \in [Kinds -> Slot] /\ \A j \in Kinds \ {k} : slots'[j] = slots[j]
    BY FireEffect
  <1>2. /\ ticks[t].status = "scanning" /\ ticks'[t].now = ticks[t].now
        /\ ticks'[t].lastFired = d
        /\ \A u \in Ticker \ {t} : ticks'[u] = ticks[u]
    BY FireEffect
  <1>3. /\ clock' = clock /\ clock \in Nat /\ ticks[t].now \in Nat /\ ticks[t].now <= clock
        /\ s.position \in Nat /\ s.skipped \in Nat
    BY <1>1, <1>2, SlotFields DEF Fire, IInv, TypeOK, Frame, Timely, TicksLagTheClock
  <1>4. Pending(s) /\ d <= ticks[t].now
        /\ \A j \in Kinds \ {k} : IsDue(j, ticks[t].now) => d <= Deadline(slots[j])
    <2>1. k \in NextDue(ticks[t].now)
      BY DEF Fire
    <2>2. IsDue(k, ticks[t].now)
      BY <2>1 DEF NextDue
    <2>3. ASSUME NEW j \in Kinds \ {k}, IsDue(j, ticks[t].now)
          PROVE  d <= Deadline(slots[j])
      <3>1. d < Deadline(slots[j]) \/ d = Deadline(slots[j])
        BY <2>1, <2>3 DEF NextDue
      <3>2. Deadline(slots[j]) \in Nat /\ d \in Nat
        BY <2>2, <2>3, PendingDeadline DEF IsDue, IInv
      <3> QED BY <3>1, <3>2
    <2> QED BY <2>2, <2>3 DEF IsDue
  <1>5. d \in Nat /\ d <= clock
    BY <1>3, <1>4, PendingDeadline DEF IInv
  <1>6. s.base <= d
    <2>1. s.position + 1 > s.skipped
      <3>1. s.executed + s.skipped + Cardinality(InFlight(k)) = s.position
            /\ Cardinality(InFlight(k)) \in Nat /\ s.executed \in Nat
        BY <1>1, InFlightFinite, SlotFields DEF IInv, Ledger
      <3> QED BY <1>3, <3>1
    <2>2. ~(s.plan.kind = "ats" /\ s.plan.entries[s.position + 1].time < s.base)
      BY <1>1, <1>3, <2>1 DEF RunInv, SkipsExactlyThePast
    <2> QED BY <1>1, <2>2, AheadOfBase DEF Deadline
  <1>7. \A i : DeadlineAt(r, i) = DeadlineAt(s, i)
    BY <1>1 DEF DeadlineAt
  <1> HIDE DEF s, r, d
  <1>8. NothingFiresEarly'
    <2> SUFFICES ASSUME NEW j \in Kinds, NEW i \in (slots'[j].skipped + 1)..slots'[j].position
                 PROVE  slots'[j].base <= DeadlineAt(slots'[j], i)
                        /\ DeadlineAt(slots'[j], i) <= clock
      BY <1>3 DEF NothingFiresEarly, DeadlineAt
    <2>1. CASE j # k
      BY <1>1, <2>1 DEF Timely, NothingFiresEarly
    <2>2. CASE j = k /\ i = s.position + 1
      BY <1>1, <1>5, <1>6, <1>7, <2>2 DEF r, d, Deadline
    <2>3. CASE j = k /\ i # s.position + 1
      <3>1. i \in (s.skipped + 1)..s.position
        BY <1>1, <1>3, <2>3 DEF r
      <3>2. s.base <= DeadlineAt(s, i) /\ DeadlineAt(s, i) <= clock
        BY <3>1 DEF Timely, NothingFiresEarly, s
      <3> QED BY <1>1, <1>7, <2>3, <3>2 DEF r
    <2> QED BY <2>1, <2>2, <2>3
  <1>9. TicksLagTheClock'
    <2>1. \A j \in Kinds : slots'[j].base = slots[j].base
      BY <1>1 DEF s, r
    <2> QED BY <1>2, <1>3, <1>4, <2>1 DEF Timely, TicksLagTheClock
  <1>10. LaterIsLater'
    <2> SUFFICES ASSUME NEW u \in Ticker, NEW j \in Kinds,
                        ticks'[u].status # "idle", Pending(slots'[j])
                 PROVE  ticks'[u].lastFired <= Deadline(slots'[j])
      BY DEF LaterIsLater, Pending, Exhausted, Total, Deadline, DeadlineAt
    <2>1. ASSUME j = k
          PROVE  Deadline(r) \in Nat /\ d <= Deadline(r)
      <3>1. Total(r) = Total(s) /\ Total(s) \in Nat
        BY <1>1, PlanEntries DEF Total
      <3>2. s.position + 2 \in 1..Total(s)
        <4>1. ~Exhausted(r) /\ s.plan # NoPlan
          BY <2>1 , <1>1 DEF Pending, r, s, IInv, PlanOnBoard
        <4> QED BY <1>1, <1>3, <3>1, <4>1 DEF Exhausted
      <3>3. DeadlineAt(s, s.position + 1) <= DeadlineAt(s, s.position + 2)
            /\ DeadlineAt(s, s.position + 2) \in Nat
        BY <1>1, <1>3, <3>2, DeadlinesAreSorted, DeadlineType
      <3>4. Deadline(r) = DeadlineAt(s, s.position + 2)
        BY <1>1, <1>3, <1>7 DEF Deadline
      <3> QED BY <3>3, <3>4 DEF Deadline, d
    <2>2. ASSUME j # k
          PROVE  Pending(slots[j]) /\ slots'[j] = slots[j] /\ Deadline(slots[j]) \in Nat
      <3>1. slots'[j] = slots[j]
        BY <1>1, <2>2
      <3> QED BY <3>1, PendingDeadline DEF IInv
    <2>3. CASE u = t /\ j = k
      BY <1>2, <2>1, <2>3 DEF r
    <2>4. CASE u = t /\ j # k
      <3>1. d <= Deadline(slots[j])
        BY <1>3, <1>4, <1>5, <2>2, <2>4 DEF IsDue
      <3> QED BY <1>2, <2>2, <2>4, <3>1
    <2>5. CASE u # t /\ j = k
      <3>1. ticks'[u] = ticks[u] /\ ticks[u].lastFired \in Nat
        BY <1>2, <2>5 DEF IInv, TypeOK, Frame
      <3>2. ticks[u].lastFired <= d
        BY <1>4, <3>1 DEF Timely, LaterIsLater, s, d
      <3> QED BY <1>5, <2>1, <2>5, <3>1, <3>2 DEF r
    <2>6. CASE u # t /\ j # k
      BY <1>2, <2>2, <2>6 DEF Timely, LaterIsLater
    <2> QED BY <2>3, <2>4, <2>5, <2>6
  <1> QED BY <1>8, <1>9, <1>10 DEF Timely

\* A call of tick() takes the time of its beginning.
LEMMA TickBeginTimely ==
    ASSUME IInv, Timely, NEW t \in Ticker, TickBegin(t)
    PROVE  Timely'
  <1>1. /\ slots' = slots /\ ticks \in [Ticker -> Frame] /\ clock' = clock /\ clock \in Nat
        /\ ticks' = [ticks EXCEPT ![t] = [IdleFrame EXCEPT !.status = "scanning", !.now = clock]]
    BY DEF TickBegin, IInv, TypeOK
  <1>2. /\ [IdleFrame EXCEPT !.status = "scanning", !.now = clock].now = clock
        /\ [IdleFrame EXCEPT !.status = "scanning", !.now = clock].lastFired = 0
    BY DEF IdleFrame
  <1>3. /\ ticks'[t].now = clock /\ ticks'[t].lastFired = 0
        /\ \A u \in Ticker \ {t} : ticks'[u] = ticks[u]
    BY <1>1, <1>2
  <1>4. NothingFiresEarly'
    BY <1>1 DEF Timely, NothingFiresEarly, DeadlineAt
  <1>5. TicksLagTheClock'
    BY <1>1, <1>3 DEF Timely, TicksLagTheClock
  <1>6. LaterIsLater'
    <2> SUFFICES ASSUME NEW u \in Ticker, NEW j \in Kinds,
                        ticks'[u].status # "idle", Pending(slots[j])
                 PROVE  ticks'[u].lastFired <= Deadline(slots[j])
      BY <1>1 DEF LaterIsLater, Pending, Exhausted, Total, Deadline, DeadlineAt
    <2>1. Deadline(slots[j]) \in Nat
      BY PendingDeadline DEF IInv
    <2> QED BY <1>3, <2>1 DEF Timely, LaterIsLater
  <1> QED BY <1>4, <1>5, <1>6 DEF Timely

\* A step that leaves alone what runs have dispatched and what calls have
\* fired, under a clock that does not go back.
LEMMA SameRunsTimely ==
    ASSUME IInv, IInv', Timely, clock <= clock',
           \A j \in Kinds :
              LET s == slots[j]
                  r == slots'[j]
              IN  /\ r.plan = s.plan /\ r.base = s.base
                  /\ r.position = s.position /\ r.skipped = s.skipped
                  /\ r.state = "RUNNING" => s.state = "RUNNING",
           \A t \in Ticker :
              ticks'[t].status # "idle" =>
                 /\ ticks[t].status # "idle"
                 /\ ticks'[t].now = ticks[t].now /\ ticks'[t].lastFired = ticks[t].lastFired
    PROVE  Timely'
  <1>1. /\ slots \in [Kinds -> Slot] /\ ticks \in [Ticker -> Frame]
        /\ clock \in Nat /\ clock' \in Nat
    BY DEF IInv, TypeOK
  <1>2. \A j \in Kinds : \A i : DeadlineAt(slots'[j], i) = DeadlineAt(slots[j], i)
    BY DEF DeadlineAt
  <1>3. \A j \in Kinds : /\ Pending(slots'[j]) => Pending(slots[j])
                         /\ Deadline(slots'[j]) = Deadline(slots[j])
    BY <1>2 DEF Pending, Exhausted, Total, Deadline
  <1>4. NothingFiresEarly'
    <2> SUFFICES ASSUME NEW j \in Kinds, NEW i \in (slots'[j].skipped + 1)..slots'[j].position
                 PROVE  slots'[j].base <= DeadlineAt(slots'[j], i)
                        /\ DeadlineAt(slots'[j], i) <= clock'
      BY DEF NothingFiresEarly, DeadlineAt
    <2>1. slots[j].base <= DeadlineAt(slots[j], i) /\ DeadlineAt(slots[j], i) <= clock
      BY DEF Timely, NothingFiresEarly
    <2>2. DeadlineAt(slots[j], i) \in Nat
      <3>1. /\ slots[j].skipped \in Nat /\ slots[j].position \in Nat /\ slots[j] \in Slot
            /\ Total(slots[j]) \in Nat /\ slots[j].position <= Total(slots[j])
        BY <1>1, SlotFields, PlanEntries DEF IInv, Ledger
      <3>2. i \in 1..Total(slots[j])
        BY <3>1
      <3> QED BY <3>1, <3>2, DeadlineType
    <2> QED BY <1>1, <1>2, <2>1, <2>2
  <1>5. TicksLagTheClock'
    <2>1. ASSUME NEW j \in Kinds
          PROVE  slots'[j].base <= clock'
      <3>1. slots[j].base \in Nat /\ slots[j].base <= clock
        BY <1>1, SlotFields DEF Timely, TicksLagTheClock
      <3> QED BY <1>1, <3>1
    <2>2. ASSUME NEW t \in Ticker, ticks'[t].status # "idle"
          PROVE  ticks'[t].lastFired <= ticks'[t].now /\ ticks'[t].now <= clock'
      <3>1. /\ ticks[t].lastFired <= ticks[t].now /\ ticks[t].now <= clock
            /\ ticks[t].now \in Nat
        BY <1>1, <2>2 DEF Timely, TicksLagTheClock, Frame
      <3> QED BY <1>1, <2>2, <3>1
    <2> QED BY <2>1, <2>2 DEF TicksLagTheClock
  <1>6. LaterIsLater'
    <2> SUFFICES ASSUME NEW t \in Ticker, NEW j \in Kinds,
                        ticks'[t].status # "idle", Pending(slots'[j])
                 PROVE  ticks'[t].lastFired <= Deadline(slots'[j])
      BY DEF LaterIsLater, Pending, Exhausted, Total, Deadline, DeadlineAt
    <2> QED BY <1>3 DEF Timely, LaterIsLater
  <1> QED BY <1>4, <1>5, <1>6 DEF Timely

\* No step breaks the order of the times while the clock goes forward.
LEMMA NextTimely ==
    ASSUME IInv, RunInv, Timely, [Next]_vars, clock <= clock'
    PROVE  Timely'
  <1>1. IInv'
    BY NextInv
  <1>2. ASSUME NEW t \in Ticker, FireReturns(t)
        PROVE  Timely'
    <2>1. \A j \in Kinds :
             LET s == slots[j]
                 r == slots'[j]
             IN  /\ r.plan = s.plan /\ r.base = s.base
                 /\ r.position = s.position /\ r.skipped = s.skipped
                 /\ r.state = "RUNNING" => s.state = "RUNNING"
      <3>1. PICK k \in Kinds : k = ticks[t].kind
        BY DEF IInv, TypeOK, Frame
      <3>2. \A j \in Kinds \ {k} : slots'[j] = slots[j]
        BY <1>2, <3>1, FireReturnsEffect
      <3>3. /\ slots'[k].plan = slots[k].plan /\ slots'[k].base = slots[k].base
            /\ slots'[k].position = slots[k].position /\ slots'[k].skipped = slots[k].skipped
            /\ slots'[k].state = slots[k].state
        BY <1>2, <3>1, FireReturnsEffect
      <3> QED BY <3>2, <3>3
    <2>2. /\ ticks[t].status = "firing"
          /\ ticks'[t].now = ticks[t].now /\ ticks'[t].lastFired = ticks[t].lastFired
          /\ \A u \in Ticker \ {t} : ticks'[u] = ticks[u]
      BY <1>2, FireReturnsEffect
    <2>3. \A u \in Ticker :
             ticks'[u].status # "idle" =>
                /\ ticks[u].status # "idle"
                /\ ticks'[u].now = ticks[u].now /\ ticks'[u].lastFired = ticks[u].lastFired
      BY <2>2
    <2> QED BY <1>1, <2>1, <2>3, SameRunsTimely
  <1>3. ASSUME NEW t \in Ticker, TickEnd(t)
        PROVE  Timely'
    <2>1. TypeOK
      BY DEF IInv
    <2>2. \A j \in Kinds :
             LET s == slots[j]
                 r == slots'[j]
             IN  /\ r.plan = s.plan /\ r.base = s.base
                 /\ r.position = s.position /\ r.skipped = s.skipped
                 /\ r.state = "RUNNING" => s.state = "RUNNING"
      BY <1>3, <2>1, TickEndEffect
    <2>3. \A u \in Ticker :
             ticks'[u].status # "idle" =>
                /\ ticks[u].status # "idle"
                /\ ticks'[u].now = ticks[u].now /\ ticks'[u].lastFired = ticks[u].lastFired
      BY <1>3, <2>1, TickEndEffect
    <2> QED BY <1>1, <2>2, <2>3, SameRunsTimely
  <1>4. CASE UNCHANGED <<slots, ticks>>
    BY <1>1, <1>4, SameRunsTimely
  <1> QED BY <1>2, <1>3, <1>4, CommandTimely, FireTimely, TickBeginTimely
          DEF Next, TickStep, ClockAdvances, ClockStepsBack, vars

-----------------------------------------------------------------------------
\* SequencerClock adds a history variable and nothing else.
LEMMA ClockStep == [ClockNext]_clockVars => [Next]_vars
  BY DEF ClockNext, clockVars

\* Nor does one that sets the clock back, since nothing is promised then.
LEMMA NextTimeInv == IInv /\ RunInv /\ TimeInv /\ [ClockNext]_clockVars => TimeInv'
  <1> SUFFICES ASSUME IInv, RunInv, TimeInv, [ClockNext]_clockVars, ~setBack'
               PROVE  Timely'
    BY DEF TimeInv, Timely
  <1>1. clock \in Nat /\ clock' \in Nat
    BY NextInv, ClockStep DEF IInv, TypeOK
  <1>2. ~setBack /\ ~(clock' < clock)
    <2>1. CASE ClockNext
      BY <2>1 DEF ClockNext
    <2>2. CASE UNCHANGED clockVars
      <3>1. clock' = clock /\ ~setBack
        BY <2>2 DEF clockVars, vars
      <3> QED BY <1>1, <3>1
    <2> QED BY <2>1, <2>2
  <1>3. Timely /\ clock <= clock'
    BY <1>1, <1>2 DEF TimeInv, Timely
  <1> QED BY <1>3, ClockStep, NextTimely

\* What the sequencer keeps about times as long as its clock is never set back:
\* tick() reads the clock once, and fires what is due by then.
THEOREM TimeInvariance == ClockSpec => [](IInv /\ RunInv /\ TimeInv)
  <1>1. ClockInit => IInv /\ RunInv /\ TimeInv
    BY InitInv, InitRunInv, InitTimely DEF ClockInit, TimeInv, Timely
  <1>2. IInv /\ RunInv /\ TimeInv /\ [ClockNext]_clockVars => IInv' /\ RunInv' /\ TimeInv'
    BY ClockStep, NextInv, NextRunInv, NextTimeInv
  <1> QED BY <1>1, <1>2, PTL DEF ClockSpec

\* While the clock is not set back no command leaves before its deadline.
THEOREM NothingLeavesEarly == ClockSpec => []FiresOnTime
  <1>1. TimeInv => FiresOnTime
    BY DEF TimeInv, FiresOnTime
  <1> QED BY <1>1, TimeInvariance, PTL

\* While the clock is not set back a call of tick() fires in deadline order
\* over both slots, whatever the commands it fires do to them.
THEOREM TicksFireInOrder == ClockSpec => FiresInOrder
  <1> DEFINE InOrder == ~setBack => \A t \in Ticker, k \in Kinds :
                           Fire(t, k) => Deadline(slots[k]) >= ticks[t].lastFired
  <1>1. IInv /\ RunInv /\ TimeInv /\ [ClockNext]_clockVars => [InOrder]_clockVars
    <2> SUFFICES ASSUME IInv, TimeInv, ~setBack, NEW t \in Ticker, NEW k \in Kinds, Fire(t, k)
                 PROVE  Deadline(slots[k]) >= ticks[t].lastFired
      OBVIOUS
    <2>1. Pending(slots[k]) /\ ticks[t].status = "scanning"
      BY DEF Fire, NextDue, IsDue
    <2>2. ticks[t].lastFired <= Deadline(slots[k])
      BY <2>1 DEF TimeInv, LaterIsLater
    <2>3. Deadline(slots[k]) \in Nat /\ ticks[t].lastFired \in Nat
      BY <2>1, PendingDeadline DEF IInv, TypeOK, Frame
    <2> QED BY <2>2, <2>3
  <1> QED BY <1>1, TimeInvariance, PTL DEF ClockSpec, FiresInOrder
=============================================================================
