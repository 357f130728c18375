----------------------------- MODULE Sequencer -----------------------------
(***************************************************************************)
(* The on-board sequencer of xtce_sim/sequencer.py: one ATS slot (absolute *)
(* times) and one RTS slot (delays from START), advanced by tick(now).     *)
(*                                                                         *)
(* tick() fires the due entries one after the other and awaits the         *)
(* executor for each of them.  The executor is injected: while it is       *)
(* awaited it may itself load, start, stop or abort either slot, or call   *)
(* tick() again, and so may any other task of the event loop.  So every    *)
(* command of the sequencer is enabled whenever no caller of tick() is     *)
(* between two awaits, which is what a single-threaded loop gives.         *)
(***************************************************************************)
EXTENDS Integers, FiniteSets, Sequences

CONSTANTS
    Plans,            \* the parsed plans a LOAD can install
    Commands,         \* the command names the entries of the plans carry
    Ticker,           \* the callers of tick(): the waiter, a re-entrant call
    MaxClock,         \* bound of the clock
    MaxGeneration,    \* bound of the run counter of a slot
    ClockMayStepBack  \* whether the wall clock may be set back

Kinds == {"ats", "rts"}
States == {"IDLE", "LOADED", "RUNNING", "COMPLETE", "ERROR"}
Results == {"SUCCESS", "FAILED", "PENDING"}
Entry == [time : Nat, command : Commands]

\* What sequences._parse guarantees of a plan: at least one entry, by time.
ASSUME PlansAssumption ==
    \A p \in Plans :
        /\ p = [kind |-> p.kind, entries |-> p.entries]
        /\ p.kind \in Kinds
        /\ p.entries \in Seq(Entry)
        /\ Len(p.entries) > 0
        /\ \A i, j \in 1..Len(p.entries) :
               i < j => p.entries[i].time <= p.entries[j].time

ASSUME BoundsAssumption ==
    /\ MaxClock \in Nat /\ MaxGeneration \in Nat
    /\ ClockMayStepBack \in BOOLEAN
    /\ IsFiniteSet(Ticker)
    /\ "" \notin Commands

NoPlan == [kind |-> "none", entries |-> <<>>]

Slot == [plan : Plans \cup {NoPlan}, state : States, position : Nat, base : Nat,
         finalElapsed : Nat, executed : Nat, skipped : Nat,
         lastName : Commands \cup {""}, lastResult : Results,
         generation : Nat]

EmptySlot == [plan |-> NoPlan, state |-> "IDLE", position |-> 0, base |-> 0,
              finalElapsed |-> 0, executed |-> 0, skipped |-> 0,
              lastName |-> "", lastResult |-> "PENDING", generation |-> 0]

(***************************************************************************)
(* One call of tick().  It is "scanning" from its start, or from the       *)
(* return of a fired command, until it fires or returns; it is "firing"    *)
(* while it awaits the executor.  lastFired is the deadline of the last    *)
(* entry of the list of fired entries it will return.                      *)
(***************************************************************************)
Frame == [status : {"idle", "scanning", "firing"}, now : Nat, kind : Kinds,
          generation : Nat, command : Commands \cup {""}, lastFired : Nat]

IdleFrame == [status |-> "idle", now |-> 0, kind |-> "ats", generation |-> 0,
              command |-> "", lastFired |-> 0]

VARIABLES
    slots,  \* Sequencer._slots
    ticks,  \* the calls of tick() in progress
    clock   \* the clock tick() and start() are given

vars == <<slots, ticks, clock>>

-----------------------------------------------------------------------------
Total(s) == Len(s.plan.entries)

Exhausted(s) == s.plan # NoPlan /\ s.position >= Total(s)

\* Mutant of DeadlineAt: the delays of an RTS are not based at its START.
DeadlineAtUnbased(s, i) == s.plan.entries[i].time

DeadlineAt(s, i) ==
    LET t == s.plan.entries[i].time
    IN  IF s.plan.kind = "ats" THEN t ELSE s.base + t

\* The deadline of the entry the slot considers next.
Deadline(s) == DeadlineAt(s, s.position + 1)

Pending(s) == s.state = "RUNNING" /\ ~Exhausted(s)

\* Mutants of Fresh: the run keeps its number, or what it had recorded.
FreshSameGeneration(s, p, st) ==
    [EmptySlot EXCEPT !.plan = p, !.state = st, !.generation = s.generation]

FreshKeepsRecord(s, p, st) ==
    [EmptySlot EXCEPT !.plan = p, !.state = st, !.generation = s.generation + 1,
                      !.lastName = s.lastName, !.lastResult = s.lastResult]

\* Slot s without the progress of its run (reset_run), holding plan p: the
\* number tells what follows from the run that ended.
Fresh(s, p, st) ==
    [EmptySlot EXCEPT !.plan = p, !.state = st, !.generation = s.generation + 1]

\* No call of tick() is between two awaits: another task may run.
Suspended == \A t \in Ticker : ticks[t].status # "scanning"

CanReset(k) == slots[k].generation < MaxGeneration

-----------------------------------------------------------------------------
Init ==
    /\ slots = [k \in Kinds |-> EmptySlot]
    /\ ticks = [t \in Ticker |-> IdleFrame]
    /\ clock = 0

\* Mutant of Load: it replaces the plan of a slot that is running.
LoadOverRunning(p) ==
    /\ Suspended /\ CanReset(p.kind)
    /\ slots' = [slots EXCEPT ![p.kind] = Fresh(slots[p.kind], p, "LOADED")]
    /\ UNCHANGED <<ticks, clock>>

Load(p) ==
    /\ Suspended /\ CanReset(p.kind)
    /\ slots[p.kind].state # "RUNNING"
    /\ slots' = [slots EXCEPT ![p.kind] = Fresh(slots[p.kind], p, "LOADED")]
    /\ UNCHANGED <<ticks, clock>>

LoadFailed(k) ==
    /\ Suspended /\ CanReset(k)
    /\ slots[k].state # "RUNNING"
    /\ slots' = [slots EXCEPT ![k] = Fresh(slots[k], NoPlan, "ERROR")]
    /\ UNCHANGED <<ticks, clock>>

\* Mutant of PastCount: an entry due at the start instant is skipped too.
PastCountInclusive(p, now) ==
    Cardinality({i \in 1..Len(p.entries) : p.entries[i].time <= now})

PastCount(p, now) ==
    Cardinality({i \in 1..Len(p.entries) : p.entries[i].time < now})

\* The entries a START of the slot passes over: only an ATS skips.
SkipCount(s) == IF s.plan.kind = "ats" THEN PastCount(s.plan, clock) ELSE 0

\* Mutant of Started: an ATS that is all in the past is not refused.
StartedAllPast(k, n) ==
    /\ slots' = [slots EXCEPT ![k] =
           [Fresh(slots[k], slots[k].plan, "RUNNING")
               EXCEPT !.base = clock, !.position = n, !.skipped = n]]

\* The slot runs from entry n + 1 on; refused when there is none.
Started(k, n) ==
    /\ n < Total(slots[k])
    /\ slots' = [slots EXCEPT ![k] =
           [Fresh(slots[k], slots[k].plan, "RUNNING")
               EXCEPT !.base = clock, !.position = n, !.skipped = n]]

Start(k) ==
    /\ Suspended /\ CanReset(k)
    /\ slots[k].state \in {"LOADED", "COMPLETE"}
    /\ Started(k, SkipCount(slots[k]))
    /\ UNCHANGED <<ticks, clock>>

Stop(k) ==
    /\ Suspended /\ CanReset(k)
    /\ slots[k].state = "RUNNING"
    /\ slots' = [slots EXCEPT ![k] = Fresh(slots[k], slots[k].plan, "LOADED")]
    /\ UNCHANGED <<ticks, clock>>

Abort(k) ==
    /\ Suspended /\ CanReset(k)
    /\ slots' = [slots EXCEPT ![k] = Fresh(slots[k], NoPlan, "IDLE")]
    /\ UNCHANGED <<ticks, clock>>

-----------------------------------------------------------------------------
TickBegin(t) ==
    /\ Suspended
    /\ ticks[t].status = "idle"
    /\ ticks' = [ticks EXCEPT ![t] =
                    [IdleFrame EXCEPT !.status = "scanning", !.now = clock]]
    /\ UNCHANGED <<slots, clock>>

IsDue(k, now) == Pending(slots[k]) /\ Deadline(slots[k]) <= now

\* Mutant of NextDue: the slots are served in slot order.
NextDueInSlotOrder(now) ==
    {k \in Kinds : IsDue(k, now) /\ (IsDue("ats", now) => k = "ats")}

\* The slot to serve, a set of at most one: earliest deadline, ATS on a tie.
NextDue(now) ==
    {k \in Kinds :
        /\ IsDue(k, now)
        /\ \A j \in Kinds \ {k} :
               IsDue(j, now) =>
                   \/ Deadline(slots[k]) < Deadline(slots[j])
                   \/ Deadline(slots[k]) = Deadline(slots[j]) /\ k = "ats"}

\* Mutant of Fire: the entry is claimed when its command returns.
FireUnclaimed(t, k) ==
    /\ ticks[t].status = "scanning"
    /\ k \in NextDue(ticks[t].now)
    /\ ticks' = [ticks EXCEPT ![t].status = "firing", ![t].kind = k,
                              ![t].generation = slots[k].generation,
                              ![t].command =
                                  slots[k].plan.entries[slots[k].position + 1].command,
                              ![t].lastFired = Deadline(slots[k])]
    /\ UNCHANGED <<slots, clock>>

\* Claim the entry, then await its command.
Fire(t, k) ==
    /\ ticks[t].status = "scanning"
    /\ k \in NextDue(ticks[t].now)
    /\ ticks' = [ticks EXCEPT ![t].status = "firing", ![t].kind = k,
                              ![t].generation = slots[k].generation,
                              ![t].command =
                                  slots[k].plan.entries[slots[k].position + 1].command,
                              ![t].lastFired = Deadline(slots[k])]
    /\ slots' = [slots EXCEPT ![k].position = @ + 1]
    /\ UNCHANGED clock

\* Mutant of Recorded: the record lands whatever run is installed by then.
RecordedAnyway(s, f, result) ==
    [s EXCEPT !.executed = @ + 1, !.lastName = f.command, !.lastResult = result]

\* The slot once the command of frame f has returned with this result.
Recorded(s, f, result) ==
    IF s.generation = f.generation
    THEN [s EXCEPT !.executed = @ + 1, !.lastName = f.command,
                   !.lastResult = result]
    ELSE s

\* The command returns; one that raises counts as FAILED.
FireReturns(t) ==
    /\ Suspended
    /\ ticks[t].status = "firing"
    /\ \E result \in {"SUCCESS", "FAILED"} :
           slots' = [slots EXCEPT ![ticks[t].kind] =
                        Recorded(@, ticks[t], result)]
    /\ ticks' = [ticks EXCEPT ![t].status = "scanning"]
    /\ UNCHANGED clock

\* Mutant of Elapsed: no guard against a clock that was set back.
ElapsedUnguarded(s, now) == now - s.base

Elapsed(s, now) == IF now > s.base THEN now - s.base ELSE 0

Completed(s, now) ==
    IF s.state = "RUNNING" /\ Exhausted(s)
    THEN [s EXCEPT !.state = "COMPLETE", !.finalElapsed = Elapsed(s, now)]
    ELSE s

TickEnd(t) ==
    /\ ticks[t].status = "scanning"
    /\ NextDue(ticks[t].now) = {}
    /\ slots' = [k \in Kinds |-> Completed(slots[k], ticks[t].now)]
    /\ ticks' = [ticks EXCEPT ![t] = IdleFrame]
    /\ UNCHANGED clock

ClockAdvances ==
    /\ Suspended
    /\ clock < MaxClock
    /\ clock' = clock + 1
    /\ UNCHANGED <<slots, ticks>>

ClockStepsBack ==
    /\ Suspended
    /\ ClockMayStepBack
    /\ clock > 0
    /\ clock' = clock - 1
    /\ UNCHANGED <<slots, ticks>>

-----------------------------------------------------------------------------
Command ==
    \/ \E p \in Plans : Load(p)
    \/ \E k \in Kinds : LoadFailed(k) \/ Start(k) \/ Stop(k) \/ Abort(k)

TickStep(t) ==
    \/ TickBegin(t)
    \/ \E k \in Kinds : Fire(t, k)
    \/ FireReturns(t)
    \/ TickEnd(t)

Next ==
    \/ Command
    \/ \E t \in Ticker : TickStep(t)
    \/ ClockAdvances
    \/ ClockStepsBack

Spec == Init /\ [][Next]_vars
-----------------------------------------------------------------------------
\* The calls of tick() that await a command of the run installed in slot k.
InFlight(k) ==
    {t \in Ticker : /\ ticks[t].status = "firing"
                    /\ ticks[t].kind = k
                    /\ ticks[t].generation = slots[k].generation}

TypeOK ==
    /\ slots \in [Kinds -> Slot]
    /\ ticks \in [Ticker -> Frame]
    /\ clock \in Nat
    /\ \A k \in Kinds : slots[k].plan # NoPlan => slots[k].plan.kind = k

(***************************************************************************)
(* Every entry a run has passed is accounted for: recorded as executed,    *)
(* skipped by START, or still awaiting its executor.  So no entry is       *)
(* recorded twice or dropped, and a record of a run that was stopped,      *)
(* aborted or replaced under its own command never lands on the next run   *)
(* (the generation check of _fire).                                        *)
(***************************************************************************)
Ledger ==
    \A k \in Kinds :
        /\ slots[k].executed + slots[k].skipped + Cardinality(InFlight(k))
               = slots[k].position
        /\ slots[k].position <= Total(slots[k])

(***************************************************************************)
(* Outside a run a slot shows nothing of the runs before: STOP brings it   *)
(* back to as-loaded and a record that arrives late does not change that.  *)
(***************************************************************************)
IdleSlotIsPristine ==
    \A k \in Kinds :
        slots[k].state \in {"IDLE", "LOADED", "ERROR"} =>
            slots[k] = [EmptySlot EXCEPT !.plan = slots[k].plan,
                                         !.state = slots[k].state,
                                         !.generation = slots[k].generation]

(***************************************************************************)
(* A call of tick() never awaits a command of a run that has not begun.    *)
(***************************************************************************)
AwaitedRunsHaveBegun ==
    \A t \in Ticker :
        ticks[t].status = "firing" =>
            ticks[t].generation <= slots[ticks[t].kind].generation

\* A slot has a plan in exactly the states that can run one.
PlanOnBoard ==
    \A k \in Kinds : slots[k].plan = NoPlan <=> slots[k].state \in {"IDLE", "ERROR"}

(***************************************************************************)
(* The last command a slot reports is one that its run has dispatched, and *)
(* PENDING means that none has returned.                                   *)
(***************************************************************************)
LastRecordIsOfThisRun ==
    \A k \in Kinds :
        LET s == slots[k] IN
        /\ s.executed = 0 <=> s.lastResult = "PENDING"
        /\ s.executed = 0 <=> s.lastName = ""
        /\ s.executed > 0 =>
               \E i \in (s.skipped + 1)..s.position :
                   s.plan.entries[i].command = s.lastName

(***************************************************************************)
(* COMPLETE is the end of a plan: everything in it was dispatched or       *)
(* skipped, and at least one entry was not skipped (a START whose entries  *)
(* are all in the past is refused, and completes nothing).                 *)
(***************************************************************************)
CompleteMeansDispatched ==
    \A k \in Kinds :
        slots[k].state = "COMPLETE" =>
            /\ slots[k].position = Total(slots[k])
            /\ slots[k].skipped < slots[k].position

(***************************************************************************)
(* A run skips exactly the ATS entries strictly before its START: one due  *)
(* at that very instant is kept and fires.                                 *)
(***************************************************************************)
SkipsExactlyThePast ==
    \A k \in Kinds :
        LET s == slots[k] IN
        s.state \in {"RUNNING", "COMPLETE"} =>
            \A i \in 1..Total(s) :
                i <= s.skipped <=> s.plan.kind = "ats"
                                   /\ s.plan.entries[i].time < s.base

(***************************************************************************)
(* No command has left before its time (for SequencerClock, which says of  *)
(* which clocks that is true).                                             *)
(***************************************************************************)
NothingFiresEarly ==
    \A k \in Kinds :
        LET s == slots[k] IN
        \A i \in (s.skipped + 1)..s.position :
            s.base <= DeadlineAt(s, i) /\ DeadlineAt(s, i) <= clock

(***************************************************************************)
(* While a run lasts (its number is the same) its plan, its base and what  *)
(* it skipped are fixed and its progress only grows; RUNNING is left for   *)
(* COMPLETE only.                                                          *)
(***************************************************************************)
RunIsStable ==
    [][\A k \in Kinds :
           slots'[k].generation = slots[k].generation =>
               /\ slots'[k].plan = slots[k].plan
               /\ slots'[k].base = slots[k].base
               /\ slots'[k].skipped = slots[k].skipped
               /\ slots'[k].position - slots[k].position \in {0, 1}
               /\ slots'[k].executed - slots[k].executed \in {0, 1}
               /\ \/ slots'[k].state = slots[k].state
                  \/ slots[k].state = "RUNNING" /\ slots'[k].state = "COMPLETE"]_vars

(***************************************************************************)
(* The invariant that every step of the sequencer preserves: the Ledger    *)
(* needs to know that a new run has a number no pending command carries.   *)
(***************************************************************************)
IInv ==
    /\ TypeOK
    /\ PlanOnBoard
    /\ AwaitedRunsHaveBegun
    /\ Ledger
    /\ IdleSlotIsPristine
    /\ CompleteMeansDispatched
    /\ \A k \in Kinds : slots[k].state = "RUNNING" => slots[k].skipped < Total(slots[k])

\* What is awaited was dispatched by the run that awaits it.
AwaitedIsDispatched ==
    \A k \in Kinds : \A t \in InFlight(k) :
        \E i \in (slots[k].skipped + 1)..slots[k].position :
            slots[k].plan.entries[i].command = ticks[t].command

\* The inductive invariant behind the records and the window of a run.
RunInv == SkipsExactlyThePast /\ AwaitedIsDispatched /\ LastRecordIsOfThisRun

Phase(s) == CASE s.state \in {"IDLE", "ERROR"} -> "empty"
              [] s.state = "LOADED"            -> "ready"
              [] s.state = "RUNNING"           -> "running"
              [] s.state = "COMPLETE"          -> "done"

AtsPromise == INSTANCE SlotPromise WITH
    plan <- slots["ats"].plan, phase <- Phase(slots["ats"]),
    first <- slots["ats"].skipped, next <- slots["ats"].position

RtsPromise == INSTANCE SlotPromise WITH
    plan <- slots["rts"].plan, phase <- Phase(slots["rts"]),
    first <- slots["rts"].skipped, next <- slots["rts"].position

\* Each slot keeps the promise of SlotPromise, whatever the commands it
\* fires do to it.
KeepsPromise == AtsPromise!Spec /\ RtsPromise!Spec
=============================================================================
