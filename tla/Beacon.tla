------------------------------- MODULE Beacon -------------------------------
(***************************************************************************)
(* The beacon of server.py: every telemetry packet is due on a period of   *)
(* its own, one task (_beacon_loop) sends what is due and sleeps to the    *)
(* next due time, and commands (_apply_link_conventions) gate it, retime   *)
(* packets and open the stored-data downlink session meanwhile.            *)
(*                                                                         *)
(* A pass of the loop contains no await, so it is one step, at one reading *)
(* of the monotonic clock.  The loop may run late by any amount, and the   *)
(* clock may leap (a suspended host).                                      *)
(***************************************************************************)
EXTENDS Integers

CONSTANTS
    Packets,    \* the APIDs of the definition's packets
    EventOnly,  \* those that downlink on events (FILE_RECEIPT)
    Declared,   \* the period of each packet at the start
    Commanded,  \* the periods a SET_TLM_RATE may carry
    Floor,      \* _TLM_PERIOD_FLOOR_S
    MinDelay,   \* the least sleep of the loop
    Priorities, \* the labels of DOWNLINK_START's Priority
    Uptimes,    \* what the monotonic clock may read at the start
    MaxNow      \* bound of that clock

ASSUME BeaconAssumption ==
    /\ Packets # {} /\ EventOnly \subseteq Packets
    /\ Declared \in [Packets -> Nat \ {0}]
    /\ Commanded \subseteq Nat
    /\ Floor \in Nat \ {0} /\ MinDelay \in Nat \ {0}
    /\ Uptimes \subseteq Nat /\ MaxNow \in Nat

\* A Priority argument that is missing or has no label.
Unusable == "unusable"

ASSUME PriorityAssumption == "NORMAL" \in Priorities /\ Unusable \notin Priorities

VARIABLES
    now,       \* time.monotonic()
    periods,   \* _tlm_periods
    nextDue,   \* _next_due; 0 means at once
    enabled,   \* beacon_enabled
    watched,   \* whether there is any client
    wake,      \* _beacon_wake
    wakeAt,    \* when the timer of the sleeping loop goes off
    ticked,    \* last_tick: how far the physics has been advanced
    active,    \* downlink_active
    priority,  \* downlink_priority
    sends      \* history: the last beacons of each packet since it was retimed

schedule == <<periods, nextDue>>
loop == <<wake, wakeAt, ticked>>
session == <<active, priority>>
vars == <<now, schedule, enabled, watched, loop, session, sends>>

(***************************************************************************)
(* When a packet was sent last, before that and before that, and how many  *)
(* of these beacons, up to three, followed each other by their due times.  *)
(***************************************************************************)
Never == -1
Unsent == [last |-> Never, second |-> Never, third |-> Never, kept |-> 0]

-----------------------------------------------------------------------------
Init ==
    /\ now \in Uptimes
    /\ periods = Declared
    /\ nextDue = [p \in Packets |-> 0]
    /\ enabled = TRUE
    /\ watched = FALSE
    /\ wake = FALSE /\ wakeAt = now /\ ticked = now
    /\ active = FALSE /\ priority = "NORMAL"
    /\ sends = [p \in Packets |-> Unsent]

Due == {p \in Packets : nextDue[p] <= now}

\* More than a whole period behind.
Behind(p) == nextDue[p] + periods[p] <= now

\* Mutants of Rearmed: the backlog is kept, and the pace follows the loop.
RearmedWithBacklog(p) == nextDue[p] + periods[p]
RearmedFromNow(p) == now + periods[p]

\* The due time after this one: paced from the due time, but from now if
\* that is past too.
Rearmed(p) == IF Behind(p) THEN now + periods[p] ELSE nextDue[p] + periods[p]

\* The periodic packets the pass tries to send, as far as it gets: a packet
\* that fails is skipped, and the last client may be dropped on the way.
Sendable == IF enabled /\ watched THEN Due \ EventOnly ELSE {}

\* The history of p with one more beacon: a late one starts anew.
Beaconed(p) ==
    LET s == sends[p]
    IN  [last |-> now, second |-> s.last, third |-> s.second,
         kept |-> IF Behind(p) THEN 1 ELSE IF s.kept < 3 THEN s.kept + 1 ELSE 3]

\* A slot of p passes unsent: the next beacon starts anew.
Skipped(p) == [sends[p] EXCEPT !.kept = 0]

Later(a, b) == IF a > b THEN a ELSE b

\* The loop awakes, sends what is due, and sleeps to the next due time.
BeaconPass ==
    /\ wake \/ wakeAt <= now
    /\ ticked' = now
    /\ nextDue' = [p \in Packets |-> IF p \in Due THEN Rearmed(p) ELSE nextDue[p]]
    /\ \E sent \in SUBSET Sendable :
           sends' = [p \in Packets |->
               IF p \in sent THEN Beaconed(p)
               ELSE IF p \in Due THEN Skipped(p) ELSE sends[p]]
    /\ watched' \in IF Sendable = {} THEN {watched} ELSE {watched, FALSE}
    /\ \E d \in {nextDue'[p] : p \in Packets} :
           /\ \A p \in Packets : d <= nextDue'[p]
           /\ wakeAt' = Later(now + MinDelay, d)
    /\ wake' = FALSE
    /\ UNCHANGED <<now, periods, enabled, session>>

-----------------------------------------------------------------------------
\* ENABLE_BEACON with a usable BeaconState.
SetBeaconEnabled(wanted) ==
    /\ enabled' = wanted
    /\ wake' = (wanted \/ wake)
    /\ UNCHANGED <<now, schedule, watched, wakeAt, ticked, session, sends>>

\* Mutant of Retimed: the loop is left asleep.
RetimedUnnudged(p, period) ==
    /\ p \notin EventOnly /\ period >= Floor
    /\ periods' = [periods EXCEPT ![p] = period]
    /\ nextDue' = [nextDue EXCEPT ![p] = 0]
    /\ wake' = wake

\* A new period for a packet that has one, due at once.
Retimed(p, period) ==
    /\ p \notin EventOnly /\ period >= Floor
    /\ periods' = [periods EXCEPT ![p] = period]
    /\ nextDue' = [nextDue EXCEPT ![p] = 0]
    /\ wake' = TRUE

\* SET_TLM_RATE with a usable Packet and PeriodMs.
SetTlmPeriod(p, period) ==
    /\ Retimed(p, period)
    /\ sends' = [sends EXCEPT ![p] = Unsent]
    /\ UNCHANGED <<now, enabled, watched, wakeAt, ticked, session>>

\* Mutant of DownlinkStart (and what its documentation says): NORMAL stands in
\* for a priority that cannot be resolved.
DownlinkStartAsDocumented(label) ==
    /\ active' = TRUE
    /\ priority' = IF label = Unusable THEN "NORMAL" ELSE label
    /\ UNCHANGED <<now, schedule, enabled, watched, loop, sends>>

\* DOWNLINK_START opens the session, or re-asserts it.
DownlinkStart(label) ==
    /\ active' = TRUE
    /\ priority' = IF label = Unusable THEN priority ELSE label
    /\ UNCHANGED <<now, schedule, enabled, watched, loop, sends>>

DownlinkStop ==
    /\ active' = FALSE
    /\ UNCHANGED <<now, schedule, enabled, watched, loop, priority, sends>>

\* A client connects, or the last one goes.
ClientsChange ==
    /\ watched' = ~watched
    /\ UNCHANGED <<now, schedule, enabled, loop, session, sends>>

\* Time passes, by more than a tick when the host was suspended.
Elapse ==
    /\ now' \in (now + 1)..MaxNow
    /\ UNCHANGED <<schedule, enabled, watched, loop, session, sends>>

Convention ==
    \/ \E wanted \in BOOLEAN : SetBeaconEnabled(wanted)
    \/ \E p \in Packets, period \in Commanded : SetTlmPeriod(p, period)
    \/ \E label \in Priorities \cup {Unusable} : DownlinkStart(label)
    \/ DownlinkStop

Next == BeaconPass \/ Convention \/ ClientsChange \/ Elapse

Spec == Init /\ [][Next]_vars
-----------------------------------------------------------------------------
Beacons == [last : Nat \cup {Never}, second : Nat \cup {Never},
            third : Nat \cup {Never}, kept : 0..3]

BeaconTypeOK ==
    /\ now \in Nat
    /\ periods \in [Packets -> Nat \ {0}]
    /\ \A p \in Packets : periods[p] = Declared[p] \/ periods[p] >= Floor
    /\ nextDue \in [Packets -> Nat]
    /\ {enabled, watched, wake, active} \subseteq BOOLEAN
    /\ wakeAt \in Nat /\ ticked \in 0..now
    /\ priority \in Priorities
    /\ sends \in [Packets -> Beacons]

(***************************************************************************)
(* The loop never sleeps over a due packet, nor over one that was retimed  *)
(* while it slept: when it is not nudged, its timer goes off at the next   *)
(* due time at the latest, but for the least delay after its last pass.    *)
(***************************************************************************)
SleepsOverNothing ==
    ~wake => \A p \in Packets : wakeAt <= Later(nextDue[p], ticked + MinDelay)

(***************************************************************************)
(* However late the loop runs and however far the clock leaps, a backlog   *)
(* is not caught up in a burst: between two retimings, any three beacons   *)
(* of a packet in a row take longer than its period.                       *)
(***************************************************************************)
NeverBursts ==
    \A p \in Packets :
        sends[p].third # Never => sends[p].last - sends[p].third > periods[p]

(***************************************************************************)
(* The latency of the loop does not add up: while it is never a period     *)
(* late and no slot goes unsent, packets leave at the declared rate at     *)
(* least, so that three of them begin no more than three periods apart.    *)
(***************************************************************************)
HoldsRate ==
    \A p \in Packets :
        sends[p].kept = 3 => sends[p].last - sends[p].third < 3 * periods[p]

(***************************************************************************)
(* What _set_downlink says of a DOWNLINK_START without a usable Priority:  *)
(* it "falls back to NORMAL" (server.py).                                  *)
(***************************************************************************)
FallsBackToNormal ==
    [][DownlinkStart(Unusable) => priority' = "NORMAL"]_vars
=============================================================================
