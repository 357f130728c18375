---------------------------- MODULE ViewerBridge ----------------------------
(***************************************************************************)
(* The viewer bridge of bridge.py: feeds that follow one simulator each    *)
(* and populations that are propagated here publish the states of their    *)
(* satellites to every viewer of one event stream.  A viewer that lags     *)
(* loses its oldest events; at the end every satellite is taken leave of.  *)
(***************************************************************************)
EXTENDS Integers, Sequences, SequencesExt, FiniteSets

CONSTANTS
    Rosters,       \* the configurations: sequences of entries
    Viewers,       \* the clients of /telemetry/stream
    ClientQueueMax \* _CLIENT_QUEUE_MAX

\* What the sentinel is about: a name that no satellite has.
Nobody == ""

(***************************************************************************)
(* A roster entry, as far as uniqueness and size go: what it is, whether   *)
(* its table is well formed (and, for a satellite, its definition          *)
(* bridgeable), and the identities it claims, in the order of publication: *)
(* no name is empty, and the numbers of a constellation tell its own apart. *)
(***************************************************************************)
ASSUME RosterAssumption ==
    /\ ClientQueueMax \in Nat \ {0}
    /\ \A r \in Rosters :
           /\ IsFiniteSet(DOMAIN r)
           /\ IsFiniteSet(UNION {Range(r[i].sats) : i \in DOMAIN r})
           /\ \A i \in DOMAIN r :
                  /\ r[i].kind \in {"satellite", "constellation"}
                  /\ r[i].sound \in BOOLEAN
                  /\ Len(r[i].sats) \in Nat \ {0} /\ DOMAIN r[i].sats = 1..Len(r[i].sats)
                  /\ r[i].kind = "satellite" => Len(r[i].sats) = 1
                  /\ IsInjective(r[i].sats) /\ Nobody \notin Range(r[i].sats)

\* Satellite i of a constellation of count in planes: its plane and its slot.
Spread(count, planes) ==
    [i \in 0..(count - 1) |->
        [plane |-> i \div (count \div planes), slot |-> i % (count \div planes)]]

\* A count that divides evenly gives every slot of every plane one satellite.
ASSUME SpreadAssumption ==
    \A planes \in 1..4, each \in 1..3 :
        LET s == Spread(planes * each, planes)
        IN  {s[i] : i \in DOMAIN s} = [plane : 0..(planes - 1), slot : 0..(each - 1)]

VARIABLES
    roster,    \* the configuration in force
    feeds,     \* where feed_loop of each satellite entry is
    turn,      \* the satellite each population_loop publishes next
    phase,     \* "running", "stopping" (the loops are cancelled), "down"
    viewers,   \* "away" or "streaming"
    queues,    \* the queue of each viewer
    last       \* history: the last event of each satellite each viewer took

publishers == <<feeds, turn>>
streams == <<viewers, queues, last>>
viewerVars == <<roster, publishers, phase, streams>>

-----------------------------------------------------------------------------
Ids(e) == Range(e.sats)

\* One problem anywhere refuses the whole configuration.
Accepted(r) ==
    /\ r # <<>>
    /\ \A i \in DOMAIN r : r[i].sound
    /\ \A i, j \in DOMAIN r : i # j => Ids(r[i]) \cap Ids(r[j]) = {}

Satellites == {i \in DOMAIN roster : roster[i].kind = "satellite"}
Constellations == {i \in DOMAIN roster : roster[i].kind = "constellation"}

Fleet == UNION {Ids(roster[i]) : i \in DOMAIN roster}

\* Mutant of QueueMax: the size of the fleet is not looked at.
QueueMaxFixed == ClientQueueMax

QueueMax ==
    IF 2 * Cardinality(Fleet) > ClientQueueMax THEN 2 * Cardinality(Fleet)
    ELSE ClientQueueMax

State(s) == [event |-> "state", sat |-> s]
Bye(s) == [event |-> "bye", sat |-> s]
Sentinel == [event |-> "end", sat |-> Nobody]

\* The orders in which leave can be taken: of every satellite once.
Orders == {o \in [1..Cardinality(Fleet) -> Fleet] : IsInjective(o)}

\* The byes in their order and the end of the stream.
Farewell(o) == [i \in DOMAIN o |-> Bye(o[i])] \o <<Sentinel>>

\* Events that come to a queue one by one: when it is full, each of them makes
\* room by the oldest, so that the latest are in it in the end.
Pushed(q, events) ==
    LET all == q \o events
        lost == IF Len(all) > QueueMax THEN Len(all) - QueueMax ELSE 0
    IN  SubSeq(all, lost + 1, Len(all))

\* Events to the queue of each viewer.
Broadcast(events) ==
    queues' = [v \in Viewers |->
        IF viewers[v] = "streaming" THEN Pushed(queues[v], events) ELSE queues[v]]

-----------------------------------------------------------------------------
ViewerInit ==
    /\ roster \in {r \in Rosters : Accepted(r)}
    /\ feeds = [i \in Satellites |-> "connecting"]
    /\ turn = [i \in Constellations |-> 1]
    /\ phase = "running"
    /\ viewers = [v \in Viewers |-> "away"]
    /\ queues = [v \in Viewers |-> <<>>]
    /\ last = [v \in Viewers |-> [s \in Fleet |-> "none"]]

FeedGoes(i, from, to) ==
    /\ phase = "running"
    /\ feeds[i] = from
    /\ feeds' = [feeds EXCEPT ![i] = to]
    /\ UNCHANGED <<roster, turn, phase, streams>>

FeedConnected(i) == FeedGoes(i, "connecting", "reading")
\* Refused, the end of the stream, a framing error: all end in a rest.
FeedRests(i) == FeedGoes(i, "connecting", "resting") \/ FeedGoes(i, "reading", "resting")
FeedRetries(i) == FeedGoes(i, "resting", "connecting")

\* A NAV packet with a valid fix (others are skipped).
FeedReads(i) ==
    /\ phase = "running"
    /\ feeds[i] = "reading"
    /\ Broadcast(<<State(roster[i].sats[1])>>)
    /\ UNCHANGED <<roster, publishers, phase, viewers, last>>

PopulationStep(i) ==
    /\ phase = "running"
    /\ Broadcast(<<State(roster[i].sats[turn[i]])>>)
    /\ turn' = [turn EXCEPT ![i] = (@ % Len(roster[i].sats)) + 1]
    /\ UNCHANGED <<roster, feeds, phase, viewers, last>>

\* The bridge is interrupted, or the stream of a feed fails with an error
\* that is no framing error, which ends the whole bridge.
Stops ==
    /\ phase = "running"
    /\ phase' = "stopping"
    /\ UNCHANGED <<roster, publishers, streams>>

Shutdown ==
    /\ phase = "stopping"
    /\ \E o \in Orders : Broadcast(Farewell(o))
    /\ phase' = "down"
    /\ UNCHANGED <<roster, publishers, viewers, last>>

HandleStream(v) ==
    /\ phase = "running"
    /\ viewers[v] = "away"
    /\ viewers' = [viewers EXCEPT ![v] = "streaming"]
    /\ queues' = [queues EXCEPT ![v] = <<>>]
    /\ last' = [last EXCEPT ![v] = [s \in Fleet |-> "none"]]
    /\ UNCHANGED <<roster, publishers, phase>>

ViewerTakes(v) ==
    /\ viewers[v] = "streaming"
    /\ queues[v] # <<>> /\ Head(queues[v]) # Sentinel
    /\ last' = [last EXCEPT ![v][Head(queues[v]).sat] = Head(queues[v]).event]
    /\ queues' = [queues EXCEPT ![v] = Tail(@)]
    /\ UNCHANGED <<roster, publishers, phase, viewers>>

\* The sentinel is taken, the viewer hangs up, or its handler is cancelled.
StreamEnds(v) ==
    /\ viewers[v] = "streaming"
    /\ viewers' = [viewers EXCEPT ![v] = "away"]
    /\ queues' = [queues EXCEPT ![v] = <<>>]
    /\ UNCHANGED <<roster, publishers, phase, last>>

ViewerNext ==
    \/ \E i \in Satellites :
           FeedConnected(i) \/ FeedRests(i) \/ FeedRetries(i) \/ FeedReads(i)
    \/ \E i \in Constellations : PopulationStep(i)
    \/ Stops \/ Shutdown
    \/ \E v \in Viewers : HandleStream(v) \/ ViewerTakes(v) \/ StreamEnds(v)

ViewerSpec == ViewerInit /\ [][ViewerNext]_viewerVars
-----------------------------------------------------------------------------
(***************************************************************************)
(* However far a viewer lags when the bridge goes down, the farewell of    *)
(* every satellite has reached it or waits in its queue, nothing follows a *)
(* farewell, and the sentinel that ends its handler waits behind them all. *)
(***************************************************************************)
FarewellIsComplete ==
    phase = "down" =>
        \A v \in Viewers :
            viewers[v] = "streaming" =>
                /\ queues[v] # <<>> /\ Last(queues[v]) = Sentinel
                /\ \A s \in Fleet :
                       \/ last[v][s] = "bye" /\ \A i \in DOMAIN queues[v] : queues[v][i].sat # s
                       \/ \E i \in DOMAIN queues[v] :
                              /\ queues[v][i] = Bye(s)
                              /\ \A j \in (i + 1)..Len(queues[v]) : queues[v][j].sat # s

(***************************************************************************)
(* A viewer that lags behind a population loses states, never satellites:  *)
(* once its queue is full every satellite of the fleet is in it.  (With    *)
(* feeds a busy satellite may crowd out the others.)                       *)
(***************************************************************************)
LagKeepsTheFleet ==
    Satellites = {} /\ Cardinality(Constellations) = 1 =>
        \A v \in Viewers :
            viewers[v] = "streaming" /\ Len(queues[v]) >= QueueMax =>
                {queues[v][i].sat : i \in DOMAIN queues[v]} \ {Nobody} = Fleet

(***************************************************************************)
(* The bounded queue of a viewer drops its oldest events and still loses   *)
(* no satellite, neither its last word nor, in a population, its state.    *)
(***************************************************************************)
QueuesKeepTheFleet == FarewellIsComplete /\ LagKeepsTheFleet
=============================================================================
