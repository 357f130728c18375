--------------------------- MODULE TelemetryCheck ---------------------------
(***************************************************************************)
(* `exercise --verify`: check_telemetry of xtce_sim/exercise.py reads the  *)
(* downlink of a vehicle for a while and judges whether it is healthy.     *)
(* The vehicle sends each packet with its period, at a phase that the      *)
(* check does not know, unless something is wrong with it.                 *)
(***************************************************************************)
EXTENDS Integers, FiniteSets, FiniteSetsExt

CONSTANTS
    Beaconed,      \* the periods that the definition declares, 0 for none
    OnEventOnly,   \* fileservice.event_only_apids
    BeaconDefault, \* the period of a packet that declares none
    VerifyTimeout, \* --verify-timeout, an even number
    Ailments       \* what may be wrong: [silent, lost, spoilt, link]

\* The check cannot know the interval of the vehicle: it takes for granted
\* that a packet without a period is sent within the timeout, and that the
\* vehicle has a packet to send.
ASSUME PeriodsAssumption ==
    /\ OnEventOnly \subseteq DOMAIN Beaconed /\ OnEventOnly # DOMAIN Beaconed
    /\ IsFiniteSet(DOMAIN Beaconed)
    /\ \A a \in DOMAIN Beaconed : Beaconed[a] \in Nat
    /\ VerifyTimeout \in Nat /\ BeaconDefault \in 1..VerifyTimeout

\* What never comes is a packet that the check waits for.
ASSUME AilmentsAssumption ==
    \A x \in Ailments : x.lost \subseteq DOMAIN Beaconed \ OnEventOnly

VARIABLES
    ailment,   \* what is wrong with the vehicle and its link
    due,       \* the vehicle: when it sends each packet next
    elapsed,   \* the time since the check connected
    waiting,   \* since when the check waits in recv()
    health     \* TelemetryHealth (failures by APID), and whether it is final

verifyVars == <<ailment, due, elapsed, waiting, health>>

-----------------------------------------------------------------------------
Wanted == DOMAIN Beaconed \ OnEventOnly
PeriodOf(a) == IF Beaconed[a] = 0 THEN BeaconDefault ELSE Beaconed[a]

\* Mutant of ReadWindow: the slowest packet of the definition does not count.
ReadWindowOfTimeout == VerifyTimeout

ReadWindow ==
    LET slowest == Max({0} \union {Beaconed[a] : a \in DOMAIN Beaconed})
    IN  Max({VerifyTimeout, (5 * slowest) \div 2})

\* The packets of one read are counted; an echo counts as none.
Tallied(h, packets) ==
    [h EXCEPT !.apids = @ \union packets,
              !.failures = @ \union (packets \intersect ailment.spoilt)]

\* Silence and a gap are errors, unless there is one already.
Flagged(h) ==
    [h EXCEPT !.done = TRUE,
              !.error = IF @ # "" THEN @
                        ELSE IF h.apids = {} THEN "silent"
                        ELSE IF Wanted \subseteq h.apids THEN "" ELSE "missing"]

\* The loop goes on after a read that found h.
ReadsOn(h) == elapsed < ReadWindow /\ ~(Wanted \subseteq h.apids)

Healthy(h) == h.error = "" /\ h.failures = {}

-----------------------------------------------------------------------------
VerifyInit ==
    /\ ailment \in Ailments
    /\ due \in [Wanted -> 0..(Max({PeriodOf(a) : a \in Wanted} \union {1}) - 1)]
    /\ \A a \in Wanted : due[a] < PeriodOf(a)
    /\ elapsed = 0 /\ waiting = 0
    /\ health = LET fresh == [apids |-> {}, failures |-> {}, error |-> "", done |-> FALSE]
                IN  IF ailment.link = "refused" THEN [fresh EXCEPT !.error = "refused", !.done = TRUE]
                    ELSE IF ReadsOn(fresh) THEN fresh ELSE Flagged(fresh)

DueNow == {a \in Wanted : due[a] = elapsed}
Flowing(packets) == IF ailment.silent THEN {} ELSE packets \ ailment.lost

\* The vehicle sends what is due, and the check reads it at once or reads
\* several packets in one go; packets on an event come in between.
PacketsRead(events) ==
    LET packets == Flowing(DueNow) \union events
        h == Tallied(health, packets)
    IN  /\ ~health.done /\ (DueNow # {} \/ events # {})
        /\ due' = [a \in Wanted |-> IF a \in DueNow THEN elapsed + PeriodOf(a) ELSE due[a]]
        /\ IF packets = {} THEN UNCHANGED <<health, waiting>>
           ELSE /\ health' = IF ReadsOn(h) THEN h ELSE Flagged(h)
                /\ waiting' = elapsed
        /\ UNCHANGED <<ailment, elapsed>>

\* recv() has waited for as long as it may.
ReadTimesOut ==
    /\ ~health.done /\ elapsed - waiting >= ReadWindow
    /\ health' = Flagged(health)
    /\ UNCHANGED <<ailment, due, elapsed, waiting>>

\* The link closes, or what comes over it cannot be framed.
LinkFails ==
    /\ ~health.done /\ ailment.link \in {"closes", "garbled"}
    /\ health' = Flagged([health EXCEPT !.error = IF ailment.link = "garbled" THEN "framing" ELSE @])
    /\ UNCHANGED <<ailment, due, elapsed, waiting>>

Passes ==
    /\ ~health.done /\ DueNow = {} /\ elapsed - waiting < ReadWindow
    /\ elapsed' = elapsed + 1
    /\ UNCHANGED <<ailment, due, waiting, health>>

VerifyNext ==
    \/ \E events \in SUBSET OnEventOnly : PacketsRead(events)
    \/ ReadTimesOut \/ LinkFails \/ Passes

VerifySpec == VerifyInit /\ [][VerifyNext]_verifyVars

-----------------------------------------------------------------------------
(***************************************************************************)
(* A verdict of the check can be relied on in both ways: a vehicle that    *)
(* sends all of its packets at the periods of its definition is found      *)
(* healthy at whatever phase of them the check connects, and one that is   *)
(* silent, never sends one of them, or sends it so that it does not decode *)
(* is not.                                                                 *)
(***************************************************************************)
HealthIsJudgedRightly ==
    health.done =>
        /\ /\ ~ailment.silent /\ ailment.link = "sound"
           /\ ailment.lost = {} /\ ailment.spoilt = {}
           => Healthy(health)
        /\ ailment.silent \/ ailment.lost # {} => ~Healthy(health)
        /\ ailment.spoilt \intersect Wanted # {} => ~Healthy(health)
=============================================================================
