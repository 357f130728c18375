--------------------------- MODULE DownlinkProofs ---------------------------
(***************************************************************************)
(* How telemetry comes down.  Beacon keeps its types, sleeps over nothing, *)
(* never bursts and holds its rate, for any packets, periods and           *)
(* latencies.  The reader of a stream gets what was sent, for packets of   *)
(* any length, any number of senders and of frames, however the stream is  *)
(* cut and whichever byte of it is spoilt.                                 *)
(***************************************************************************)
EXTENDS Beacon, Framing, FiniteSetTheorems, SequenceLemmas

-----------------------------------------------------------------------------
(***************************************************************************)
(* When packets are sent.                                                  *)
(***************************************************************************)
(***************************************************************************)
(* What makes NeverBursts and HoldsRate inductive: where the next due time *)
(* lies after the last beacon and the one before it.                       *)
(***************************************************************************)
PacedAs(s, due, period) ==
    /\ s.last # Never => s.last < due
    /\ s.second # Never => s.last # Never /\ s.second + period < due
    /\ s.kept >= 1 => s.last # Never /\ due <= s.last + period
    /\ s.kept >= 2 => s.second # Never /\ due <= s.second + 2 * period
    /\ s.kept = 3 => s.third # Never

\* What NeverBursts and HoldsRate say of one packet.
Spaced(s, period) == s.third # Never => s.last - s.third > period
Brisk(s, period) == s.kept = 3 => s.last - s.third < 3 * period

PacketInv(s, due, period) ==
    PacedAs(s, due, period) /\ Spaced(s, period) /\ Brisk(s, period)

Paced == \A p \in Packets : PacketInv(sends[p], nextDue[p], periods[p])

BeaconInv == BeaconTypeOK /\ SleepsOverNothing /\ Paced

-----------------------------------------------------------------------------
(***************************************************************************)
(* A beacon sent when due keeps the pace: the record moves up by one and   *)
(* the due time by one period, or to a period from now when it is behind.  *)
(***************************************************************************)
LEMMA SentPacket ==
    ASSUME NEW s \in Beacons, NEW due \in Nat, NEW period \in Nat \ {0},
           NEW at \in Nat, due <= at, PacketInv(s, due, period),
           NEW behind \in BOOLEAN, behind <=> due + period <= at
    PROVE  PacketInv([last |-> at, second |-> s.last, third |-> s.second,
                      kept |-> IF behind THEN 1
                               ELSE IF s.kept < 3 THEN s.kept + 1 ELSE 3],
                     IF behind THEN at + period ELSE due + period, period)
<1> DEFINE kept == IF behind THEN 1 ELSE IF s.kept < 3 THEN s.kept + 1 ELSE 3
           t == [last |-> at, second |-> s.last, third |-> s.second, kept |-> kept]
           next == IF behind THEN at + period ELSE due + period
<1>1. t.last = at /\ t.second = s.last /\ t.third = s.second /\ t.kept = kept
  OBVIOUS
<1>2. /\ s.last \in Int /\ s.second \in Int /\ s.third \in Int /\ s.kept \in 0..3
      /\ next \in Nat /\ kept \in 1..3 /\ at # Never
  BY DEF Beacons, Never
<1>3. at < next /\ next <= at + period
  <2>1. CASE behind       BY <2>1
  <2>2. CASE ~behind      BY <2>2
  <2> QED                 BY <2>1, <2>2
<1>4. s.last # Never => s.last + period < next
  <2>1. s.last # Never => s.last < due   BY DEF PacketInv, PacedAs
  <2>2. CASE behind       BY <2>1, <2>2, <1>2
  <2>3. CASE ~behind      BY <2>1, <2>3, <1>2
  <2> QED                 BY <2>2, <2>3
<1>5. kept >= 2 => /\ ~behind /\ s.kept >= 1
                   /\ s.last # Never /\ next <= s.last + 2 * period
  <2>1. s.kept >= 1 => s.last # Never /\ due <= s.last + period
    BY DEF PacketInv, PacedAs
  <2>2. CASE behind       BY <2>2
  <2>3. CASE ~behind      BY <2>1, <2>3, <1>2
  <2> QED                 BY <2>2, <2>3
<1>6. kept = 3 => ~behind /\ s.kept >= 2
  BY <1>2
<1>7. s.kept >= 2 => s.second # Never /\ due <= s.second + 2 * period
  BY DEF PacketInv, PacedAs
<1>8. s.second # Never => s.last # Never /\ s.second + period < due
  BY DEF PacketInv, PacedAs
<1> HIDE DEF t, next
<1>9. PacedAs(t, next, period)
  <2> HIDE DEF kept
  <2> QED  BY <1>1, <1>2, <1>3, <1>4, <1>5, <1>6, <1>7 DEF PacedAs
<1>10. Spaced(t, period)
  BY <1>1, <1>2, <1>8 DEF Spaced
<1>11. Brisk(t, period)
  <2> HIDE DEF kept
  <2>1. ASSUME kept = 3 PROVE at - s.second < 3 * period
    <3>1. at < due + period   BY <1>6, <2>1
    <3>2. due <= s.second + 2 * period   BY <1>6, <1>7, <2>1
    <3> QED  BY <3>1, <3>2, <1>2
  <2> QED  BY <1>1, <2>1 DEF Brisk
<1> QED  BY <1>9, <1>10, <1>11 DEF PacketInv, t, next

(***************************************************************************)
(* A slot that passes unsent keeps the pace of the beacons before it.      *)
(***************************************************************************)
LEMMA SkippedPacket ==
    ASSUME NEW s \in Beacons, NEW due \in Nat, NEW period \in Nat \ {0},
           NEW next \in Nat, due <= next, PacketInv(s, due, period)
    PROVE  PacketInv([s EXCEPT !.kept = 0], next, period)
<1> DEFINE t == [s EXCEPT !.kept = 0]
<1>1. t.last = s.last /\ t.second = s.second /\ t.third = s.third /\ t.kept = 0
  BY DEF Beacons
<1>2. s.last \in Int /\ s.second \in Int /\ s.third \in Int /\ s.kept \in 0..3
  BY DEF Beacons, Never
<1> HIDE DEF t
<1>3. PacedAs(t, next, period)
  BY <1>1, <1>2 DEF PacketInv, PacedAs
<1>4. Spaced(t, period) /\ Brisk(t, period)
  BY <1>1, <1>2 DEF PacketInv, Spaced, Brisk
<1> QED  BY <1>3, <1>4 DEF PacketInv, t

(***************************************************************************)
(* A packet whose history is empty is paced whenever it is due.            *)
(***************************************************************************)
LEMMA UnsentPacket ==
    ASSUME NEW due \in Nat, NEW period \in Nat \ {0}
    PROVE  PacketInv(Unsent, due, period)
BY DEF PacketInv, PacedAs, Spaced, Brisk, Unsent, Never

(***************************************************************************)
(* Paced is the two properties of the beacons and what they rest on.       *)
(***************************************************************************)
LEMMA PacedMeans == Paced => NeverBursts /\ HoldsRate
BY DEF Paced, PacketInv, Spaced, Brisk, NeverBursts, HoldsRate

-----------------------------------------------------------------------------
(***************************************************************************)
(* The initial states satisfy the invariant.                               *)
(***************************************************************************)
LEMMA InitInv == Init => BeaconInv
<1> SUFFICES ASSUME Init PROVE BeaconInv
  OBVIOUS
<1>1. BeaconTypeOK
  <2>1. Unsent \in Beacons   BY DEF Unsent, Beacons, Never
  <2>2. priority \in Priorities   BY PriorityAssumption DEF Init
  <2>3. now \in Nat /\ wakeAt \in Nat /\ ticked \in 0..now
    BY BeaconAssumption DEF Init
  <2>4. periods \in [Packets -> Nat \ {0}] /\ periods = Declared
    BY BeaconAssumption DEF Init
  <2>5. nextDue \in [Packets -> Nat]   BY DEF Init
  <2>6. {enabled, watched, wake, active} \subseteq BOOLEAN   BY DEF Init
  <2>7. sends \in [Packets -> Beacons]
    BY <2>1 DEF Init
  <2> QED  BY <2>2, <2>3, <2>4, <2>5, <2>6, <2>7 DEF BeaconTypeOK
<1>2. SleepsOverNothing
  <2> SUFFICES ASSUME NEW p \in Packets
               PROVE  wakeAt <= Later(nextDue[p], ticked + MinDelay)
    BY DEF SleepsOverNothing
  <2>1. nextDue[p] = 0 /\ now \in Nat /\ wakeAt = now /\ ticked = now
    BY BeaconAssumption DEF Init
  <2> QED  BY <2>1, BeaconAssumption DEF Later
<1>3. Paced
  <2> SUFFICES ASSUME NEW p \in Packets
               PROVE  PacketInv(sends[p], nextDue[p], periods[p])
    BY DEF Paced
  <2>1. sends[p] = Unsent /\ nextDue[p] = 0 /\ periods[p] \in Nat \ {0}
    BY BeaconAssumption DEF Init
  <2> QED  BY <2>1, UnsentPacket
<1> QED  BY <1>1, <1>2, <1>3 DEF BeaconInv

(***************************************************************************)
(* A pass of the loop keeps the invariant.                                 *)
(***************************************************************************)
LEMMA PassInv == BeaconInv /\ BeaconPass => BeaconInv'
<1> SUFFICES ASSUME BeaconInv, BeaconPass PROVE BeaconInv'
  OBVIOUS
<1> USE DEF BeaconInv
<1>1. \A p \in Packets : Rearmed(p) \in Nat /\ nextDue[p] <= Rearmed(p)
  <2> TAKE p \in Packets
  <2>1. now \in Nat /\ periods[p] \in Nat \ {0} /\ nextDue[p] \in Nat
    BY DEF BeaconTypeOK
  <2> QED  BY <2>1 DEF Rearmed, Behind
<1>2. nextDue' \in [Packets -> Nat]
  BY <1>1 DEF BeaconPass, BeaconTypeOK
<1>3. PICK gone \in SUBSET Sendable :
        sends' = [p \in Packets |->
            IF p \in gone THEN Beaconed(p)
            ELSE IF p \in Due THEN Skipped(p) ELSE sends[p]]
  BY DEF BeaconPass
<1>4. gone \subseteq Due
  BY <1>3 DEF Sendable
<1>5. PICK d \in {nextDue'[p] : p \in Packets} :
        /\ \A p \in Packets : d <= nextDue'[p]
        /\ wakeAt' = Later(now + MinDelay, d)
  BY DEF BeaconPass
<1>6. d \in Nat
  BY <1>2, <1>5
<1>7. sends' \in [Packets -> Beacons]
  <2>1. \A p \in Packets : Beaconed(p) \in Beacons
    <3> TAKE p \in Packets
    <3>1. sends[p] \in Beacons /\ now \in Nat   BY DEF BeaconTypeOK
    <3> HIDE DEF BeaconInv
    <3> QED  BY <3>1 DEF Beaconed, Beacons
  <2>2. \A p \in Packets : Skipped(p) \in Beacons
    <3> TAKE p \in Packets
    <3>1. sends[p] \in Beacons   BY DEF BeaconTypeOK
    <3> HIDE DEF BeaconInv
    <3> QED  BY <3>1 DEF Skipped, Beacons
  <2> QED  BY <1>3, <2>1, <2>2 DEF BeaconTypeOK
<1>8. BeaconTypeOK'
  <2>1. wakeAt' \in Nat
    BY <1>5, <1>6, BeaconAssumption DEF Later, BeaconTypeOK
  <2>2. ticked' \in 0..now'
    BY DEF BeaconPass, BeaconTypeOK
  <2>3. {enabled, watched, wake, active}' \subseteq BOOLEAN
    BY DEF BeaconPass, BeaconTypeOK, session
  <2>4. now' \in Nat /\ priority' \in Priorities
    BY DEF BeaconPass, BeaconTypeOK, session
  <2>5. periods' \in [Packets -> Nat \ {0}]
        /\ \A p \in Packets : periods'[p] = Declared[p] \/ periods'[p] >= Floor
    BY DEF BeaconPass, BeaconTypeOK
  <2> QED  BY <1>2, <1>7, <2>1, <2>2, <2>3, <2>4, <2>5 DEF BeaconTypeOK
<1>9. SleepsOverNothing'
  <2>1. ticked' = now   BY DEF BeaconPass
  <2>2. ASSUME NEW p \in Packets
        PROVE  wakeAt' <= Later(nextDue'[p], ticked' + MinDelay)
    <3>1. now \in Nat /\ nextDue'[p] \in Nat /\ MinDelay \in Nat
      BY <1>2, BeaconAssumption DEF BeaconTypeOK
    <3>2. d <= nextDue'[p] /\ wakeAt' = Later(now + MinDelay, d)
      BY <1>5
    <3> HIDE DEF BeaconInv
    <3> QED  BY <1>6, <2>1, <3>1, <3>2 DEF Later
  <2> QED  BY <2>2 DEF SleepsOverNothing
<1>10. Paced'
  <2> SUFFICES ASSUME NEW p \in Packets
               PROVE  PacketInv(sends'[p], nextDue'[p], periods[p])
    BY DEF Paced, BeaconPass
  <2>1. /\ sends[p] \in Beacons /\ nextDue[p] \in Nat /\ now \in Nat
        /\ periods[p] \in Nat \ {0}
        /\ PacketInv(sends[p], nextDue[p], periods[p])
    BY DEF BeaconTypeOK, Paced
  <2>2. nextDue'[p] = IF p \in Due THEN Rearmed(p) ELSE nextDue[p]
    BY DEF BeaconPass
  <2>3. CASE p \in gone
    <3>1. nextDue[p] <= now /\ p \in Due   BY <1>4, <2>3 DEF Due
    <3>2. sends'[p] = Beaconed(p)   BY <1>3, <2>3
    <3>3. nextDue'[p] = Rearmed(p)  BY <2>2, <3>1
    <3>4. Behind(p) \in BOOLEAN /\ (Behind(p) <=> nextDue[p] + periods[p] <= now)
      BY DEF Behind
    <3>5. PacketInv([last |-> now, second |-> sends[p].last,
                     third |-> sends[p].second,
                     kept |-> IF Behind(p) THEN 1
                              ELSE IF sends[p].kept < 3 THEN sends[p].kept + 1
                              ELSE 3],
                    IF Behind(p) THEN now + periods[p]
                    ELSE nextDue[p] + periods[p], periods[p])
      <4> HIDE DEF BeaconInv
      <4> QED  BY <2>1, <3>1, <3>4, SentPacket
    <3> QED  BY <3>2, <3>3, <3>5 DEF Beaconed, Rearmed
  <2>4. CASE p \in Due /\ p \notin gone
    <3>1. sends'[p] = [sends[p] EXCEPT !.kept = 0]  BY <1>3, <2>4 DEF Skipped
    <3>2. nextDue'[p] = Rearmed(p)   BY <2>2, <2>4
    <3>3. nextDue'[p] \in Nat /\ nextDue[p] <= nextDue'[p]   BY <1>1, <3>2
    <3> QED  BY <2>1, <3>1, <3>3, SkippedPacket
  <2>5. CASE p \notin Due
    <3>1. sends'[p] = sends[p]   BY <1>3, <1>4, <2>5
    <3> QED  BY <2>1, <2>2, <2>5, <3>1
  <2> QED  BY <2>3, <2>4, <2>5
<1> QED  BY <1>8, <1>9, <1>10

(***************************************************************************)
(* The commands of the link conventions keep the invariant.                *)
(***************************************************************************)
LEMMA ConventionInv == BeaconInv /\ Convention => BeaconInv'
<1> SUFFICES ASSUME BeaconInv, Convention PROVE BeaconInv'
  OBVIOUS
<1> USE DEF BeaconInv
<1>1. ASSUME NEW wanted \in BOOLEAN, SetBeaconEnabled(wanted) PROVE BeaconInv'
  <2>1. BeaconTypeOK'
    BY <1>1 DEF SetBeaconEnabled, BeaconTypeOK, schedule, session
  <2>2. SleepsOverNothing'
    BY <1>1 DEF SetBeaconEnabled, SleepsOverNothing, Later, schedule
  <2>3. Paced'
    BY <1>1 DEF SetBeaconEnabled, Paced, schedule
  <2> QED  BY <2>1, <2>2, <2>3
<1>2. ASSUME NEW p \in Packets, NEW period \in Commanded, SetTlmPeriod(p, period)
      PROVE  BeaconInv'
  <2>1. period \in Nat \ {0} /\ period >= Floor
    BY <1>2, BeaconAssumption DEF SetTlmPeriod, Retimed
  <2>2. Unsent \in Beacons   BY DEF Unsent, Beacons, Never
  <2>3. BeaconTypeOK'
    <3>1. periods' \in [Packets -> Nat \ {0}]
          /\ \A q \in Packets : periods'[q] = Declared[q] \/ periods'[q] >= Floor
      BY <1>2, <2>1 DEF SetTlmPeriod, Retimed, BeaconTypeOK
    <3>2. nextDue' \in [Packets -> Nat]
      BY <1>2 DEF SetTlmPeriod, Retimed, BeaconTypeOK
    <3>3. sends' \in [Packets -> Beacons]
      BY <1>2, <2>2 DEF SetTlmPeriod, BeaconTypeOK
    <3> QED  BY <1>2, <3>1, <3>2, <3>3
             DEF SetTlmPeriod, Retimed, BeaconTypeOK, session
  <2>4. SleepsOverNothing'
    BY <1>2 DEF SetTlmPeriod, Retimed, SleepsOverNothing
  <2>5. Paced'
    <3> SUFFICES ASSUME NEW q \in Packets
                 PROVE  PacketInv(sends'[q], nextDue'[q], periods'[q])
      BY DEF Paced
    <3>1. CASE q = p
      <4>1. sends'[q] = Unsent /\ nextDue'[q] = 0 /\ periods'[q] = period
        BY <1>2, <3>1 DEF SetTlmPeriod, Retimed, BeaconTypeOK
      <4> QED  BY <2>1, <4>1, UnsentPacket
    <3>2. CASE q # p
      <4>1. sends'[q] = sends[q] /\ nextDue'[q] = nextDue[q] /\ periods'[q] = periods[q]
        BY <1>2, <3>2 DEF SetTlmPeriod, Retimed, BeaconTypeOK
      <4> QED  BY <4>1 DEF Paced
    <3> QED  BY <3>1, <3>2
  <2> QED  BY <2>3, <2>4, <2>5
<1>3. ASSUME NEW label \in Priorities \cup {Unusable}, DownlinkStart(label)
      PROVE  BeaconInv'
  <2>1. BeaconTypeOK'
    BY <1>3 DEF DownlinkStart, BeaconTypeOK, schedule, loop
  <2>2. SleepsOverNothing' /\ Paced'
    BY <1>3 DEF DownlinkStart, SleepsOverNothing, Paced, schedule, loop
  <2> QED  BY <2>1, <2>2
<1>4. ASSUME DownlinkStop PROVE BeaconInv'
  <2>1. BeaconTypeOK'
    BY <1>4 DEF DownlinkStop, BeaconTypeOK, schedule, loop
  <2>2. SleepsOverNothing' /\ Paced'
    BY <1>4 DEF DownlinkStop, SleepsOverNothing, Paced, schedule, loop
  <2> QED  BY <2>1, <2>2
<1> QED  BY <1>1, <1>2, <1>3, <1>4 DEF Convention

(***************************************************************************)
(* Clients that come and go, and time, keep the invariant.                 *)
(***************************************************************************)
LEMMA OutsideInv ==
    BeaconInv /\ (ClientsChange \/ Elapse \/ UNCHANGED vars) => BeaconInv'
<1> SUFFICES ASSUME BeaconInv, ClientsChange \/ Elapse \/ UNCHANGED vars
             PROVE  BeaconInv'
  OBVIOUS
<1> USE DEF BeaconInv
<1>1. UNCHANGED <<periods, nextDue, enabled, wake, wakeAt, ticked, active,
                  priority, sends>>
  BY DEF ClientsChange, Elapse, vars, schedule, loop, session
<1>2. now' \in Nat /\ now <= now'
  BY BeaconAssumption DEF ClientsChange, Elapse, vars, BeaconTypeOK
<1>3. watched' \in BOOLEAN
  BY DEF ClientsChange, Elapse, vars, BeaconTypeOK
<1>4. BeaconTypeOK'
  BY <1>1, <1>2, <1>3 DEF BeaconTypeOK
<1>5. SleepsOverNothing' /\ Paced'
  BY <1>1 DEF SleepsOverNothing, Paced
<1> QED  BY <1>4, <1>5

(***************************************************************************)
(* BeaconInv is an invariant of the beacon.                                *)
(***************************************************************************)
THEOREM Invariance == Spec => []BeaconInv
<1>1. Init => BeaconInv
  BY InitInv
<1>2. BeaconInv /\ [Next]_vars => BeaconInv'
  BY PassInv, ConventionInv, OutsideInv DEF Next
<1> QED  BY <1>1, <1>2, PTL DEF Spec

-----------------------------------------------------------------------------
(***************************************************************************)
(* Every period stays positive and either declared or at the floor or      *)
(* above it, and the physics is never advanced past the clock.             *)
(***************************************************************************)
THEOREM BeaconTypeCorrect == Spec => []BeaconTypeOK
<1>1. BeaconInv => BeaconTypeOK   BY DEF BeaconInv
<1> QED  BY Invariance, <1>1, PTL

(***************************************************************************)
(* The loop of the server is never asleep past the due time of a packet    *)
(* without having been nudged, whatever was retimed meanwhile.             *)
(***************************************************************************)
THEOREM NothingIsSleptOver == Spec => []SleepsOverNothing
<1>1. BeaconInv => SleepsOverNothing   BY DEF BeaconInv
<1> QED  BY Invariance, <1>1, PTL

(***************************************************************************)
(* A backlog is dropped and not caught up: three beacons of a packet in a  *)
(* row take more than its period, for every latency of the loop.           *)
(***************************************************************************)
THEOREM BacklogNeverBursts == Spec => []NeverBursts
<1>1. BeaconInv => NeverBursts   BY PacedMeans DEF BeaconInv
<1> QED  BY Invariance, <1>1, PTL

(***************************************************************************)
(* Latencies below a period do not add up: the declared rate is held.      *)
(***************************************************************************)
THEOREM RateHolds == Spec => []HoldsRate
<1>1. BeaconInv => HoldsRate   BY PacedMeans DEF BeaconInv
<1> QED  BY Invariance, <1>1, PTL

-----------------------------------------------------------------------------
(***************************************************************************)
(* What a reader takes out of the stream.                                  *)
(***************************************************************************)
Octets == [v : Int, of : Seq(Nat)]

FramingType ==
    /\ counts \in [Apids -> Nat]
    /\ sent \in Seq([packet : Seq(Nat), sound : BOOLEAN, end : Nat])
    /\ flow \in Seq(Octets)
    /\ reader \in [buffer : Seq(Octets), got : Seq(Seq(Nat)), reads : BOOLEAN]

\* The bytes of frame k, and of all frames up to it.
Size(k) == Len(sent[k].packet) + 4
Upto(k) == IF k = 0 THEN 0 ELSE sent[k].end

\* The frames follow each other without a gap.
FramesInPlace ==
    /\ \A k \in 1..Len(sent) : Len(sent[k].packet) >= 2 /\ Upto(k) = Upto(k - 1) + Size(k)
    /\ \A j, k \in 0..Len(sent) : j <= k => Upto(j) <= Upto(k)

\* A packet has the count of those that its APID sent before, the next one
\* that of all of them.
Of(a) == {j \in 1..Len(sent) : sent[j].packet[1] = a}
CountsInStep ==
    /\ \A a \in Apids : counts[a] = Cardinality(Of(a)) % 2^SeqBits
    /\ \A k \in 1..Len(sent) :
           /\ sent[k].packet[1] \in Apids
           /\ sent[k].packet[2] =
                 Cardinality({j \in 1..(k - 1) : sent[j].packet[1] = sent[k].packet[1]})
                     % 2^SeqBits

\* The frame of p lies in s behind its first i bytes: as it was sent, or with
\* one of its bytes spoilt.
Intact(s, i, p) == \A j \in 1..(Len(p) + 4) : s[i + j] = Framed(p)[j]
Spoilt(s, i, p) ==
    \E x \in 1..(Len(p) + 4) :
        /\ \E v \in {0, 9} : Framed(p)[x].v # v /\ s[i + x] = Byte(v)
        /\ \A j \in 1..(Len(p) + 4) : j # x => s[i + j] = Framed(p)[j]

\* The reader has taken this many frames; what lies behind them is in its
\* buffer or on its way.
Taken == Len(reader.got)
Ahead == reader.buffer \o flow
Start(k) == Upto(k - 1) - Upto(Taken)

\* What was taken is what was sent.
TakenAsSent ==
    /\ Taken <= Len(sent)
    /\ \A k \in 1..Taken : sent[k].sound /\ reader.got[k] = sent[k].packet
    /\ Upto(Taken) + Len(flow) <= Total

\* While it reads, everything else is still there, and the buffer is too short
\* for the next frame, unless that is spoilt.
RestAhead ==
    reader.reads =>
        /\ Upto(Taken) + Len(reader.buffer) + Len(flow) = Total
        /\ \A k \in (Taken + 1)..Len(sent) :
               IF sent[k].sound THEN Intact(Ahead, Start(k), sent[k].packet)
               ELSE Spoilt(Ahead, Start(k), sent[k].packet)
        /\ Taken < Len(sent) /\ sent[Taken + 1].sound =>
               Len(reader.buffer) < Size(Taken + 1)

(***************************************************************************)
(* The inductive invariant of a stream.                                    *)
(***************************************************************************)
StreamInv == FramingType /\ FramesInPlace /\ CountsInStep /\ TakenAsSent /\ RestAhead

-----------------------------------------------------------------------------

\* The bytes of a frame.
LEMMA FramedBytes ==
    ASSUME NEW p \in Seq(Nat)
    PROVE  LET s == Framed(p)
               n == Len(p) + 4
           IN  /\ s \in Seq(Octets) /\ Len(s) = n /\ n \in Nat
               /\ s[1] = Byte(n \div 256) /\ s[2] = Byte(n % 256)
               /\ \A j \in 1..Len(p) : s[j + 2] = Byte(p[j])
               /\ s[n - 1] = [v |-> -1, of |-> p] /\ s[n] = [v |-> -2, of |-> p]
  <1> DEFINE n == Len(p) + 4
             head == <<Byte(n \div 256), Byte(n % 256)>>
  <1>1. n \in Nat /\ n \div 256 \in Nat /\ n % 256 \in Nat
    BY LenProperties
  <1>2. \A k \in Nat : Byte(k) \in Octets
    BY EmptySeq DEF Byte, Octets
  <1>3. head \in Seq(Octets) /\ Len(head) = 2 /\ head[1] = Byte(n \div 256)
        /\ head[2] = Byte(n % 256)
    BY <1>1, <1>2
  <1>4. /\ Bytes(p) \in Seq(Octets) /\ Len(Bytes(p)) = Len(p)
        /\ \A j \in 1..Len(p) : Bytes(p)[j] = Byte(p[j])
    <2>1. \A j \in 1..Len(p) : Byte(p[j]) \in Octets
      BY <1>2, ElementOfSeq
    <2> QED BY <2>1, LenProperties DEF Bytes
  <1>5. /\ Crc(p) \in Seq(Octets) /\ Len(Crc(p)) = 2
        /\ Crc(p)[1] = [v |-> -1, of |-> p] /\ Crc(p)[2] = [v |-> -2, of |-> p]
    BY DEF Crc, Octets
  <1> HIDE DEF n, head
  <1>8. n = Len(p) + 4 /\ Len(p) \in Nat
    BY LenProperties DEF n
  <1>6. /\ head \o Bytes(p) \in Seq(Octets) /\ Len(head \o Bytes(p)) = 2 + Len(p)
        /\ \A i \in 1..2 + Len(p) :
              (head \o Bytes(p))[i] = IF i <= 2 THEN head[i] ELSE Bytes(p)[i - 2]
    <2>1. \A s, t \in Seq(Octets) :
              /\ s \o t \in Seq(Octets)
              /\ Len(s \o t) = Len(s) + Len(t)
              /\ \A i \in 1..Len(s) + Len(t) :
                     (s \o t)[i] = IF i <= Len(s) THEN s[i] ELSE t[i - Len(s)]
      BY ConcatProperties
    <2>2. /\ head \o Bytes(p) \in Seq(Octets)
          /\ Len(head \o Bytes(p)) = Len(head) + Len(Bytes(p))
          /\ \A i \in 1..Len(head) + Len(Bytes(p)) :
                (head \o Bytes(p))[i] =
                    IF i <= Len(head) THEN head[i] ELSE Bytes(p)[i - Len(head)]
      BY <2>1, <1>3, <1>4
    <2>3. Len(head) = 2 /\ Len(Bytes(p)) = Len(p)
      BY <1>3, <1>4
    <2> QED BY <2>2, <2>3
  <1>7. /\ Framed(p) = (head \o Bytes(p)) \o Crc(p)
        /\ Framed(p) \in Seq(Octets) /\ Len(Framed(p)) = 2 + Len(p) + 2
        /\ \A i \in 1..2 + Len(p) + 2 :
              Framed(p)[i] = IF i <= 2 + Len(p) THEN (head \o Bytes(p))[i]
                             ELSE Crc(p)[i - (2 + Len(p))]
    <2>1. Framed(p) = (head \o Bytes(p)) \o Crc(p)
      BY DEF Framed, head, n
    <2>2. \A s, t \in Seq(Octets) :
              /\ s \o t \in Seq(Octets)
              /\ Len(s \o t) = Len(s) + Len(t)
              /\ \A i \in 1..Len(s) + Len(t) :
                     (s \o t)[i] = IF i <= Len(s) THEN s[i] ELSE t[i - Len(s)]
      BY ConcatProperties
    <2> DEFINE s == head \o Bytes(p)
               t == Crc(p)
    <2>3. s \in Seq(Octets) /\ t \in Seq(Octets) /\ Len(s) = 2 + Len(p) /\ Len(t) = 2
          /\ Framed(p) = s \o t
      BY <2>1, <1>5, <1>6
    <2> HIDE DEF s, t
    <2>4. /\ s \o t \in Seq(Octets) /\ Len(s \o t) = Len(s) + Len(t)
          /\ \A i \in 1..Len(s) + Len(t) :
                 (s \o t)[i] = IF i <= Len(s) THEN s[i] ELSE t[i - Len(s)]
      BY <2>2, <2>3
    <2>5. /\ Framed(p) \in Seq(Octets) /\ Len(Framed(p)) = 2 + Len(p) + 2
          /\ \A i \in 1..2 + Len(p) + 2 :
                Framed(p)[i] = IF i <= 2 + Len(p) THEN s[i] ELSE t[i - (2 + Len(p))]
      BY <2>3, <2>4
    <2> QED BY <2>1, <2>5 DEF s, t
  <1>9. /\ Framed(p)[1] = head[1] /\ Framed(p)[2] = head[2]
        /\ \A j \in 1..Len(p) : Framed(p)[j + 2] = Bytes(p)[j]
        /\ Framed(p)[n - 1] = Crc(p)[1] /\ Framed(p)[n] = Crc(p)[2]
    <2>1. Framed(p)[1] = head[1] /\ Framed(p)[2] = head[2]
      BY <1>6, <1>7, <1>8
    <2>2. ASSUME NEW j \in 1..Len(p)
          PROVE  Framed(p)[j + 2] = Bytes(p)[j]
      <3>1. /\ j + 2 \in 1..2 + Len(p) /\ j + 2 \in 1..2 + Len(p) + 2
            /\ ~(j + 2 <= 2) /\ j + 2 <= 2 + Len(p) /\ (j + 2) - 2 = j
        BY <1>8
      <3>2. Framed(p)[j + 2] = (head \o Bytes(p))[j + 2]
        BY <1>7, <3>1
      <3> QED BY <1>6, <3>1, <3>2
    <2>3. Framed(p)[n - 1] = Crc(p)[1]
      <3>1. /\ n - 1 \in 1..2 + Len(p) + 2 /\ ~(n - 1 <= 2 + Len(p))
            /\ (n - 1) - (2 + Len(p)) = 1
        BY <1>8
      <3> QED BY <1>7, <3>1
    <2>4. Framed(p)[n] = Crc(p)[2]
      <3>1. /\ n \in 1..2 + Len(p) + 2 /\ ~(n <= 2 + Len(p)) /\ n - (2 + Len(p)) = 2
        BY <1>8
      <3> QED BY <1>7, <3>1
    <2> QED BY <2>1, <2>2, <2>3, <2>4
  <1>10. Framed(p) \in Seq(Octets) /\ Len(Framed(p)) = n /\ n \in Nat
    BY <1>7, <1>8
  <1>11. /\ Framed(p)[1] = Byte(n \div 256) /\ Framed(p)[2] = Byte(n % 256)
         /\ \A j \in 1..Len(p) : Framed(p)[j + 2] = Byte(p[j])
         /\ Framed(p)[n - 1] = [v |-> -1, of |-> p] /\ Framed(p)[n] = [v |-> -2, of |-> p]
    BY <1>3, <1>4, <1>5, <1>9, ZenonT(60)
  <1> QED BY <1>10, <1>11, ZenonT(60) DEF n

\* Its first bytes, with its length written out.
LEMMA FramedStarts ==
    ASSUME NEW p \in Seq(Nat)
    PROVE  /\ Framed(p)[1] = Byte((Len(p) + 4) \div 256)
           /\ Framed(p)[2] = Byte((Len(p) + 4) % 256)
           /\ \A j \in 1..Len(p) : Framed(p)[j + 2] = Byte(p[j])
  BY ZenonT(60), FramedBytes

-----------------------------------------------------------------------------
\* The scanner of deframe, and where it goes from a frame that checks.
Scan(b) == CHOOSE scan : scan = [i \in 0..Len(b) |-> ScanFrom(b, i, scan)]

GoesOn(b, i) ==
    ~(Len(b) - i >= 2 /\ Length(b, i) < 4) /\ ~Incomplete(b, i) /\ Checks(b, i)

\* A frame that checks has a length, and the scanner moves on by it inside the buffer.
LEMMA GoesForward ==
    ASSUME NEW b \in Seq(Octets), NEW i \in 0..Len(b), GoesOn(b, i)
    PROVE  Length(b, i) \in Nat /\ Length(b, i) >= 4 /\ i + Length(b, i) \in 0..Len(b)
  <1>1. Len(b) \in Nat /\ Len(b) - i >= 2
    BY LenProperties DEF GoesOn, Incomplete
  <1>2. i + 1 \in 1..Len(b) /\ i + 2 \in 1..Len(b)
    BY <1>1
  <1>3. b[i + 1].v \in Int /\ b[i + 2].v \in Int
    <2>1. b[i + 1] \in Octets /\ b[i + 2] \in Octets
      BY <1>2, ElementOfSeq
    <2> QED BY <2>1 DEF Octets
  <1>4. Length(b, i) \in Int
    BY <1>3 DEF Length
  <1> QED BY <1>1, <1>4 DEF GoesOn, Incomplete

\* A pass depends on later ones only.
LEMMA ScanLooksAhead ==
    ASSUME NEW b \in Seq(Octets), NEW i \in 0..Len(b), NEW f, NEW g,
           \A j \in 0..Len(b) : j > i => f[j] = g[j]
    PROVE  ScanFrom(b, i, f) = ScanFrom(b, i, g)
  <1>1. GoesOn(b, i) => f[i + Length(b, i)] = g[i + Length(b, i)]
    BY GoesForward, LenProperties
  <1> QED BY <1>1 DEF ScanFrom, GoesOn

\* The recursion of the scanner is well-founded, so it has what it defines.
THEOREM ScansAreDefined ==
    ASSUME NEW b \in Seq(Octets)
    PROVE  /\ Deframe(b) = Scan(b)[0]
           /\ \A i \in 0..Len(b) : Scan(b)[i] = ScanFrom(b, i, Scan(b))
  <1> DEFINE N == Len(b)
             Solves(f, k) == \A i \in 0..N : i >= k => f[i] = ScanFrom(b, i, f)
             Fine == {k \in 0..(N + 1) : \E f : f = [i \in 0..N |-> f[i]] /\ Solves(f, k)}
  <1>1. N \in Nat
    BY LenProperties
  <1>2. N + 1 \in Fine
    <2> DEFINE f == [i \in 0..N |-> 0]
    <2>1. f = [i \in 0..N |-> f[i]]
      OBVIOUS
    <2>2. Solves(f, N + 1)
      BY <1>1
    <2>3. N + 1 \in 0..(N + 1)
      BY <1>1
    <2> HIDE DEF f, Solves
    <2> QED BY <2>1, <2>2, <2>3
  <1>3. PICK k \in Fine : \A y \in Fine : k <= y
    <2>1. Fine \in SUBSET Nat /\ Fine # {}
      BY <1>1, <1>2
    <2> HIDE DEF Fine
    <2> QED BY <2>1, LeastNumber
  <1>4. ASSUME k # 0 PROVE FALSE
    <2>1. PICK f : f = [i \in 0..N |-> f[i]] /\ Solves(f, k)
      BY <1>3
    <2>2. k - 1 \in 0..N /\ k \in 0..(N + 1)
      BY <1>1, <1>3, <1>4
    <2> DEFINE g == [i \in 0..N |-> IF i = k - 1 THEN ScanFrom(b, k - 1, f) ELSE f[i]]
    <2>3. \A i \in 0..N : i >= k => g[i] = f[i]
      BY <2>2
    <2>4. ASSUME NEW i \in 0..N, i >= k - 1
          PROVE  g[i] = ScanFrom(b, i, g)
      <3>1. \A j \in 0..N : j > i => f[j] = g[j]
        BY <2>2, <2>3, <2>4
      <3>2. ScanFrom(b, i, f) = ScanFrom(b, i, g)
        <4> HIDE DEF g
        <4> QED BY <3>1, ScanLooksAhead
      <3>3. g[i] = ScanFrom(b, i, f)
        <4>1. CASE i = k - 1
          BY <2>2, <4>1
        <4>2. CASE i # k - 1
          BY <2>1, <2>2, <2>4, <4>2
        <4> QED BY <4>1, <4>2
      <3> QED BY <3>2, <3>3
    <2>5. g = [i \in 0..N |-> g[i]]
      OBVIOUS
    <2>6. k - 1 \in Fine
      <3>1. Solves(g, k - 1)
        <4> HIDE DEF g
        <4> QED BY <2>4
      <3>2. k - 1 \in 0..(N + 1)
        BY <2>2, <1>1
      <3> HIDE DEF g, Solves
      <3> QED BY <2>5, <3>1, <3>2
    <2> QED BY <1>1, <1>3, <2>2, <2>6
  <1>5. PICK f : f = [i \in 0..N |-> f[i]] /\ Solves(f, 0)
    BY <1>3, <1>4
  <1>6. f = [i \in 0..Len(b) |-> ScanFrom(b, i, f)]
    BY <1>1, <1>5
  <1>7. Scan(b) = [i \in 0..Len(b) |-> ScanFrom(b, i, Scan(b))]
    BY <1>6 DEF Scan
  <1>8. Deframe(b) = Scan(b)[0]
    BY DEF Deframe, Scan
  <1>9. \A i \in 0..Len(b) : Scan(b)[i] = ScanFrom(b, i, Scan(b))
    BY <1>7
  <1> QED BY <1>8, <1>9

-----------------------------------------------------------------------------
\* What a check looks at.
LEMMA CheckedBytes ==
    ASSUME NEW b \in Seq(Octets), NEW i \in 0..Len(b),
           NEW n \in Nat, n >= 4, n = Length(b, i), i + n <= Len(b)
    PROVE  /\ Contents(b, i) = [j \in 1..(n - 4) |-> b[i + 2 + j].v]
           /\ Contents(b, i) \in Seq(Int) /\ Len(Contents(b, i)) = n - 4
           /\ Checks(b, i) <=> /\ b[i + n - 1] = [v |-> -1, of |-> Contents(b, i)]
                               /\ b[i + n] = [v |-> -2, of |-> Contents(b, i)]
  <1>1. Len(b) \in Nat /\ \A q \in 1..Len(b) : b[q] \in Octets
    BY LenProperties, ElementOfSeq
  <1>2. /\ Body(b, i) \in Seq(Octets) /\ Len(Body(b, i)) = n - 4
        /\ \A j \in 1..(n - 4) : Body(b, i)[j] = b[i + 2 + j]
    <2>1. /\ i + 3 \in Int /\ i + n - 2 \in Int
          /\ \A q \in (i + 3)..(i + n - 2) : b[q] \in Octets
      BY <1>1
    <2>2. /\ SubSeq(b, i + 3, i + n - 2) \in Seq(Octets)
          /\ Len(SubSeq(b, i + 3, i + n - 2)) =
                IF i + 3 <= i + n - 2 THEN i + n - 2 - (i + 3) + 1 ELSE 0
          /\ \A j \in 1..(i + n - 2 - (i + 3) + 1) :
                SubSeq(b, i + 3, i + n - 2)[j] = b[i + 3 + j - 1]
      BY SMTT(40), <2>1, SubSeqProperties
    <2>3. Body(b, i) = SubSeq(b, i + 3, i + n - 2)
      BY DEF Body
    <2>4. /\ (IF i + 3 <= i + n - 2 THEN i + n - 2 - (i + 3) + 1 ELSE 0) = n - 4
          /\ i + n - 2 - (i + 3) + 1 = n - 4
          /\ \A j \in 1..(n - 4) : i + 3 + j - 1 = i + 2 + j
      OBVIOUS
    <2> QED BY <2>2, <2>3, <2>4
  <1>3. Contents(b, i) = [j \in 1..(n - 4) |-> b[i + 2 + j].v]
    BY <1>2 DEF Contents
  <1>4. \A j \in 1..(n - 4) : b[i + 2 + j].v \in Int
    <2>1. \A j \in 1..(n - 4) : i + 2 + j \in 1..Len(b)
      BY <1>1
    <2> QED BY <1>1, <2>1 DEF Octets
  <1>5. Contents(b, i) \in Seq(Int) /\ Len(Contents(b, i)) = n - 4
    <2> DEFINE m == n - 4
               c == [j \in 1..m |-> b[i + 2 + j].v]
    <2>1. m \in Nat /\ c \in [1..m -> Int]
      BY <1>4
    <2>2. c = Contents(b, i)
      BY <1>3
    <2> HIDE DEF m, c
    <2>3. c \in Seq(Int) /\ Len(c) = m
      BY <2>1
    <2> QED BY <2>2, <2>3 DEF m
  <1>6. Checks(b, i) <=> /\ b[i + n - 1] = [v |-> -1, of |-> Contents(b, i)]
                         /\ b[i + n] = [v |-> -2, of |-> Contents(b, i)]
    <2> DEFINE c == Contents(b, i)
               tail == SubSeq(b, i + n - 1, i + n)
    <2>1. Checks(b, i) <=> tail = <<[v |-> -1, of |-> c], [v |-> -2, of |-> c]>>
      BY DEF Checks, Crc
    <2>2. /\ i + n - 1 \in Int /\ i + n \in Int
          /\ \A q \in (i + n - 1)..(i + n) : b[q] \in Octets
      BY <1>1
    <2>3. /\ tail \in Seq(Octets)
          /\ Len(tail) = IF i + n - 1 <= i + n THEN i + n - (i + n - 1) + 1 ELSE 0
          /\ \A j \in 1..(i + n - (i + n - 1) + 1) : tail[j] = b[i + n - 1 + j - 1]
      <3>1. \A l, h \in Int : (\A q \in l..h : b[q] \in Octets) =>
                /\ SubSeq(b, l, h) \in Seq(Octets)
                /\ Len(SubSeq(b, l, h)) = IF l <= h THEN h - l + 1 ELSE 0
                /\ \A j \in 1..(h - l + 1) : SubSeq(b, l, h)[j] = b[l + j - 1]
        BY SMTT(40), SubSeqProperties
      <3> DEFINE lo == i + n - 1
                 hi == i + n
      <3>2. lo \in Int /\ hi \in Int /\ \A q \in lo..hi : b[q] \in Octets
        BY <2>2
      <3>3. tail = SubSeq(b, lo, hi)
        OBVIOUS
      <3> HIDE DEF tail, lo, hi
      <3>4. /\ tail \in Seq(Octets)
            /\ Len(tail) = IF lo <= hi THEN hi - lo + 1 ELSE 0
            /\ \A j \in 1..(hi - lo + 1) : tail[j] = b[lo + j - 1]
        BY <3>1, <3>2, <3>3, Zenon
      <3> QED BY <3>4 DEF lo, hi
    <2>4. Len(tail) = 2 /\ tail[1] = b[i + n - 1] /\ tail[2] = b[i + n]
      <3>1. /\ (IF i + n - 1 <= i + n THEN i + n - (i + n - 1) + 1 ELSE 0) = 2
            /\ i + n - (i + n - 1) + 1 = 2 /\ i + n - 1 + 1 - 1 = i + n - 1
            /\ i + n - 1 + 2 - 1 = i + n
        OBVIOUS
      <3>2. Len(tail) = 2 /\ \A j \in 1..2 : tail[j] = b[i + n - 1 + j - 1]
        BY <2>3, <3>1
      <3> HIDE DEF tail
      <3> QED BY <3>1, <3>2
    <2>5. tail = <<tail[1], tail[2]>>
      <3> HIDE DEF tail
      <3> QED BY <2>3, <2>4
    <2> HIDE DEF tail, c
    <2>6. tail = <<[v |-> -1, of |-> c], [v |-> -2, of |-> c]>>
          <=> tail[1] = [v |-> -1, of |-> c] /\ tail[2] = [v |-> -2, of |-> c]
      BY <2>5
    <2> QED BY <2>1, <2>4, <2>6 DEF c
  <1> QED BY <1>3, <1>5, <1>6

\* Two bytes make up a number.
LEMMA TwoBytes ==
    ASSUME NEW n \in Nat
    PROVE  n \div 256 \in Nat /\ n % 256 \in Nat /\ (n \div 256) * 256 + (n % 256) = n
  OBVIOUS

\* The length that a frame begins with.
LEMMA LengthOfFrame ==
    ASSUME NEW p \in Seq(Nat), NEW b, NEW i \in Nat,
           b[i + 1] = Byte((Len(p) + 4) \div 256), b[i + 2] = Byte((Len(p) + 4) % 256)
    PROVE  Length(b, i) = Len(p) + 4
  <1> DEFINE n == Len(p) + 4
  <1>1. n \in Nat
    BY LenProperties
  <1>2. b[i + 1].v = n \div 256 /\ b[i + 2].v = n % 256
    BY DEF Byte
  <1> HIDE DEF n
  <1>3. (n \div 256) * 256 + (n % 256) = n
    BY <1>1, TwoBytes
  <1>4. Length(b, i) = (n \div 256) * 256 + (n % 256)
    BY <1>2 DEF Length
  <1> QED BY <1>3, <1>4, Zenon DEF n

\* An intact frame checks.
LEMMA IntactChecks ==
    ASSUME NEW p \in Seq(Nat), NEW b \in Seq(Octets), NEW i \in 0..Len(b),
           i + Len(p) + 4 <= Len(b),
           Intact(b, i, p)
    PROVE  GoesOn(b, i) /\ Length(b, i) = Len(p) + 4 /\ Contents(b, i) = p
  <1> DEFINE n == Len(p) + 4
  <1>a. \A j \in 1..n : b[i + j] = Framed(p)[j]
    BY DEF Intact
  <1>1. n \in Nat /\ n >= 4 /\ Len(b) \in Nat /\ Len(p) \in Nat
    BY LenProperties
  <1>0. /\ Framed(p)[1] = Byte(n \div 256) /\ Framed(p)[2] = Byte(n % 256)
        /\ \A j \in 1..Len(p) : Framed(p)[j + 2] = Byte(p[j])
        /\ Framed(p)[n - 1] = [v |-> -1, of |-> p] /\ Framed(p)[n] = [v |-> -2, of |-> p]
    BY SMTT(40), FramedBytes
  <1>2. b[i + 1] = Byte(n \div 256) /\ b[i + 2] = Byte(n % 256)
    <2>1. 1 \in 1..n /\ 2 \in 1..n
      BY <1>1
    <2> QED BY <1>0, <1>a, <2>1, Zenon
  <1>3. Length(b, i) = n
    BY <1>1, <1>2, LengthOfFrame
  <1>4. /\ b[i + n - 1] = [v |-> -1, of |-> p] /\ b[i + n] = [v |-> -2, of |-> p]
    <2>1. n - 1 \in 1..n /\ n \in 1..n
      BY <1>1
    <2>2. b[i + (n - 1)] = Framed(p)[n - 1] /\ b[i + n] = Framed(p)[n]
      BY <1>a, <2>1, Zenon
    <2>3. i + (n - 1) = i + n - 1
      BY <1>1
    <2> QED BY <1>0, <2>2, <2>3, Zenon
  <1>5. \A j \in 1..Len(p) : b[i + 2 + j].v = p[j]
    <2>0. \A j \in 1..Len(p) : j + 2 \in 1..n
      BY <1>1
    <2>1. \A j \in 1..Len(p) : b[i + (j + 2)] = Byte(p[j])
      BY <1>0, <1>a, <2>0, ZenonT(60)
    <2>2. \A j \in 1..Len(p) : i + (j + 2) = i + 2 + j
      BY <1>1
    <2>3. \A j \in 1..Len(p) : b[i + 2 + j] = Byte(p[j])
      BY <2>1, <2>2, Zenon
    <2>4. \A k : Byte(k).v = k
      BY DEF Byte
    <2> QED BY <2>3, <2>4
  <1>6. Contents(b, i) = [j \in 1..(n - 4) |-> b[i + 2 + j].v]
        /\ (Checks(b, i) <=> /\ b[i + n - 1] = [v |-> -1, of |-> Contents(b, i)]
                             /\ b[i + n] = [v |-> -2, of |-> Contents(b, i)])
    BY SMTT(40), <1>1, <1>3, CheckedBytes
  <1>7. Contents(b, i) = p
    <2>1. n - 4 = Len(p) /\ p = [j \in 1..Len(p) |-> p[j]]
      BY <1>1, LenProperties
    <2>2. Contents(b, i) = [j \in 1..Len(p) |-> b[i + 2 + j].v]
      BY <1>6, <2>1, Zenon
    <2>3. Contents(b, i) = [j \in 1..Len(p) |-> p[j]]
      BY <1>5, <2>2
    <2> QED BY <2>1, <2>3, Zenon
  <1>8. GoesOn(b, i)
    <2>1. Checks(b, i)
      BY <1>4, <1>6, <1>7, Zenon
    <2>2. ~(Length(b, i) < 4) /\ ~Incomplete(b, i)
      <3>1. i + n <= Len(b)
        BY <1>1
      <3> HIDE DEF n
      <3> QED BY <1>1, <1>3, <3>1 DEF Incomplete
    <2> QED BY <2>1, <2>2, Zenon DEF GoesOn
  <1> QED BY <1>3, <1>7, <1>8

-----------------------------------------------------------------------------
\* The frames of a stream in numbers.
LEMMA FrameFacts ==
    ASSUME FramingType, FramesInPlace
    PROVE  /\ Len(sent) \in Nat
           /\ \A k \in 1..Len(sent) :
                  /\ sent[k] \in [packet : Seq(Nat), sound : BOOLEAN, end : Nat]
                  /\ sent[k].packet \in Seq(Nat) /\ sent[k].sound \in BOOLEAN
                  /\ Len(sent[k].packet) \in Nat
                  /\ Size(k) \in Nat /\ Size(k) >= 6
                  /\ Upto(k) = Upto(k - 1) + Size(k)
           /\ \A k \in 0..Len(sent) : Upto(k) \in Nat
           /\ \A j, k \in 0..Len(sent) : j <= k => Upto(j) <= Upto(k)
           /\ Total = Upto(Len(sent))
  <1>1. Len(sent) \in Nat
    BY LenProperties DEF FramingType
  <1>2. ASSUME NEW k \in 1..Len(sent)
        PROVE  /\ sent[k] \in [packet : Seq(Nat), sound : BOOLEAN, end : Nat]
               /\ sent[k].packet \in Seq(Nat) /\ sent[k].sound \in BOOLEAN
               /\ sent[k].end \in Nat
               /\ Len(sent[k].packet) \in Nat
               /\ Size(k) \in Nat /\ Size(k) >= 6
               /\ Upto(k) = Upto(k - 1) + Size(k)
    <2>1. sent[k] \in [packet : Seq(Nat), sound : BOOLEAN, end : Nat]
      BY ElementOfSeq DEF FramingType
    <2>2. sent[k].packet \in Seq(Nat) /\ sent[k].sound \in BOOLEAN /\ sent[k].end \in Nat
      BY <2>1
    <2>3. Len(sent[k].packet) \in Nat
      BY <2>2, LenProperties
    <2>4. Len(sent[k].packet) >= 2 /\ Upto(k) = Upto(k - 1) + Size(k)
      BY DEF FramesInPlace
    <2> QED BY <2>1, <2>2, <2>3, <2>4 DEF Size
  <1>3. \A k \in 0..Len(sent) : Upto(k) \in Nat
    BY <1>1, <1>2 DEF Upto
  <1>4. Total = Upto(Len(sent))
    <2>1. CASE sent = <<>>
      BY <2>1 DEF Total, Upto
    <2>2. CASE sent # <<>>
      <3>1. Len(sent) # 0
        BY <2>2, EmptySeq DEF FramingType
      <3> QED BY <2>2, <3>1 DEF Total, Upto, Last
    <2> QED BY <2>1, <2>2
  <1> QED BY <1>1, <1>2, <1>3, <1>4 DEF FramesInPlace

\* Every byte of the stream is one of a frame.
LEMMA ByteOfFrame ==
    ASSUME FramingType, FramesInPlace, NEW m \in 0..Len(sent),
           NEW q \in Nat, Upto(m) < q, q <= Upto(Len(sent))
    PROVE  \E k \in (m + 1)..Len(sent) : Upto(k - 1) < q /\ q <= Upto(k)
  <1> DEFINE T == {k \in 0..Len(sent) : q <= Upto(k)}
  <1>1. Len(sent) \in T /\ T \in SUBSET Nat
    BY FrameFacts
  <1>2. PICK k \in T : \A j \in T : k <= j
    <2> HIDE DEF T
    <2> QED BY <1>1, LeastNumber
  <1>3. k > m
    BY <1>2, FrameFacts
  <1>4. k - 1 \in 0..Len(sent) /\ k - 1 \notin T
    BY <1>2, <1>3, FrameFacts
  <1>5. Upto(k - 1) < q
    <2>1. ~(q <= Upto(k - 1)) /\ Upto(k - 1) \in Nat
      BY <1>4, FrameFacts, Zenon
    <2> QED BY <2>1
  <1> QED BY <1>2, <1>3, <1>5, FrameFacts

\* The bytes that a reader has not taken yet: how they end a frame.
LEMMA ByteAhead ==
    ASSUME FramingType, FramesInPlace, TakenAsSent, RestAhead, reader.reads,
           NEW k \in (Taken + 1)..Len(sent), NEW x \in 1..Size(k),
           Ahead[Upto(k - 1) - Upto(Taken) + x].v = -2
    PROVE  x = Size(k) /\ Ahead[Upto(k - 1) - Upto(Taken) + x].of = sent[k].packet
  <1> DEFINE p == sent[k].packet
             y == Ahead[Upto(k - 1) - Upto(Taken) + x]
  <1>1. k \in 1..Len(sent)
    <2>1. Taken \in Nat
      BY LenProperties DEF FramingType, Taken
    <2> QED BY <2>1
  <1>2. p \in Seq(Nat) /\ Len(p) \in Nat /\ Size(k) = Len(p) + 4
    BY <1>1, FrameFacts DEF Size
  <1>3. y = Framed(p)[x] \/ y = Byte(0) \/ y = Byte(9)
    <2>1. CASE sent[k].sound
      BY <1>2, <2>1 DEF RestAhead, Intact, Start
    <2>2. CASE ~sent[k].sound
      BY <1>2, <2>2 DEF RestAhead, Spoilt, Start
    <2> QED BY <2>1, <2>2
  <1>4. y = Framed(p)[x]
    <2>1. Byte(0).v = 0 /\ Byte(9).v = 9
      BY DEF Byte
    <2>2. y.v = -2
      OBVIOUS
    <2> HIDE DEF y
    <2> QED BY <1>3, <2>1, <2>2
  <1>5. Framed(p)[x].v = -2
    <2> HIDE DEF p
    <2> QED BY <1>4
  <1>6. \A n \in Nat : Byte(n).v # -2
    BY DEF Byte
  <1>7. x = Size(k)
    <2> DEFINE n == Len(p) + 4
    <2>1. /\ Framed(p)[1] = Byte(n \div 256) /\ Framed(p)[2] = Byte(n % 256)
          /\ \A j \in 1..Len(p) : Framed(p)[j + 2] = Byte(p[j])
          /\ Framed(p)[n - 1] = [v |-> -1, of |-> p]
      BY <1>2, FramedBytes
    <2>2. n \div 256 \in Nat /\ n % 256 \in Nat
      <3>1. n \in Nat
        BY <1>2
      <3> HIDE DEF n
      <3> QED BY <3>1
    <2>3. x # 1 /\ x # 2
      <3> HIDE DEF n, p
      <3> QED BY <1>5, <1>6, <2>1, <2>2
    <2>4. x # n - 1
      BY <1>5, <2>1
    <2>5. ASSUME x \in 3..(n - 2) PROVE FALSE
      <3>1. x - 2 \in 1..Len(p) /\ (x - 2) + 2 = x
        BY <1>2, <2>5
      <3>2. Framed(p)[x] = Byte(p[x - 2])
        BY <2>1, <3>1
      <3>3. p[x - 2] \in Nat
        BY <1>2, <3>1, ElementOfSeq
      <3> QED BY <1>5, <1>6, <3>2, <3>3
    <2>6. x \in 1..n /\ n \in Nat
      BY <1>2
    <2>7. x = n
      <3> HIDE DEF n
      <3> QED BY <2>3, <2>4, <2>5, <2>6
    <2> QED BY <1>2, <2>7
  <1>8. y.of = p
    <2>1. Framed(p)[Len(p) + 4] = [v |-> -2, of |-> p]
      BY <1>2, FramedBytes
    <2> QED BY <1>2, <1>4, <1>7, <2>1
  <1> QED BY <1>7, <1>8

\* What lies ahead of a reader.
LEMMA AheadFacts ==
    ASSUME FramingType, FramesInPlace, TakenAsSent, RestAhead, reader.reads
    PROVE  /\ Taken \in 0..Len(sent) /\ Ahead \in Seq(Octets)
           /\ Len(Ahead) \in Nat /\ Len(Ahead) = Upto(Len(sent)) - Upto(Taken)
           /\ Len(Ahead) = Len(reader.buffer) + Len(flow)
           /\ \A k \in (Taken + 1)..Len(sent) : k \in 1..Len(sent) /\ k - 1 \in Taken..Len(sent)
           /\ \A m \in Taken..Len(sent) :
                  m \in 0..Len(sent) /\ Upto(m) - Upto(Taken) \in 0..Len(Ahead)
  <1>1. Taken \in Nat /\ Taken <= Len(sent) /\ Len(sent) \in Nat
    BY LenProperties, FrameFacts DEF FramingType, Taken, TakenAsSent
  <1>2. /\ Ahead \in Seq(Octets) /\ Len(Ahead) = Len(reader.buffer) + Len(flow)
        /\ Len(reader.buffer) \in Nat /\ Len(flow) \in Nat
    BY ConcatProperties, LenProperties DEF FramingType, Ahead
  <1>3. Upto(Taken) + Len(reader.buffer) + Len(flow) = Upto(Len(sent))
    BY FrameFacts DEF RestAhead
  <1>4. Upto(Taken) \in Nat /\ Upto(Len(sent)) \in Nat
    BY <1>1, FrameFacts
  <1>5. ASSUME NEW m \in Taken..Len(sent)
        PROVE  m \in 0..Len(sent) /\ Upto(m) - Upto(Taken) \in 0..Len(Ahead)
    <2>1. m \in 0..Len(sent) /\ Taken \in 0..Len(sent) /\ Len(sent) \in 0..Len(sent)
      BY <1>1
    <2>2. Upto(m) \in Nat /\ Upto(Taken) <= Upto(m) /\ Upto(m) <= Upto(Len(sent))
      BY <1>1, <2>1, FrameFacts
    <2> QED BY <1>2, <1>3, <1>4, <2>1, <2>2
  <1> QED BY <1>1, <1>2, <1>3, <1>4, <1>5

\* A frame with a spoilt byte does not check as itself.
LEMMA SpoiltNeverChecks ==
    ASSUME NEW p \in Seq(Nat), NEW b, NEW i \in Nat, NEW n \in Nat, n = Len(p) + 4,
           Length(b, i) = n, \A j \in 1..Len(p) : b[i + 2 + j].v = p[j],
           b[i + n - 1].v = -1, b[i + n].v = -2
    PROVE  ~Spoilt(b, i, p)
  <1>0. SUFFICES ASSUME Spoilt(b, i, p) PROVE FALSE
    OBVIOUS
  <1>f. PICK y \in 1..n :
            /\ \E v \in {0, 9} : Framed(p)[y].v # v /\ b[i + y] = Byte(v)
            /\ \A j \in 1..n : j # y => b[i + j] = Framed(p)[j]
    BY <1>0 DEF Spoilt
  <1>g. PICK v \in {0, 9} : Framed(p)[y].v # v /\ b[i + y] = Byte(v)
    BY <1>f
  <1>1. Len(p) \in Nat /\ n >= 4
    BY LenProperties
  <1>2. /\ Framed(p)[1] = Byte(n \div 256) /\ Framed(p)[2] = Byte(n % 256)
        /\ \A j \in 1..Len(p) : Framed(p)[j + 2] = Byte(p[j])
    <2>1. /\ Framed(p)[1] = Byte((Len(p) + 4) \div 256)
          /\ Framed(p)[2] = Byte((Len(p) + 4) % 256)
          /\ \A j \in 1..Len(p) : Framed(p)[j + 2] = Byte(p[j])
      BY FramedStarts, Zenon
    <2> QED BY <2>1, Zenon
  <1>3. \A z : Byte(z).v = z
    BY DEF Byte
  <1>4. v \in Int /\ v >= 0 /\ b[i + y].v = v /\ Framed(p)[y].v # v
    BY <1>3, <1>g
  <1>e. \A j \in 1..n : j # y => b[i + j] = Framed(p)[j]
    BY <1>f
  <1>5. CASE y \in 1..2
    <2>1. n = b[i + 1].v * 256 + b[i + 2].v
      BY DEF Length
    <2>2. PICK h \in Nat, l \in Nat : h = n \div 256 /\ l = n % 256 /\ h * 256 + l = n
      <3>1. n \div 256 \in Nat /\ n % 256 \in Nat /\ (n \div 256) * 256 + (n % 256) = n
        BY TwoBytes
      <3> QED BY <3>1, ZenonT(60)
    <2>3. Framed(p)[1].v = h /\ Framed(p)[2].v = l
      BY <1>2, <1>3, <2>2
    <2>4. 1 \in 1..n /\ 2 \in 1..n
      BY <1>1
    <2>5. CASE y = 1
      <3>1. b[i + 1].v = v /\ b[i + 2].v = l /\ v # h
        BY <1>4, <1>e, <2>3, <2>4, <2>5
      <3>2. n = v * 256 + l
        BY <2>1, <3>1, Zenon
      <3> QED BY <1>4, <2>2, <3>1, <3>2
    <2>6. CASE y = 2
      <3>1. b[i + 2].v = v /\ b[i + 1].v = h /\ v # l
        BY <1>4, <1>e, <2>3, <2>4, <2>6
      <3>2. n = h * 256 + v
        BY <2>1, <3>1, Zenon
      <3> QED BY <1>4, <2>2, <3>1, <3>2
    <2> QED BY <1>5, <2>5, <2>6
  <1>6. CASE y \in 3..(n - 2)
    <2>1. y - 2 \in 1..Len(p) /\ (y - 2) + 2 = y /\ i + 2 + (y - 2) = i + y
      BY <1>1, <1>6
    <2>2. b[i + y].v = p[y - 2]
      <3>1. b[i + 2 + (y - 2)].v = p[y - 2]
        BY <2>1
      <3> QED BY <2>1, <3>1
    <2>3. Framed(p)[y].v = p[y - 2]
      <3>1. Framed(p)[(y - 2) + 2] = Byte(p[y - 2])
        BY <1>2, <2>1
      <3> QED BY <1>3, <2>1, <3>1
    <2> QED BY <1>4, <2>2, <2>3
  <1>7. CASE y \in (n - 1)..n
    <2>1. b[i + (n - 1)].v = -1
      <3>1. i + (n - 1) = i + n - 1
        OBVIOUS
      <3> QED BY <3>1
    <2>2. y = n - 1 \/ y = n
      BY <1>1, <1>7
    <2>3. b[i + y].v = -1 \/ b[i + y].v = -2
      BY <2>1, <2>2, Zenon
    <2> QED BY <1>4, <2>3
  <1> QED BY <1>1, <1>5, <1>6, <1>7

\* The same number taken from both sides.
LEMMA Cancel ==
    \A t, u, w, z \in Nat : t - u + w = z + w => t = u + z
  OBVIOUS

\* The bytes that are looked at: as many as have arrived of what lies ahead.
Arriving(b) ==
    b \in Seq(Octets) /\ Len(b) <= Len(Ahead) /\ \A j \in 1..Len(b) : b[j] = Ahead[j]

\* Of the frames ahead only an intact one can check, and only as itself.
LEMMA OnlyIntactChecks ==
    ASSUME FramingType, FramesInPlace, TakenAsSent, RestAhead, reader.reads,
           NEW b, Arriving(b), NEW k \in (Taken + 1)..Len(sent),
           NEW i \in 0..Len(b), i = Start(k), GoesOn(b, i)
    PROVE  sent[k].sound /\ Length(b, i) = Size(k) /\ Contents(b, i) = sent[k].packet
  <1>b. /\ b \in Seq(Octets) /\ Len(b) <= Len(Ahead)
        /\ \A j \in 1..Len(b) : b[j] = Ahead[j]
    BY DEF Arriving
  <1>i. i = Upto(k - 1) - Upto(Taken)
    BY DEF Start
  <1>0. PICK n : n = Length(b, i)
    OBVIOUS
  <1>1. n \in Nat /\ n >= 4 /\ i + n \in 0..Len(b) /\ Len(b) \in Nat
    BY <1>0, <1>b, GoesForward, LenProperties
  <1>p. PICK p : p = sent[k].packet
    OBVIOUS
  <1>c. PICK c : c = Contents(b, i)
    OBVIOUS
  <1>2. /\ c = [j \in 1..(n - 4) |-> b[i + 2 + j].v]
        /\ Len(c) = n - 4
        /\ b[i + n - 1] = [v |-> -1, of |-> c]
        /\ b[i + n] = [v |-> -2, of |-> c]
    <2>1. Checks(b, i) /\ i + n <= Len(b)
      BY <1>1 DEF GoesOn
    <2>2. b \in Seq(Octets) /\ i \in 0..Len(b) /\ n \in Nat /\ n >= 4 /\ n = Length(b, i)
          /\ i + n <= Len(b)
      BY <1>0, <1>1, <1>b, <2>1
    <2>3. /\ Contents(b, i) = [j \in 1..(n - 4) |-> b[i + 2 + j].v]
          /\ Len(Contents(b, i)) = n - 4
          /\ Checks(b, i) <=> /\ b[i + n - 1] = [v |-> -1, of |-> Contents(b, i)]
                              /\ b[i + n] = [v |-> -2, of |-> Contents(b, i)]
      BY <2>2, CheckedBytes, ZenonT(60)
    <2> QED BY <1>c, <2>1, <2>3, ZenonT(60)
  <1>3. /\ k \in 1..Len(sent) /\ k - 1 \in 0..Len(sent) /\ k - 1 >= Taken
        /\ Len(Ahead) = Upto(Len(sent)) - Upto(Taken) /\ Taken \in 0..Len(sent)
        /\ Len(sent) \in Nat
    BY AheadFacts, FrameFacts
  <1>u. Upto(k - 1) \in Nat /\ Upto(Taken) \in Nat /\ Upto(Len(sent)) \in Nat
    BY SMTT(40), <1>3, FrameFacts
  <1>q. PICK q \in Nat : q = Upto(Taken) + i + n
    BY <1>1, <1>u
  <1>4. PICK m \in k..Len(sent) : Upto(m - 1) < q /\ q <= Upto(m)
    <2>1. Upto(k - 1) < q /\ q <= Upto(Len(sent))
      <3>1. i \in Nat /\ i + n <= Len(b)
        BY <1>1
      <3>2. Len(b) <= Upto(Len(sent)) - Upto(Taken)
        BY <1>3, <1>b, Zenon
      <3>3. Upto(Taken) + i = Upto(k - 1)
        BY <1>i, <1>u, <3>1
      <3>4. q = Upto(k - 1) + n
        BY <1>q, <3>3, Zenon
      <3>5. Upto(k - 1) < q
        BY <1>1, <1>u, <3>4
      <3>6. q <= Upto(Taken) + Len(b)
        BY SMTT(40), <1>1, <1>q, <1>u, <3>1
      <3>7. Upto(Taken) + Len(b) <= Upto(Len(sent))
        BY <1>1, <1>u, <3>2
      <3> QED BY <1>1, <1>u, <3>5, <3>6, <3>7
    <2>2. \E m \in (k - 1 + 1)..Len(sent) : Upto(m - 1) < q /\ q <= Upto(m)
      BY <1>3, <2>1, ByteOfFrame
    <2>3. k - 1 + 1 = k
      BY <1>3
    <2> QED BY <2>2, <2>3
  <1>5. /\ m \in (Taken + 1)..Len(sent) /\ m \in 1..Len(sent)
        /\ m - 1 \in 0..Len(sent) /\ m >= k /\ m \in Nat /\ k \in Nat
    BY <1>3, <1>4
  <1>6. /\ Upto(m) = Upto(m - 1) + Size(m) /\ Size(m) \in Nat
        /\ Size(k) \in Nat /\ Size(k) >= 6 /\ Upto(k) = Upto(k - 1) + Size(k)
        /\ Len(sent[m].packet) \in Nat /\ p \in Seq(Nat) /\ Len(p) \in Nat
        /\ sent[k].sound \in BOOLEAN
    BY <1>3, <1>5, <1>p, FrameFacts, Zenon
  <1>v. Upto(m - 1) \in Nat /\ Upto(k) \in Nat
    BY <1>3, <1>5, FrameFacts
  <1>7. PICK x \in 1..Size(m) : x = q - Upto(m - 1) /\ Upto(m - 1) - Upto(Taken) + x = i + n
    <2>1. i \in Nat
      BY <1>1
    <2>2. q <= Upto(m - 1) + Size(m)
      BY <1>4, <1>6, Zenon
    <2>3. q - Upto(m - 1) \in 1..Size(m)
      BY SMTT(40), <1>4, <1>6, <1>v, <2>2
    <2>4. q - Upto(Taken) = i + n
      <3>1. \A t, u, w \in Nat : (t + u + w) - t = u + w
        OBVIOUS
      <3> QED BY <1>1, <1>q, <1>u, <2>1, <3>1, ZenonT(60)
    <2>5. Upto(m - 1) - Upto(Taken) + (q - Upto(m - 1)) = q - Upto(Taken)
      BY <1>u, <1>v
    <2> QED BY <2>3, <2>4, <2>5
  <1>8. Ahead[i + n] = [v |-> -2, of |-> c]
    <2>1. i + n \in 1..Len(b)
      BY <1>1
    <2> QED BY <1>2, <1>b, <2>1
  <1>9. x = Size(m) /\ c = sent[m].packet
    <2>1. Ahead[Upto(m - 1) - Upto(Taken) + x].v = -2
      BY <1>7, <1>8
    <2>2. x = Size(m) /\ Ahead[Upto(m - 1) - Upto(Taken) + x].of = sent[m].packet
      BY <1>5, <1>7, <2>1, ByteAhead
    <2> QED BY <1>7, <1>8, <2>2
  <1>10. n = Size(m)
    <2>1. Size(m) = Len(c) + 4
      BY <1>9 DEF Size
    <2> QED BY <1>1, <1>2, <1>6, <2>1
  <1>11. Upto(m - 1) = Upto(k - 1)
    <2>1. i \in Nat
      BY <1>1
    <2>2. Upto(m - 1) - Upto(Taken) + n = i + n
      BY <1>7, <1>9, <1>10
    <2>3. Upto(m - 1) = Upto(Taken) + i
      <3>1. PICK t : t = Upto(m - 1)
        OBVIOUS
      <3>2. PICK u : u = Upto(Taken)
        OBVIOUS
      <3>3. t \in Nat /\ u \in Nat /\ n \in Nat
        BY <1>1, <1>u, <1>v, <3>1, <3>2
      <3>4. t - u + n = i + n
        BY <2>2, <3>1, <3>2, Zenon
      <3>5. t \in Nat
        BY <2>1, <3>3, <3>4
      <3>6. u \in Nat
        BY <2>1, <3>3, <3>4
      <3>7. n \in Nat
        BY <2>1, <3>3, <3>4
      <3>8. i \in Nat
        BY <2>1, <3>3, <3>4
      <3>9. t - u + n = i + n
        BY <2>1, <3>3, <3>4
      <3>10. \A w \in Nat : t - u + w = i + w => t = u + i
        BY <3>5, <3>6, <3>8, Cancel
      <3>11. t - u + n = i + n => t = u + i
        BY <3>7, <3>10
      <3> QED BY <3>1, <3>2, <3>9, <3>11
    <2> QED BY <1>i, <1>u, <2>1, <2>3
  <1>12. m = k
    <2>1. SUFFICES ASSUME m # k PROVE FALSE
      OBVIOUS
    <2>2. k \in 0..Len(sent) /\ k <= m - 1
      BY <1>3, <1>5, <2>1
    <2>3. Upto(k) <= Upto(m - 1)
      BY <1>5, <2>2, FrameFacts
    <2> QED BY SMTT(40), <1>6, <1>11, <1>u, <1>v, <2>3
  <1>13. n = Len(p) + 4 /\ n = Size(k) /\ c = p
    BY <1>9, <1>10, <1>12, <1>p DEF Size
  <1>14. ASSUME ~sent[k].sound PROVE FALSE
    <2>1. Spoilt(Ahead, i, p)
      BY <1>14, <1>p DEF RestAhead
    <2>2. \A j \in 1..n : b[i + j] = Ahead[i + j]
      <3>1. \A j \in 1..n : i + j \in 1..Len(b)
        BY <1>1
      <3> QED BY <1>b, <3>1
    <2>3. Spoilt(b, i, p)
      BY <1>13, <2>1, <2>2 DEF Spoilt
    <2>4. \A j \in 1..Len(p) : b[i + 2 + j].v = p[j]
      <3>1. n - 4 = Len(p)
        BY <1>6, <1>13
      <3> QED BY <1>2, <1>13, <3>1
    <2>5. i \in Nat
      BY <1>1
    <2>6. p \in Seq(Nat)
      BY <1>6
    <2>7. n \in Nat
      BY <1>1
    <2>8. n = Len(p) + 4
      BY <1>13
    <2>9. Length(b, i) = n
      BY <1>0
    <2>10. b[i + n - 1].v = -1
      BY <1>2
    <2>11. b[i + n].v = -2
      BY <1>2
    <2> QED BY <2>3, <2>4, <2>5, <2>6, <2>7, <2>8, <2>9, <2>10, <2>11, SpoiltNeverChecks
  <1> QED BY <1>0, <1>13, <1>14, <1>6, <1>p, <1>c

-----------------------------------------------------------------------------
\* Where the scanner is when it has read up to frame m, and what it gives from
\* there: the frames after m one by one, up to some frame l, and the bytes
\* behind that, too few for the next one, unless that is spoilt.
At(m) == Upto(m) - Upto(Taken)

Gives(b, m, l, r) ==
    /\ l \in m..Len(sent) /\ At(l) <= Len(b)
    /\ r.packets \in Seq(Seq(Nat)) /\ Len(r.packets) = l - m
    /\ \A j \in 1..(l - m) : sent[m + j].sound /\ r.packets[j] = sent[m + j].packet
    /\ r.rest = SubSeq(b, At(l) + 1, Len(b))
    /\ l < Len(sent) /\ sent[l + 1].sound => Len(b) - At(l) < Size(l + 1)

\* Where frame m + 1 starts.
LEMMA AtFacts ==
    ASSUME FramingType, FramesInPlace, TakenAsSent, RestAhead, reader.reads,
           NEW m \in Taken..Len(sent)
    PROVE  /\ At(m) \in 0..Len(Ahead) /\ At(m) = Start(m + 1)
           /\ m \in Nat /\ m \in 0..Len(sent)
           /\ m = Len(sent) => At(m) = Len(Ahead)
           /\ m # Len(sent) => /\ m + 1 \in (Taken + 1)..Len(sent)
                               /\ m + 1 \in Taken..Len(sent)
                               /\ m + 1 \in 1..Len(sent)
                               /\ At(m + 1) = At(m) + Size(m + 1)
  <1>1. /\ Taken \in 0..Len(sent) /\ Len(Ahead) = Upto(Len(sent)) - Upto(Taken)
        /\ Upto(m) - Upto(Taken) \in 0..Len(Ahead) /\ Len(sent) \in Nat
    BY AheadFacts, FrameFacts
  <1>2. m \in Nat /\ m \in 0..Len(sent) /\ m + 1 - 1 = m
    BY <1>1
  <1>3. At(m) = Start(m + 1)
    BY <1>2 DEF At, Start
  <1>4. ASSUME m # Len(sent)
        PROVE  /\ m + 1 \in (Taken + 1)..Len(sent) /\ m + 1 \in Taken..Len(sent)
               /\ m + 1 \in 1..Len(sent)
    BY <1>1, <1>2, <1>4
  <1>5. ASSUME m # Len(sent) PROVE At(m + 1) = At(m) + Size(m + 1)
    <2>1. m + 1 \in 1..Len(sent) /\ m + 1 \in 0..Len(sent)
      BY <1>2, <1>4, <1>5
    <2>2. Upto(m + 1) = Upto(m) + Size(m + 1) /\ Size(m + 1) \in Nat
      BY <2>1, <1>2, FrameFacts
    <2>3. Upto(m) \in Nat /\ Upto(Taken) \in Nat
      BY <1>1, <1>2, FrameFacts
    <2>4. PICK t, u, w : t = Upto(m) /\ u = Upto(Taken) /\ w = Size(m + 1)
      OBVIOUS
    <2>5. (t + w) - u = t - u + w
      BY <2>2, <2>3, <2>4
    <2> QED BY <2>2, <2>4, <2>5 DEF At
  <1> QED BY <1>1, <1>2, <1>3, <1>4, <1>5 DEF At

\* One pass of the scanner from a frame that goes on.
LEMMA ScanTakes ==
    ASSUME FramingType, FramesInPlace, TakenAsSent, RestAhead, reader.reads,
           NEW b, Arriving(b), NEW m \in Taken..Len(sent), At(m) <= Len(b),
           GoesOn(b, At(m))
    PROVE  /\ m # Len(sent) /\ At(m + 1) <= Len(b)
           /\ sent[m + 1].sound
           /\ Contents(b, At(m)) = sent[m + 1].packet
           /\ At(m) + Length(b, At(m)) = At(m + 1)
  <1>1. /\ b \in Seq(Octets) /\ Len(b) <= Len(Ahead) /\ Len(b) \in Nat
        /\ At(m) \in 0..Len(Ahead) /\ Len(Ahead) \in Nat
    BY AtFacts, AheadFacts, LenProperties DEF Arriving
  <1>2. At(m) \in 0..Len(b)
    BY <1>1
  <1>3. /\ Length(b, At(m)) \in Nat /\ Length(b, At(m)) >= 4
        /\ At(m) + Length(b, At(m)) \in 0..Len(b)
    BY <1>1, <1>2, GoesForward
  <1>4. m # Len(sent)
    <2>1. At(m) # Len(Ahead)
      BY <1>1, <1>2, <1>3
    <2> QED BY <2>1, AtFacts
  <1>5. m + 1 \in (Taken + 1)..Len(sent) /\ At(m) = Start(m + 1)
        /\ At(m + 1) = At(m) + Size(m + 1)
    BY <1>4, AtFacts
  <1>6. /\ sent[m + 1].sound /\ Length(b, At(m)) = Size(m + 1)
        /\ Contents(b, At(m)) = sent[m + 1].packet
    BY <1>2, <1>5, OnlyIntactChecks
  <1>7. At(m) + Length(b, At(m)) = At(m + 1)
    BY <1>5, <1>6
  <1>8. At(m + 1) <= Len(b)
    BY <1>1, <1>3, <1>7
  <1> QED BY <1>4, <1>6, <1>7, <1>8

\* Where it stops without an error, a sound frame is not complete yet.
LEMMA ScanStops ==
    ASSUME FramingType, FramesInPlace, TakenAsSent, RestAhead, reader.reads,
           NEW b, Arriving(b), NEW m \in Taken..Len(sent), At(m) <= Len(b),
           ~GoesOn(b, At(m)), m < Len(sent), sent[m + 1].sound
    PROVE  Len(b) - At(m) < Size(m + 1)
  <1>1. /\ b \in Seq(Octets) /\ Len(b) <= Len(Ahead) /\ Len(b) \in Nat
        /\ \A j \in 1..Len(b) : b[j] = Ahead[j]
        /\ At(m) \in 0..Len(Ahead) /\ Len(Ahead) \in Nat
    BY AtFacts, AheadFacts, LenProperties DEF Arriving
  <1>2. At(m) \in 0..Len(b)
    BY <1>1
  <1>3. /\ m + 1 \in (Taken + 1)..Len(sent) /\ At(m) = Start(m + 1)
        /\ m + 1 \in 1..Len(sent)
    BY AtFacts
  <1>4. PICK p : p = sent[m + 1].packet
    OBVIOUS
  <1>5. p \in Seq(Nat) /\ Size(m + 1) = Len(p) + 4 /\ Len(p) \in Nat
    BY <1>3, <1>4, FrameFacts DEF Size
  <1>6. SUFFICES ASSUME ~(Len(b) - At(m) < Size(m + 1)) PROVE FALSE
    OBVIOUS
  <1>7. At(m) + Len(p) + 4 <= Len(b)
    BY <1>1, <1>2, <1>5, <1>6
  <1>8. Intact(Ahead, At(m), p)
    BY <1>3, <1>4 DEF RestAhead
  <1>9. Intact(b, At(m), p)
    <2>1. \A j \in 1..(Len(p) + 4) : At(m) + j \in 1..Len(b)
      BY <1>1, <1>2, <1>5, <1>7
    <2>2. \A j \in 1..(Len(p) + 4) : b[At(m) + j] = Ahead[At(m) + j]
      BY <1>1, <2>1
    <2> QED BY <1>8, <2>2 DEF Intact
  <1> QED BY <1>1, <1>2, <1>5, <1>7, <1>9, IntactChecks

\* What the scanner gives from the start of any frame.
LEMMA ScanGives ==
    ASSUME FramingType, FramesInPlace, TakenAsSent, RestAhead, reader.reads,
           NEW b, Arriving(b)
    PROVE  \A m \in Taken..Len(sent) :
               At(m) <= Len(b) /\ Scan(b)[At(m)].ok =>
                   \E l \in m..Len(sent) : Gives(b, m, l, Scan(b)[At(m)])
  <1> DEFINE Fails(m) == /\ At(m) <= Len(b) /\ Scan(b)[At(m)].ok
                         /\ \A l \in m..Len(sent) : ~Gives(b, m, l, Scan(b)[At(m)])
             T == {m \in Taken..Len(sent) : Fails(m)}
  <1>1. SUFFICES ASSUME T # {} PROVE FALSE
    OBVIOUS
  <1>2. PICK m \in T : \A k \in T : k <= m
    <2>1. Len(sent) \in Nat /\ T \in SUBSET (0..Len(sent))
      BY AheadFacts, FrameFacts
    <2> HIDE DEF T
    <2> QED BY <1>1, <2>1, GreatestNumber
  <1>3. m \in Taken..Len(sent) /\ Fails(m)
    BY <1>2
  <1> HIDE DEF Fails
  <1>4. /\ b \in Seq(Octets) /\ Len(b) <= Len(Ahead) /\ Len(b) \in Nat
        /\ At(m) \in 0..Len(Ahead) /\ Len(Ahead) \in Nat /\ At(m) <= Len(b)
        /\ m \in Nat /\ Len(sent) \in Nat /\ m <= Len(sent)
    BY <1>3, AtFacts, AheadFacts, LenProperties, FrameFacts DEF Arriving, Fails
  <1>5. At(m) \in 0..Len(b)
    BY <1>4
  <1>6. PICK r : r = Scan(b)[At(m)]
    OBVIOUS
  <1>7. r = ScanFrom(b, At(m), Scan(b)) /\ r.ok
    BY <1>3, <1>4, <1>5, <1>6, ScansAreDefined DEF Fails
  <1>8. CASE GoesOn(b, At(m))
    <2>1. /\ m # Len(sent) /\ At(m + 1) <= Len(b) /\ sent[m + 1].sound
          /\ Contents(b, At(m)) = sent[m + 1].packet
          /\ At(m) + Length(b, At(m)) = At(m + 1)
      BY <1>3, <1>4, <1>8, ScanTakes
    <2>2. m + 1 \in Taken..Len(sent) /\ m + 1 \in 1..Len(sent)
      BY <1>3, <2>1, AtFacts
    <2>3. PICK s : s = Scan(b)[At(m + 1)]
      OBVIOUS
    <2>4. r = [packets |-> <<sent[m + 1].packet>> \o s.packets, rest |-> s.rest, ok |-> s.ok]
      BY <1>7, <1>8, <2>1, <2>3 DEF ScanFrom, GoesOn
    <2>5. ~Fails(m + 1)
      <3>1. m + 1 \notin T
        BY <1>2, <1>4
      <3> QED BY <2>2, <3>1
    <2>6. PICK l \in (m + 1)..Len(sent) : Gives(b, m + 1, l, s)
      BY <1>7, <2>1, <2>3, <2>4, <2>5 DEF Fails
    <2>7. Gives(b, m, l, r)
      <3>1. PICK p : p = sent[m + 1].packet
        OBVIOUS
      <3>2. p \in Seq(Nat)
        BY <2>2, <3>1, FrameFacts
      <3>3. /\ r.packets = <<p>> \o s.packets /\ r.rest = s.rest
            /\ s.packets \in Seq(Seq(Nat)) /\ Len(s.packets) = l - (m + 1)
        BY <2>4, <2>6, <3>1 DEF Gives
      <3>4. /\ r.packets \in Seq(Seq(Nat))
            /\ Len(r.packets) = 1 + (l - (m + 1))
            /\ \A j \in 1..(1 + (l - (m + 1))) :
                  r.packets[j] = IF j <= 1 THEN p ELSE s.packets[j - 1]
        <4>1. <<p>> \in Seq(Seq(Nat)) /\ Len(<<p>>) = 1 /\ <<p>>[1] = p
          BY <3>2
        <4> QED BY <3>3, <4>1, ConcatProperties
      <3>5. l \in m..Len(sent) /\ 1 + (l - (m + 1)) = l - m /\ l \in Nat
        BY <1>4, <2>6
      <3>6. ASSUME NEW j \in 1..(l - m)
            PROVE  sent[m + j].sound /\ r.packets[j] = sent[m + j].packet
        <4>1. CASE j = 1
          <5>1. 1 \in 1..(1 + (l - (m + 1)))
            BY <3>5, <4>1
          <5>2. r.packets[1] = p
            BY <3>4, <5>1
          <5> QED BY <2>1, <3>1, <4>1, <5>2
        <4>2. CASE j # 1
          <5>1. j - 1 \in 1..(l - (m + 1)) /\ (m + 1) + (j - 1) = m + j /\ ~(j <= 1)
            BY <1>4, <3>5, <4>2
          <5>2. /\ sent[(m + 1) + (j - 1)].sound
                /\ s.packets[j - 1] = sent[(m + 1) + (j - 1)].packet
            BY <2>6, <5>1 DEF Gives
          <5> QED BY <3>4, <3>5, <5>1, <5>2
        <4> QED BY <4>1, <4>2
      <3> QED BY <2>6, <3>3, <3>4, <3>5, <3>6 DEF Gives
    <2>8. l \in m..Len(sent)
      BY <2>7 DEF Gives
    <2> QED BY <1>3, <1>6, <2>7, <2>8 DEF Fails
  <1>9. CASE ~GoesOn(b, At(m))
    <2>1. r.packets = <<>> /\ r.rest = Remainder(b, At(m))
      BY <1>7, <1>9 DEF ScanFrom, GoesOn, Damaged
    <2>2. m < Len(sent) /\ sent[m + 1].sound => Len(b) - At(m) < Size(m + 1)
      BY <1>3, <1>4, <1>9, ScanStops
    <2>3. <<>> \in Seq(Seq(Nat)) /\ Len(<<>>) = 0
      OBVIOUS
    <2>4. m \in m..Len(sent) /\ m - m = 0 /\ 1..0 = {}
      BY <1>4
    <2>5. Gives(b, m, m, r)
      BY <1>4, <2>1, <2>2, <2>3, <2>4 DEF Gives, Remainder
    <2> QED BY <1>3, <1>6, <2>4, <2>5 DEF Fails
  <1> QED BY <1>8, <1>9

\* What deframe gives of a buffer with the next bytes in it.
LEMMA DeframeGives ==
    ASSUME FramingType, FramesInPlace, TakenAsSent, RestAhead, reader.reads,
           NEW b, Arriving(b), Deframe(b).ok
    PROVE  \E l \in Taken..Len(sent) : Gives(b, Taken, l, Deframe(b))
  <1>1. Taken \in Taken..Len(sent) /\ Taken \in 0..Len(sent)
    BY AheadFacts, FrameFacts
  <1>2. At(Taken) = 0
    BY <1>1, FrameFacts DEF At
  <1>3. b \in Seq(Octets) /\ 0 <= Len(b)
    BY LenProperties DEF Arriving
  <1>4. Deframe(b) = Scan(b)[At(Taken)]
    BY <1>2, <1>3, ScansAreDefined
  <1> QED BY <1>1, <1>2, <1>3, <1>4, ScanGives

-----------------------------------------------------------------------------
\* Nothing sent.
LEMMA FramingStarts == FramingInit => StreamInv
  <1> SUFFICES ASSUME FramingInit PROVE StreamInv
    OBVIOUS
  <1> USE DEF FramingInit
  <1>0. Len(<<>>) = 0 /\ \A S : <<>> \in Seq(S)
    OBVIOUS
  <1>1. FramingType
    <2>1. reader.buffer \in Seq(Octets) /\ reader.got \in Seq(Seq(Nat))
      BY <1>0, Zenon
    <2> QED BY <1>0, <2>1 DEF FramingType
  <1>2. FramesInPlace
    BY <1>0 DEF FramesInPlace, Upto
  <1>3. CountsInStep
    <2>1. \A a : Of(a) = {}
      BY <1>0 DEF Of
    <2>2. \A a : Cardinality(Of(a)) = 0
      BY <2>1, FS_EmptySet
    <2>3. 0 % 2^SeqBits = 0
      BY FramingAssumption
    <2> QED BY <1>0, <2>2, <2>3 DEF CountsInStep
  <1>4. TakenAsSent
    BY <1>0 DEF TakenAsSent, Taken, Upto, Total
  <1>5. RestAhead
    BY <1>0 DEF RestAhead, Taken, Upto, Total
  <1> QED BY <1>1, <1>2, <1>3, <1>4, <1>5 DEF StreamInv

\* What the reader has is what was sent, and nothing that is complete is left.
LEMMA StreamInvIsEnough == StreamInv => StreamIsExact
  <1> SUFFICES ASSUME StreamInv PROVE StreamIsExact
    OBVIOUS
  <1> USE DEF StreamInv
  <1>1. Taken \in Nat /\ Taken <= Len(sent) /\ Len(sent) \in Nat
    BY LenProperties, FrameFacts DEF FramingType, Taken, TakenAsSent
  <1>2. ASSUME NEW k \in 1..Taken
        PROVE  k \in Sound /\ reader.got[k] = sent[k].packet
    <2>1. k \in 1..Len(sent) /\ \A j \in 1..k : j \in 1..Taken
      BY <1>1
    <2>2. \A j \in 1..Taken : sent[j].sound /\ reader.got[j] = sent[j].packet
      BY DEF TakenAsSent
    <2> QED BY <2>1, <2>2 DEF Sound
  <1>3. ASSUME reader.reads, NEW k \in Sound, sent[k].end <= Arrived, ~(k <= Taken)
        PROVE  FALSE
    <2>1. k \in 1..Len(sent) /\ \A j \in 1..k : sent[j].sound
      BY DEF Sound
    <2>2. Taken + 1 \in 1..k /\ Taken + 1 \in 0..Len(sent) /\ k \in 0..Len(sent)
          /\ Taken + 1 \in 1..Len(sent) /\ Taken < Len(sent) /\ (Taken + 1) - 1 = Taken
      BY <1>1, <1>3, <2>1
    <2>3. Upto(Taken + 1) <= Upto(k) /\ Upto(k) \in Nat /\ Upto(Taken + 1) \in Nat
          /\ Upto(Taken) \in Nat
      <3>1. Taken \in 0..Len(sent) /\ Taken + 1 <= k
        BY <1>1, <2>2
      <3> QED BY <2>2, <3>1, FrameFacts, Zenon
    <2>4. Upto(k) = sent[k].end
      BY <2>1 DEF Upto
    <2>5. Upto(Taken + 1) = Upto(Taken) + Size(Taken + 1) /\ Size(Taken + 1) \in Nat
      BY <2>2, FrameFacts
    <2>6. /\ Upto(Taken) + Len(reader.buffer) + Len(flow) = Total
          /\ Len(reader.buffer) < Size(Taken + 1)
      BY <1>3, <2>1, <2>2 DEF RestAhead
    <2>7. Len(reader.buffer) \in Nat /\ Len(flow) \in Nat
      BY LenProperties DEF FramingType
    <2>8. PICK e : e = sent[k].end
      OBVIOUS
    <2>9. e + Len(flow) <= Total
      BY <1>3, <2>3, <2>4, <2>6, <2>7, <2>8 DEF Arrived
    <2> QED BY <2>3, <2>4, <2>5, <2>6, <2>7, <2>8, <2>9
  <1>4. ASSUME NEW k \in 1..Taken
        PROVE  reader.got[k][2] = Cardinality(Earlier(reader.got, k)) % 2^SeqBits
    <2>1. \A j \in 1..Taken : reader.got[j] = sent[j].packet
      BY <1>2
    <2>2. k \in 1..Len(sent) /\ \A j \in 1..(k - 1) : j \in 1..Taken
      BY <1>1
    <2>3. Earlier(reader.got, k) =
              {j \in 1..(k - 1) : sent[j].packet[1] = sent[k].packet[1]}
      BY <2>1, <2>2 DEF Earlier
    <2> QED BY <2>1, <2>2, <2>3 DEF CountsInStep
  <1> QED BY <1>2, <1>3, <1>4 DEF StreamIsExact, Taken

-----------------------------------------------------------------------------
\* What SendPacket appends.
LEMMA SendStep ==
    ASSUME FramingType, FramesInPlace, SendPacket
    PROVE  \E a \in Apids, p \in Seq(Nat) :
               /\ p[1] = a /\ p[2] = counts[a] % 2^SeqBits /\ Len(p) >= 2
               /\ Framed(p) \in Seq(Octets) /\ Len(Framed(p)) = Len(p) + 4
               /\ counts' = [counts EXCEPT ![a] = (@ + 1) % 2^SeqBits]
               /\ flow' = flow \o Framed(p) /\ reader' = reader
               /\ sent' \in Seq([packet : Seq(Nat), sound : BOOLEAN, end : Nat])
               /\ Len(sent') = Len(sent) + 1
               /\ \A k \in 1..Len(sent) : sent'[k] = sent[k]
               /\ sent'[Len(sent) + 1] =
                      [packet |-> p, sound |-> TRUE, end |-> Total + Len(p) + 4]
  <1>1. PICK a \in Apids, payload \in Payloads :
            /\ counts' = [counts EXCEPT ![a] = (@ + 1) % 2^SeqBits]
            /\ sent' = Append(sent, [packet |-> Packet(a, counts[a], payload), sound |-> TRUE,
                                end |-> Total + Len(Framed(Packet(a, counts[a], payload)))])
            /\ flow' = flow \o Framed(Packet(a, counts[a], payload))
            /\ reader' = reader
    BY DEF SendPacket
  <1>2. PICK p : p = Packet(a, counts[a], payload)
    OBVIOUS
  <1>3. /\ p \in Seq(Nat) /\ Len(p) >= 2 /\ p[1] = a /\ p[2] = counts[a] % 2^SeqBits
    <2>1. PICK c : c = counts[a] % 2^SeqBits
      OBVIOUS
    <2>2. c \in Nat /\ a \in Nat
      BY <2>1, FramingAssumption DEF FramingType
    <2>3. payload \in Seq(Nat) /\ Len(payload) \in Nat
      BY FramingAssumption, LenProperties
    <2>4. p = <<a, c>> \o payload
      BY <1>2, <2>1 DEF Packet
    <2>5. <<a, c>> \in Seq(Nat) /\ Len(<<a, c>>) = 2 /\ <<a, c>>[1] = a /\ <<a, c>>[2] = c
      BY <2>2
    <2> QED BY <2>1, <2>3, <2>4, <2>5, ConcatProperties
  <1>4. Framed(p) \in Seq(Octets) /\ Len(Framed(p)) = Len(p) + 4 /\ Len(p) \in Nat
    BY <1>3, FramedBytes, LenProperties
  <1>5. Total \in Nat /\ Len(sent) \in Nat
    BY FrameFacts
  <1>6. Total + Len(Framed(p)) = Total + Len(p) + 4 /\ Total + Len(p) + 4 \in Nat
    BY <1>4, <1>5
  <1>7. PICK r : r = [packet |-> p, sound |-> TRUE, end |-> Total + Len(p) + 4]
    OBVIOUS
  <1>8. /\ r \in [packet : Seq(Nat), sound : BOOLEAN, end : Nat]
        /\ sent' = Append(sent, r)
    BY <1>1, <1>2, <1>3, <1>6, <1>7
  <1>9. /\ sent' \in Seq([packet : Seq(Nat), sound : BOOLEAN, end : Nat])
        /\ Len(sent') = Len(sent) + 1
        /\ \A k \in 1..Len(sent) : sent'[k] = sent[k]
        /\ sent'[Len(sent) + 1] = r
    BY <1>5, <1>8, AppendProperties DEF FramingType
  <1> QED BY <1>1, <1>2, <1>3, <1>4, <1>7, <1>9

\* A multiple is no smaller.
LEMMA Multiples ==
    ASSUME NEW d \in Nat, NEW M \in Nat \ {0}, d >= 1
    PROVE  d * M >= M
  OBVIOUS

\* A number is a multiple of another one and a rest in one way only.
LEMMA OneRemainder ==
    ASSUME NEW M \in Nat \ {0}, NEW q \in Int, NEW d \in Int,
           NEW r \in 0..(M - 1), NEW s \in 0..(M - 1), q * M + r = d * M + s
    PROVE  r = s
  <1>1. (q - d) * M = s - r /\ (d - q) * M = r - s
    OBVIOUS
  <1>2. CASE q > d
    <2>1. q - d \in Nat /\ q - d >= 1
      BY <1>2
    <2>2. (q - d) * M >= M
      BY <2>1, Multiples
    <2> QED BY <1>1, <2>2
  <1>3. CASE d > q
    <2>1. d - q \in Nat /\ d - q >= 1
      BY <1>3
    <2>2. (d - q) * M >= M
      BY <2>1, Multiples
    <2> QED BY <1>1, <2>2
  <1>4. CASE q = d
    BY <1>1, <1>4
  <1> QED BY <1>2, <1>3, <1>4

\* What division gives.
LEMMA Divided ==
    ASSUME NEW c \in Nat, NEW M \in Nat \ {0}
    PROVE  c \div M \in Int /\ c % M \in 0..(M - 1) /\ (c \div M) * M + (c % M) = c
  OBVIOUS

\* The rest that is left of a number is its remainder.
LEMMA Remains ==
    ASSUME NEW n \in Nat, NEW M \in Nat \ {0}, NEW q \in Int, NEW r \in 0..(M - 1),
           n = q * M + r
    PROVE  n % M = r
  BY Divided, OneRemainder

\* The count of a packet follows on that of the one before.
LEMMA NextCount ==
    ASSUME NEW c \in Nat, NEW M \in Nat \ {0}
    PROVE  ((c % M) + 1) % M = (c + 1) % M /\ (c % M) % M = c % M /\ c % M \in Nat
  <1>1. PICK q, r : q = c \div M /\ r = c % M
    OBVIOUS
  <1>2. q \in Int /\ r \in 0..(M - 1) /\ c = q * M + r /\ r \in Nat
    BY <1>1, Divided
  <1>3. r % M = r
    <2>1. r = 0 * M + r
      BY <1>2
    <2> QED BY <1>2, <2>1, Remains
  <1>4. (r + 1) % M = (c + 1) % M
    <2>1. CASE r + 1 < M
      <3>1. r + 1 \in 0..(M - 1) /\ r + 1 = 0 * M + (r + 1) /\ c + 1 = q * M + (r + 1)
        BY <1>2, <2>1
      <3>2. (r + 1) % M = r + 1
        BY <1>2, <3>1, Remains
      <3>3. (c + 1) % M = r + 1
        BY <1>2, <3>1, Remains
      <3> QED BY <3>2, <3>3
    <2>2. CASE r + 1 = M
      <3>1. 0 \in 0..(M - 1) /\ r + 1 = 1 * M + 0 /\ c + 1 = (q + 1) * M + 0 /\ q + 1 \in Int
        BY <1>2, <2>2
      <3>2. (r + 1) % M = 0
        BY <1>2, <3>1, Remains
      <3>3. (c + 1) % M = 0
        BY <1>2, <3>1, Remains
      <3> QED BY <3>2, <3>3
    <2> QED BY <1>2, <2>1, <2>2
  <1> QED BY <1>1, <1>2, <1>3, <1>4

\* A frame more leaves those before it where they are.
LEMMA SendKeepsFrames ==
    ASSUME StreamInv, SendPacket
    PROVE  /\ FramingType' /\ FramesInPlace'
           /\ \A k \in 0..Len(sent) : Upto(k)' = Upto(k)
           /\ \A k \in 1..Len(sent) : Size(k)' = Size(k)
           /\ Taken' = Taken
           /\ \E N : /\ N = Len(sent) /\ Len(sent') = N + 1
                    /\ Total' = Total + Size(N + 1)' /\ Size(N + 1)' \in Nat
  <1> USE DEF StreamInv
  <1>1. PICK a \in Apids, p \in Seq(Nat) :
            /\ Len(p) >= 2
            /\ Framed(p) \in Seq(Octets) /\ Len(Framed(p)) = Len(p) + 4
            /\ counts' = [counts EXCEPT ![a] = (@ + 1) % 2^SeqBits]
            /\ flow' = flow \o Framed(p) /\ reader' = reader
            /\ sent' \in Seq([packet : Seq(Nat), sound : BOOLEAN, end : Nat])
            /\ Len(sent') = Len(sent) + 1
            /\ \A k \in 1..Len(sent) : sent'[k] = sent[k]
            /\ sent'[Len(sent) + 1] =
                   [packet |-> p, sound |-> TRUE, end |-> Total + Len(p) + 4]
    BY SendStep
  <1>2. PICK N : N = Len(sent)
    OBVIOUS
  <1>3. N \in Nat /\ Total \in Nat /\ Len(p) \in Nat /\ Total = Upto(N)
    BY <1>2, FrameFacts, LenProperties
  <1>4. FramingType'
    <2>1. counts' \in [Apids -> Nat]
      <3>1. counts[a] \in Nat
        BY DEF FramingType
      <3>2. (counts[a] + 1) % 2^SeqBits \in Nat
        BY <3>1, FramingAssumption
      <3> QED BY <1>1, <3>2 DEF FramingType
    <2>2. flow' \in Seq(Octets)
      BY <1>1, ConcatProperties DEF FramingType
    <2> QED BY <1>1, <2>1, <2>2 DEF FramingType
  <1>5. ASSUME NEW k \in 0..N PROVE Upto(k)' = Upto(k)
    <2>1. CASE k = 0
      BY <2>1 DEF Upto
    <2>2. CASE k # 0
      <3>1. k \in 1..N
        BY <1>3, <2>2
      <3>2. sent'[k] = sent[k]
        BY <1>1, <1>2, <3>1
      <3> QED BY <2>2, <3>2 DEF Upto
    <2> QED BY <2>1, <2>2
  <1>6. \A k \in 1..N : Size(k)' = Size(k)
    BY <1>1, <1>2 DEF Size
  <1>7. Size(N + 1)' = Len(p) + 4 /\ Upto(N + 1)' = Total + Len(p) + 4
    <2>1. PICK e : e = Total + Len(p) + 4
      OBVIOUS
    <2>2. sent'[N + 1] = [packet |-> p, sound |-> TRUE, end |-> e]
      BY <1>1, <1>2, <2>1, Zenon
    <2>3. sent'[N + 1].packet = p /\ sent'[N + 1].end = e
      BY <2>2
    <2>4. N + 1 # 0
      BY <1>3
    <2> QED BY <2>1, <2>3, <2>4 DEF Size, Upto
  <1>8. Total' = Total + Len(p) + 4
    <2>1. sent' # <<>>
      BY <1>1, <1>2, <1>3
    <2> QED BY <1>1, <1>2, <2>1 DEF Total, Last
  <1>9. FramesInPlace'
    <2>1. ASSUME NEW k \in 1..(N + 1)
          PROVE  Len(sent'[k].packet) >= 2 /\ Upto(k)' = Upto(k - 1)' + Size(k)'
      <3>1. CASE k = N + 1
        <4>1. k - 1 = N /\ N \in 0..N
          BY <1>3, <3>1
        <4>2. Upto(k - 1)' = Total
          <5>1. Upto(k - 1)' = Upto(k - 1)
            BY <1>5, <4>1
          <5>2. Upto(k - 1) = Upto(N)
            BY <4>1
          <5> QED BY <1>3, <5>1, <5>2
        <4>3. Len(sent'[k].packet) >= 2
          BY <1>1, <1>2, <3>1
        <4>4. Upto(k)' = Total + Len(p) + 4 /\ Size(k)' = Len(p) + 4
          <5>1. \A i : i = N + 1 => Upto(i)' = Upto(N + 1)' /\ Size(i)' = Size(N + 1)'
            BY DEF Upto, Size
          <5> QED BY <1>7, <3>1, <5>1
        <4>5. Total + Len(p) + 4 = Total + (Len(p) + 4)
          BY <1>3
        <4> QED BY <4>2, <4>3, <4>4, <4>5, Zenon
      <3>2. CASE k # N + 1
        <4>1. k \in 1..N /\ k - 1 \in 0..N /\ k \in 0..N
          BY <1>3, <3>2
        <4>2. Len(sent[k].packet) >= 2 /\ Upto(k) = Upto(k - 1) + Size(k)
          BY <1>2, <4>1 DEF FramesInPlace
        <4>3. Upto(k - 1)' = Upto(k - 1) /\ Upto(k)' = Upto(k)
          BY <1>5, <4>1
        <4> QED BY <1>1, <1>2, <1>6, <4>1, <4>2, <4>3
      <3> QED BY <3>1, <3>2
    <2>2. ASSUME NEW j \in 0..(N + 1), NEW k \in 0..(N + 1), j <= k
          PROVE  Upto(j)' <= Upto(k)'
      <3>1. CASE k # N + 1
        <4>1. j \in 0..N /\ k \in 0..N
          BY <1>3, <2>2, <3>1
        <4> QED BY <1>2, <1>5, <2>2, <4>1 DEF FramesInPlace
      <3>2. CASE k = N + 1 /\ j # N + 1
        <4>1. j \in 0..N /\ j <= N /\ N \in 0..N
          BY <1>3, <3>2
        <4>2. Upto(j) <= Upto(N) /\ Upto(j) \in Nat
          BY <1>2, <4>1, FrameFacts
        <4> QED BY <1>3, <1>5, <1>7, <3>2, <4>1, <4>2
      <3>3. CASE k = N + 1 /\ j = N + 1
        <4>1. Total + Len(p) + 4 \in Nat
          BY <1>3
        <4> QED BY <1>7, <3>3, <4>1
      <3> QED BY <3>1, <3>2, <3>3
    <2>3. Len(sent)' = N + 1
      BY <1>1, <1>2
    <2> QED BY <2>1, <2>2, <2>3 DEF FramesInPlace
  <1>10. Taken' = Taken
    BY <1>1 DEF Taken
  <1>11. /\ Len(sent') = N + 1 /\ Total' = Total + Size(N + 1)'
         /\ Size(N + 1)' \in Nat
    <2>1. PICK z : z = Size(N + 1)'
      OBVIOUS
    <2>2. z = Len(p) + 4
      BY <1>7, <2>1
    <2>3. Total' = Total + z /\ z \in Nat
      BY <1>3, <1>8, <2>2
    <2> QED BY <1>1, <1>2, <2>1, <2>3
  <1> QED BY <1>2, <1>4, <1>5, <1>6, <1>9, <1>10, <1>11

\* The counts go on in step.
LEMMA SendKeepsCounts == ASSUME StreamInv, SendPacket PROVE CountsInStep'
  <1> USE DEF StreamInv
  <1>1. PICK a \in Apids, p \in Seq(Nat) :
            /\ p[1] = a /\ p[2] = counts[a] % 2^SeqBits
            /\ counts' = [counts EXCEPT ![a] = (@ + 1) % 2^SeqBits]
            /\ Len(sent') = Len(sent) + 1
            /\ \A k \in 1..Len(sent) : sent'[k] = sent[k]
            /\ sent'[Len(sent) + 1] =
                   [packet |-> p, sound |-> TRUE, end |-> Total + Len(p) + 4]
    BY SendStep
  <1>p. sent'[Len(sent) + 1].packet = p
    BY <1>1
  <1>2. PICK N, M : N = Len(sent) /\ M = 2^SeqBits
    OBVIOUS
  <1>3. N \in Nat /\ M \in Nat \ {0}
    BY <1>2, FrameFacts, FramingAssumption
  <1>4. \A k \in 1..N : sent'[k].packet = sent[k].packet
    BY <1>1, <1>2
  <1>5. \A x : Of(x) \subseteq 1..N
    BY <1>2 DEF Of
  <1>6. \A x : IsFiniteSet(Of(x)) /\ Cardinality(Of(x)) \in Nat
    <2>1. IsFiniteSet(1..N)
      BY <1>3, FS_Interval
    <2>2. \A x : IsFiniteSet(Of(x))
      BY <1>5, <2>1, FS_Subset
    <2> QED BY <2>2, FS_CardinalityType
  <1>7. ASSUME NEW x
        PROVE  Of(x)' = IF x = a THEN Of(x) \cup {N + 1} ELSE Of(x)
    <2>1. Of(x)' = {j \in 1..(N + 1) : sent'[j].packet[1] = x}
      BY <1>1, <1>2 DEF Of
    <2>2. Of(x) = {j \in 1..N : sent[j].packet[1] = x}
      BY <1>2 DEF Of
    <2>3. 1..(N + 1) = (1..N) \cup {N + 1} /\ sent'[N + 1].packet[1] = a
      BY <1>1, <1>2, <1>3, <1>p
    <2> QED BY <1>4, <2>1, <2>2, <2>3
  <1>8. Cardinality(Of(a)') = Cardinality(Of(a)) + 1
    <2>1. N + 1 \notin Of(a)
      BY <1>3, <1>5
    <2>2. Of(a)' = Of(a) \cup {N + 1}
      BY <1>7
    <2> QED BY <1>6, <2>1, <2>2, FS_AddElement
  <1>9. \A x \in Apids : counts[x] = Cardinality(Of(x)) % M
    BY <1>2 DEF CountsInStep
  <1>10. ASSUME NEW x \in Apids
         PROVE  counts'[x] = Cardinality(Of(x)') % M
    <2>1. CASE x = a
      <3>1. counts'[x] = (counts[a] + 1) % M
        BY <1>1, <1>2, <2>1 DEF FramingType
      <3>2. counts[a] = Cardinality(Of(a)) % M
        BY <1>9
      <3>3. PICK c \in Nat : c = Cardinality(Of(a))
        BY <1>6
      <3>4. counts'[x] = (c + 1) % M
        BY <1>3, <3>1, <3>2, <3>3, NextCount
      <3> QED BY <1>8, <2>1, <3>3, <3>4
    <2>2. CASE x # a
      <3>1. counts'[x] = counts[x]
        BY <1>1, <2>2 DEF FramingType
      <3>2. Of(x)' = Of(x)
        BY <1>7, <2>2
      <3> QED BY <1>9, <3>1, <3>2
    <2> QED BY <2>1, <2>2
  <1>11. ASSUME NEW k \in 1..(N + 1)
         PROVE  /\ sent'[k].packet[1] \in Apids
                /\ sent'[k].packet[2] =
                      Cardinality({j \in 1..(k - 1) :
                                      sent'[j].packet[1] = sent'[k].packet[1]}) % M
    <2>1. \A j \in 1..(k - 1) : j \in 1..N
      BY <1>3
    <2>2. CASE k \in 1..N
      <3>1. {j \in 1..(k - 1) : sent'[j].packet[1] = sent'[k].packet[1]} =
                {j \in 1..(k - 1) : sent[j].packet[1] = sent[k].packet[1]}
        BY <1>4, <2>1, <2>2
      <3>2. /\ sent[k].packet[1] \in Apids
            /\ sent[k].packet[2] =
                  Cardinality({j \in 1..(k - 1) : sent[j].packet[1] = sent[k].packet[1]}) % M
        BY <1>2, <2>2 DEF CountsInStep
      <3> QED BY <1>4, <2>2, <3>1, <3>2
    <2>3. CASE k = N + 1
      <3>1. k - 1 = N /\ sent'[k].packet = p
        BY <1>2, <1>3, <1>p, <2>3
      <3>2. {j \in 1..(k - 1) : sent'[j].packet[1] = sent'[k].packet[1]} = Of(a)
        BY <1>1, <1>2, <1>4, <3>1 DEF Of
      <3>3. PICK c \in Nat : c = Cardinality(Of(a))
        BY <1>6
      <3>4. p[2] = (c % M) % M
        BY <1>1, <1>2, <1>9, <3>3
      <3>5. p[2] = c % M
        BY <1>3, <3>4, NextCount
      <3> QED BY <1>1, <3>1, <3>2, <3>3, <3>5
    <2> QED BY <1>3, <2>2, <2>3
  <1>12. Len(sent)' = N + 1
    BY <1>1, <1>2
  <1> QED BY <1>2, <1>10, <1>11, <1>12 DEF CountsInStep

\* The bytes of two sequences after each other.
LEMMA Joined ==
    ASSUME NEW s \in Seq(Octets), NEW t \in Seq(Octets)
    PROVE  /\ s \o t \in Seq(Octets) /\ Len(s) \in Nat /\ Len(t) \in Nat
           /\ Len(s \o t) = Len(s) + Len(t)
           /\ \A j \in 1..Len(s) : (s \o t)[j] = s[j]
           /\ \A j \in 1..Len(t) : (s \o t)[Len(s) + j] = t[j]
  <1>1. /\ s \o t \in Seq(Octets) /\ Len(s) \in Nat /\ Len(t) \in Nat
        /\ Len(s \o t) = Len(s) + Len(t)
        /\ \A j \in 1..Len(s) + Len(t) :
              (s \o t)[j] = IF j <= Len(s) THEN s[j] ELSE t[j - Len(s)]
    BY ConcatProperties, LenProperties
  <1>2. PICK n, m : n = Len(s) /\ m = Len(t)
    OBVIOUS
  <1>3. \A j \in 1..n : j \in 1..(n + m) /\ j <= n
    BY <1>1, <1>2
  <1>4. \A j \in 1..m : n + j \in 1..(n + m) /\ ~(n + j <= n) /\ (n + j) - n = j
    BY <1>1, <1>2
  <1> QED BY <1>1, <1>2, <1>3, <1>4

\* The frame that is sent lies behind all that lay ahead before.
LEMMA SendKeepsAhead == ASSUME StreamInv, SendPacket PROVE TakenAsSent' /\ RestAhead'
  <1> USE DEF StreamInv
  <1>1. PICK a \in Apids, p \in Seq(Nat) :
            /\ Framed(p) \in Seq(Octets) /\ Len(Framed(p)) = Len(p) + 4
            /\ flow' = flow \o Framed(p) /\ reader' = reader
            /\ Len(sent') = Len(sent) + 1
            /\ \A k \in 1..Len(sent) : sent'[k] = sent[k]
            /\ sent'[Len(sent) + 1] =
                   [packet |-> p, sound |-> TRUE, end |-> Total + Len(p) + 4]
    BY SendStep
  <1>2. PICK N : /\ N = Len(sent) /\ Len(sent') = N + 1
                 /\ Total' = Total + Size(N + 1)' /\ Size(N + 1)' \in Nat
    BY SendKeepsFrames
  <1>3. sent'[N + 1].packet = p /\ sent'[N + 1].sound
    BY <1>1, <1>2
  <1>4. PICK z : z = Len(p) + 4
    OBVIOUS
  <1>5. Size(N + 1)' = z /\ z \in Nat /\ z > 0 /\ Total' = Total + z
    BY <1>2, <1>3, <1>4, LenProperties DEF Size
  <1>6. /\ \A k \in 0..N : Upto(k)' = Upto(k)
        /\ \A k \in 1..N : Size(k)' = Size(k)
        /\ Taken' = Taken
    BY <1>2, SendKeepsFrames
  <1>7. Taken \in Nat /\ Taken <= N /\ N \in Nat /\ Taken \in 0..N
    BY <1>2, LenProperties, FrameFacts DEF FramingType, Taken, TakenAsSent
  <1>8. Upto(Taken) \in Nat /\ Total \in Nat /\ Total = Upto(N)
    BY <1>2, <1>7, FrameFacts
  <1>9. Len(flow') = Len(flow) + z /\ Len(flow) \in Nat /\ flow \in Seq(Octets)
    <2>1. PICK u : u = Framed(p)
      OBVIOUS
    <2>2. u \in Seq(Octets) /\ Len(u) = z /\ flow' = flow \o u
      BY <1>1, <1>4, <2>1
    <2>3. flow \in Seq(Octets)
      BY DEF FramingType
    <2> QED BY <2>2, <2>3, Joined
  <1>10. Upto(Taken)' = Upto(Taken)
    <2>1. PICK k : k = Taken
      OBVIOUS
    <2>2. Upto(k)' = Upto(k)
      BY <1>6, <1>7, <2>1
    <2> QED BY <1>6, <2>1, <2>2 DEF Upto
  <1>11. TakenAsSent'
    <2>1. Taken' <= Len(sent')
      BY <1>2, <1>6, <1>7
    <2>2. \A k \in 1..Taken : sent'[k].sound /\ reader'.got[k] = sent'[k].packet
      <3>1. \A k \in 1..Taken : k \in 1..N
        BY <1>7
      <3> QED BY <1>1, <1>2, <3>1 DEF TakenAsSent
    <2>3. (Upto(Taken) + Len(flow) <= Total)'
      <3>1. Upto(Taken) + Len(flow) <= Total
        BY DEF TakenAsSent
      <3> QED BY <1>5, <1>8, <1>9, <1>10, <3>1
    <2> QED BY <1>6, <2>1, <2>2, <2>3 DEF TakenAsSent
  <1>12. ASSUME reader.reads PROVE RestAhead'
    <2>1. /\ Ahead \in Seq(Octets) /\ Len(Ahead) \in Nat
          /\ Len(Ahead) = Upto(N) - Upto(Taken)
          /\ Len(Ahead) = Len(reader.buffer) + Len(flow) /\ Len(reader.buffer) \in Nat
      BY <1>2, <1>12, AheadFacts, LenProperties DEF FramingType
    <2>2. /\ \A j \in 1..Len(Ahead) : Ahead'[j] = Ahead[j]
          /\ \A j \in 1..z : Ahead'[Len(Ahead) + j] = Framed(p)[j]
      <3>1. PICK s, t, u : s = reader.buffer /\ t = flow /\ u = Framed(p)
        OBVIOUS
      <3>2. s \in Seq(Octets) /\ t \in Seq(Octets) /\ u \in Seq(Octets)
        BY <1>1, <3>1 DEF FramingType
      <3>3. Ahead = s \o t /\ Ahead' = s \o (t \o u)
        BY <1>1, <3>1 DEF Ahead
      <3>4. s \o (t \o u) = (s \o t) \o u /\ s \o t \in Seq(Octets)
        BY SMTT(40), <3>2, ConcatAssociative, ConcatProperties
      <3>5. /\ \A j \in 1..Len(s \o t) : ((s \o t) \o u)[j] = (s \o t)[j]
            /\ \A j \in 1..Len(u) : ((s \o t) \o u)[Len(s \o t) + j] = u[j]
        BY <3>2, <3>4, Joined
      <3> QED BY SMTT(40), <1>1, <1>4, <3>1, <3>3, <3>4, <3>5
    <2>3. (Upto(Taken) + Len(reader.buffer) + Len(flow) = Total)'
      <3>1. Upto(Taken) + Len(reader.buffer) + Len(flow) = Total
        BY <1>12 DEF RestAhead
      <3>2. PICK l, m, e : l = Len(reader.buffer) /\ m = Len(flow) /\ e = Upto(Taken)
        OBVIOUS
      <3>3. e + l + m = Total /\ e \in Nat /\ l \in Nat /\ m \in Nat
        BY <1>8, <1>9, <2>1, <3>1, <3>2
      <3>4. e + l + (m + z) = Total + z
        BY <1>5, <1>8, <3>3
      <3>5. Upto(Taken)' = e /\ Len(reader.buffer)' = l /\ Len(flow)' = m + z
        BY <1>1, <1>9, <1>10, <3>2
      <3> QED BY <1>5, <3>4, <3>5
    <2>4. ASSUME NEW k \in (Taken + 1)..(N + 1)
          PROVE  IF sent'[k].sound THEN Intact(Ahead', Start(k)', sent'[k].packet)
                 ELSE Spoilt(Ahead', Start(k)', sent'[k].packet)
      <3>1. k - 1 \in 0..N /\ k - 1 \in Taken..N /\ k \in Nat
        BY <1>7
      <3>2. Start(k)' = Start(k)
        BY <1>6, <1>10, <3>1 DEF Start
      <3>3. Start(k) \in 0..Len(Ahead)
        BY <1>2, <1>12, <3>1, AheadFacts DEF Start
      <3>4. CASE k = N + 1
        <4>1. Start(k) = Len(Ahead)
          <5>1. k - 1 = N
            BY <1>7, <3>4
          <5> QED BY <2>1, <5>1 DEF Start
        <4>2. Intact(Ahead', Start(k)', p)
          BY <1>4, <2>2, <3>2, <4>1 DEF Intact
        <4> QED BY <1>3, <3>4, <4>2
      <3>5. CASE k # N + 1
        <4>1. k \in (Taken + 1)..N /\ k \in 1..N /\ k \in 0..N /\ k \in Taken..N
          BY <1>7, <3>5
        <4>2. IF sent[k].sound THEN Intact(Ahead, Start(k), sent[k].packet)
              ELSE Spoilt(Ahead, Start(k), sent[k].packet)
          BY <1>2, <1>12, <4>1 DEF RestAhead
        <4>3. PICK q : q = sent[k].packet
          OBVIOUS
        <4>4. \A j \in 1..(Len(q) + 4) : Start(k) + j \in 1..Len(Ahead)
          <5>1. /\ Upto(k) = Upto(k - 1) + Size(k) /\ Size(k) = Len(q) + 4
                /\ Size(k) \in Nat
            BY <1>2, <4>1, <4>3, FrameFacts DEF Size
          <5>2. Upto(k) - Upto(Taken) \in 0..Len(Ahead)
            BY <1>2, <1>12, <4>1, AheadFacts
          <5>3. Upto(k - 1) \in Nat /\ Start(k) = Upto(k - 1) - Upto(Taken)
            BY <1>2, <3>1, FrameFacts DEF Start
          <5>4. Start(k) + (Len(q) + 4) <= Len(Ahead)
            BY <1>8, <2>1, <5>1, <5>2, <5>3
          <5> QED BY <2>1, <3>3, <5>1, <5>4
        <4>5. \A j \in 1..(Len(q) + 4) : Ahead'[Start(k) + j] = Ahead[Start(k) + j]
          BY <2>2, <4>4
        <4>6. Intact(Ahead, Start(k), q) => Intact(Ahead', Start(k), q)
          BY <4>5 DEF Intact
        <4>7. Spoilt(Ahead, Start(k), q) => Spoilt(Ahead', Start(k), q)
          BY <4>5 DEF Spoilt
        <4>8. sent'[k] = sent[k]
          BY <1>1, <1>2, <4>1
        <4> QED BY <3>2, <4>2, <4>3, <4>6, <4>7, <4>8
      <3> QED BY <3>4, <3>5
    <2>5. (Taken < Len(sent) /\ sent[Taken + 1].sound =>
               Len(reader.buffer) < Size(Taken + 1))'
      <3>1. PICK k : k = Taken + 1
        OBVIOUS
      <3>2. SUFFICES ASSUME sent'[k].sound PROVE Len(reader.buffer) < Size(k)'
        BY <1>1, <1>6, <3>1 DEF Size
      <3>3. CASE Taken = N
        <4>1. Len(reader.buffer) = 0
          BY <1>8, <2>1, <3>3
        <4> QED BY <1>5, <3>1, <3>3, <4>1
      <3>4. CASE Taken # N
        <4>1. k \in 1..N /\ Taken < N
          BY <1>7, <3>1, <3>4
        <4>2. sent[k].sound
          BY <1>1, <1>2, <3>2, <4>1
        <4>3. Len(reader.buffer) < Size(k)
          BY <1>2, <1>12, <3>1, <4>1, <4>2 DEF RestAhead
        <4> QED BY <1>6, <4>1, <4>3
      <3> QED BY <3>3, <3>4
    <2> QED BY <1>2, <1>6, <2>3, <2>4, <2>5 DEF RestAhead
  <1>13. ASSUME ~reader.reads PROVE RestAhead'
    BY <1>1, <1>13 DEF RestAhead
  <1> QED BY <1>11, <1>12, <1>13

-----------------------------------------------------------------------------
\* A byte of an earlier frame is none of the bytes of the last one.
LEMMA BeforeFrame ==
    ASSUME NEW e \in Nat, NEW n \in Nat, NEW g \in Nat, NEW z \in Nat, NEW x \in 1..z,
           NEW a \in Nat, NEW y, e + n <= g, g + z = a, y = g + x
    PROVE  \A j \in 1..n : e + j \in 1..a /\ e + j # y
  OBVIOUS

\* The frame that Spoil damages is the last one, and not taken yet.
LEMMA SpoiltFrame ==
    ASSUME StreamInv, Spoil
    PROVE  \E N \in Nat \ {0}, z \in Nat :
               /\ N = Len(sent) /\ z = Size(N) /\ Taken < N /\ counts' = counts /\ reader' = reader
               /\ sent' \in Seq([packet : Seq(Nat), sound : BOOLEAN, end : Nat])
               /\ Len(sent') = N /\ \A k \in 1..(N - 1) : sent'[k] = sent[k]
               /\ sent[N].sound /\ ~sent'[N].sound
               /\ \A k \in 1..N : sent'[k].packet = sent[k].packet /\ sent'[k].end = sent[k].end
               /\ \E x \in 1..z, v \in {0, 9} :
                      /\ x + Len(flow) - z \in 1..Len(flow)
                      /\ flow[x + Len(flow) - z].v # v
                      /\ flow' = [flow EXCEPT ![x + Len(flow) - z] = Byte(v)]
  <1> USE DEF StreamInv
  <1>1. PICK N : N = Len(sent)
    OBVIOUS
  <1>2. N \in Nat /\ N # 0 /\ N \in 1..N
    BY <1>1, FrameFacts, EmptySeq DEF Spoil, FramingType
  <1>3. PICK z : z = Size(N)
    OBVIOUS
  <1>4. /\ sent[N] \in [packet : Seq(Nat), sound : BOOLEAN, end : Nat]
        /\ z \in Nat /\ Upto(N) = Upto(N - 1) + z /\ z >= 6
        /\ sent[N].packet \in Seq(Nat)
    BY <1>1, <1>2, <1>3, FrameFacts
  <1>5. Len(Framed(Last(sent).packet)) = z
    BY <1>1, <1>3, <1>4, FramedBytes DEF Last, Size
  <1>6. PICK i \in (Len(flow) - z + 1)..Len(flow), v \in {0, 9} :
            flow[i].v # v /\ flow' = [flow EXCEPT ![i] = Byte(v)]
    BY <1>5 DEF Spoil
  <1>7. Len(flow) >= z /\ Len(flow) \in Nat
    BY <1>5, LenProperties DEF Spoil, FramingType
  <1>8. sent' = [sent EXCEPT ![N].sound = FALSE] /\ counts' = counts /\ reader' = reader
        /\ sent[N].sound
    BY <1>1, <1>2 DEF Spoil
  <1>9. /\ sent' \in Seq([packet : Seq(Nat), sound : BOOLEAN, end : Nat])
        /\ Len(sent') = N /\ \A k \in 1..(N - 1) : sent'[k] = sent[k]
        /\ ~sent'[N].sound
        /\ sent'[N].packet = sent[N].packet /\ sent'[N].end = sent[N].end
    <2>1. PICK r : r = [sent[N] EXCEPT !.sound = FALSE]
      OBVIOUS
    <2>2. /\ r \in [packet : Seq(Nat), sound : BOOLEAN, end : Nat]
          /\ ~r.sound /\ r.packet = sent[N].packet /\ r.end = sent[N].end
      BY <1>4, <2>1
    <2>3. sent' = [sent EXCEPT ![N] = r]
      BY <1>8, <2>1
    <2>4. /\ sent' \in Seq([packet : Seq(Nat), sound : BOOLEAN, end : Nat])
          /\ Len(sent') = Len(sent)
          /\ \A j \in 1..Len(sent) : sent'[j] = IF j = N THEN r ELSE sent[j]
      BY <1>1, <1>2, <2>2, <2>3, ExceptSeq DEF FramingType
    <2>5. \A j \in 1..(N - 1) : j \in 1..N /\ j # N
      BY <1>2
    <2> QED BY <1>1, <1>2, <2>2, <2>4, <2>5
  <1>10. \A k \in 1..N : sent'[k].packet = sent[k].packet /\ sent'[k].end = sent[k].end
    <2>1. \A k \in 1..N : k = N \/ k \in 1..(N - 1)
      BY <1>2
    <2> QED BY <1>9, <2>1
  <1>11. Taken < N
    <2>1. Taken \in Nat /\ Taken <= N
      BY <1>1, LenProperties DEF FramingType, Taken, TakenAsSent
    <2>2. Upto(Taken) + Len(flow) <= Upto(N)
      BY <1>1, FrameFacts DEF TakenAsSent
    <2>3. Upto(N - 1) \in Nat /\ Upto(N) \in Nat
      <3>1. N - 1 \in 0..N /\ N \in 0..N
        BY <1>2
      <3> QED BY <1>1, <3>1, FrameFacts
    <2>4. Taken # N
      <3>1. SUFFICES ASSUME Taken = N PROVE FALSE
        OBVIOUS
      <3>2. Upto(N) + Len(flow) <= Upto(N)
        BY <2>2, <3>1
      <3> QED BY <1>4, <1>7, <2>3, <3>2
    <2> QED BY <1>2, <2>1, <2>4
  <1>12. PICK x : x = i - Len(flow) + z
    OBVIOUS
  <1>13. x \in 1..z /\ x + Len(flow) - z = i /\ i \in 1..Len(flow)
    <2>1. i \in Int /\ i >= Len(flow) - z + 1 /\ i <= Len(flow)
      BY <1>4, <1>6, <1>7
    <2> QED BY <1>4, <1>7, <1>12, <2>1
  <1>14. \E y \in 1..z, w \in {0, 9} :
             /\ y + Len(flow) - z \in 1..Len(flow)
             /\ flow[y + Len(flow) - z].v # w
             /\ flow' = [flow EXCEPT ![y + Len(flow) - z] = Byte(w)]
    BY <1>6, <1>13
  <1>15. /\ N = Len(sent) /\ z = Size(N) /\ Taken < N /\ counts' = counts /\ reader' = reader
         /\ sent' \in Seq([packet : Seq(Nat), sound : BOOLEAN, end : Nat])
         /\ Len(sent') = N /\ \A k \in 1..(N - 1) : sent'[k] = sent[k]
         /\ sent[N].sound /\ ~sent'[N].sound
    BY <1>1, <1>3, <1>8, <1>9, <1>11, Zenon
  <1>16. N \in Nat \ {0} /\ z \in Nat
    BY <1>2, <1>4
  <1> QED
    <2> USE <1>16
    <2> WITNESS N \in Nat \ {0}, z \in Nat
    <2> QED BY <1>10, <1>14, <1>15, Zenon

\* A frame that is spoilt on its way stays in its place.
LEMMA SpoilKeeps == ASSUME StreamInv, Spoil PROVE StreamInv'
  <1> USE DEF StreamInv
  <1>1. PICK N \in Nat \ {0}, z \in Nat :
            /\ N = Len(sent) /\ z = Size(N) /\ Taken < N /\ counts' = counts /\ reader' = reader
            /\ sent' \in Seq([packet : Seq(Nat), sound : BOOLEAN, end : Nat])
            /\ Len(sent') = N /\ \A k \in 1..(N - 1) : sent'[k] = sent[k]
            /\ sent[N].sound /\ ~sent'[N].sound
            /\ \A k \in 1..N : sent'[k].packet = sent[k].packet /\ sent'[k].end = sent[k].end
            /\ \E x \in 1..z, v \in {0, 9} :
                   /\ x + Len(flow) - z \in 1..Len(flow)
                   /\ flow[x + Len(flow) - z].v # v
                   /\ flow' = [flow EXCEPT ![x + Len(flow) - z] = Byte(v)]
    BY SpoiltFrame
  <1>2. PICK x \in 1..z, v \in {0, 9} :
            /\ x + Len(flow) - z \in 1..Len(flow)
            /\ flow[x + Len(flow) - z].v # v
            /\ flow' = [flow EXCEPT ![x + Len(flow) - z] = Byte(v)]
    BY <1>1
  <1>3. PICK i \in 1..Len(flow) : i = x + Len(flow) - z
    BY <1>2
  <1>4. flow[i].v # v /\ flow' = [flow EXCEPT ![i] = Byte(v)]
    BY <1>2, <1>3
  <1>5. Byte(v) \in Octets
    BY EmptySeq DEF Byte, Octets
  <1>6. /\ flow' \in Seq(Octets) /\ Len(flow') = Len(flow)
        /\ \A j \in 1..Len(flow) : flow'[j] = IF j = i THEN Byte(v) ELSE flow[j]
    BY <1>4, <1>5, ExceptSeq DEF FramingType
  <1>7. FramingType'
    BY <1>1, <1>6 DEF FramingType
  <1>8. \A k \in 0..N : Upto(k)' = Upto(k)
    BY <1>1 DEF Upto
  <1>9. \A k \in 1..N : Size(k)' = Size(k)
    BY <1>1 DEF Size
  <1>10. Total' = Total
    <2>1. sent # <<>> /\ sent' # <<>>
      BY <1>1
    <2>2. N \in 1..N
      BY <1>1
    <2> QED BY <1>1, <2>1, <2>2 DEF Total, Last
  <1>11. Taken' = Taken /\ Taken \in Nat
    BY <1>1, LenProperties DEF Taken, FramingType
  <1>12. FramesInPlace'
    <2>1. \A k \in 1..N : k - 1 \in 0..N /\ k \in 0..N
      BY SMTT(40), <1>1
    <2>2. \A k \in 1..N : Len(sent'[k].packet) >= 2 /\ Upto(k)' = Upto(k - 1)' + Size(k)'
      <3>1. SUFFICES ASSUME NEW k \in 1..N
                     PROVE  Len(sent'[k].packet) >= 2 /\ Upto(k)' = Upto(k - 1)' + Size(k)'
        OBVIOUS
      <3>2. Upto(k)' = Upto(k) /\ Upto(k - 1)' = Upto(k - 1) /\ Size(k)' = Size(k)
        BY <1>8, <1>9, <2>1, <3>1
      <3>3. Len(sent[k].packet) >= 2 /\ Upto(k) = Upto(k - 1) + Size(k)
        BY <1>1, <3>1 DEF FramesInPlace
      <3> QED BY <1>1, <3>1, <3>2, <3>3
    <2>3. \A j, k \in 0..N : j <= k => Upto(j)' <= Upto(k)'
      <3>1. \A j, k \in 0..N : j <= k => Upto(j) <= Upto(k)
        BY <1>1 DEF FramesInPlace
      <3> QED BY <1>8, <3>1
    <2>4. Len(sent)' = N
      BY <1>1
    <2> QED BY <2>2, <2>3, <2>4 DEF FramesInPlace
  <1>13. CountsInStep'
    <2>1. \A y : Of(y)' = Of(y)
      BY SMTT(40), <1>1 DEF Of
    <2>2. \A k \in 1..N : {j \in 1..(k - 1) : sent'[j].packet[1] = sent'[k].packet[1]} =
                              {j \in 1..(k - 1) : sent[j].packet[1] = sent[k].packet[1]}
      <3>1. \A k \in 1..N : \A j \in 1..(k - 1) : j \in 1..N
        BY <1>1
      <3>2. \A k \in 1..N : sent'[k].packet = sent[k].packet
        BY <1>1, Zenon
      <3>3. SUFFICES ASSUME NEW k \in 1..N
                     PROVE  {j \in 1..(k - 1) : sent'[j].packet[1] = sent'[k].packet[1]} =
                            {j \in 1..(k - 1) : sent[j].packet[1] = sent[k].packet[1]}
        BY Zenon
      <3>4. \A j \in 1..(k - 1) : sent'[j].packet = sent[j].packet
        BY <3>1, <3>2, Zenon
      <3>5. sent'[k].packet = sent[k].packet
        BY <3>2
      <3> QED BY <3>4, <3>5
    <2>3. counts' = counts /\ Len(sent)' = N
      BY <1>1
    <2>4. \A a \in Apids : counts'[a] = Cardinality(Of(a)') % 2^SeqBits
      <3>1. \A a \in Apids : counts[a] = Cardinality(Of(a)) % 2^SeqBits
        BY DEF CountsInStep
      <3> QED BY <2>1, <2>3, <3>1
    <2>5. ASSUME NEW k \in 1..N
          PROVE  /\ sent'[k].packet[1] \in Apids
                 /\ sent'[k].packet[2] =
                       Cardinality({j \in 1..(k - 1) :
                                       sent'[j].packet[1] = sent'[k].packet[1]}) % 2^SeqBits
      <3>1. /\ sent[k].packet[1] \in Apids
            /\ sent[k].packet[2] =
                  Cardinality({j \in 1..(k - 1) :
                                  sent[j].packet[1] = sent[k].packet[1]}) % 2^SeqBits
        BY <1>1 DEF CountsInStep
      <3>2. sent'[k].packet = sent[k].packet
        BY <1>1
      <3> QED BY <2>2, <3>1, <3>2
    <2> QED BY <2>3, <2>4, <2>5 DEF CountsInStep
  <1>14. TakenAsSent'
    <2>1. \A k \in 1..Taken : k \in 1..(N - 1)
      BY <1>1, <1>11
    <2>2. Upto(Taken)' = Upto(Taken)
      <3>1. PICK k : k = Taken
        OBVIOUS
      <3>2. Upto(k)' = Upto(k)
        BY <1>1, <1>8, <1>11, <3>1
      <3> QED BY <1>11, <3>1, <3>2 DEF Upto
    <2>3. \A k \in 1..Taken : sent'[k].sound /\ reader'.got[k] = sent'[k].packet
      <3>1. \A k \in 1..Taken : sent[k].sound /\ reader.got[k] = sent[k].packet
        BY DEF TakenAsSent
      <3> QED BY <1>1, <2>1, <3>1
    <2>4. (Upto(Taken) + Len(flow) <= Total)'
      <3>1. Upto(Taken) + Len(flow) <= Total
        BY DEF TakenAsSent
      <3> QED BY <1>6, <1>10, <2>2, <3>1
    <2>5. Taken' <= Len(sent')
      BY <1>1, <1>11
    <2> QED BY <1>11, <2>3, <2>4, <2>5 DEF TakenAsSent
  <1>15. ASSUME reader.reads PROVE RestAhead'
    <2>1. PICK l : l = Len(reader.buffer)
      OBVIOUS
    <2>2. /\ Len(Ahead) = Upto(N) - Upto(Taken) /\ Len(Ahead) = l + Len(flow)
          /\ l \in Nat /\ Len(flow) \in Nat /\ Len(Ahead) \in Nat
          /\ Upto(Taken) \in Nat /\ Upto(N) \in Nat /\ Upto(N - 1) \in Nat
          /\ Upto(N) = Upto(N - 1) + z
      <3>1. Taken \in 0..N /\ N \in 0..N /\ N - 1 \in 0..N /\ N \in 1..N
        BY SMTT(40), <1>1, <1>11
      <3>2. Upto(Taken) \in Nat /\ Upto(N) \in Nat /\ Upto(N - 1) \in Nat
            /\ Upto(N) = Upto(N - 1) + z
        BY <1>1, <3>1, FrameFacts
      <3>3. /\ Len(Ahead) = Upto(N) - Upto(Taken) /\ Len(Ahead) = l + Len(flow)
            /\ l \in Nat /\ Len(flow) \in Nat /\ Len(Ahead) \in Nat
        BY <1>1, <1>15, <2>1, AheadFacts, LenProperties DEF FramingType
      <3> QED BY <3>2, <3>3
    <2>3. Start(N) = Len(Ahead) - z /\ Start(N) \in Nat
      <3>1. Start(N) \in 0..Len(Ahead)
        <4>1. N \in (Taken + 1)..Len(sent)
          BY <1>1, <1>11
        <4> QED BY <1>15, <4>1, AheadFacts DEF Start
      <3> QED BY <2>2, <3>1 DEF Start
    <2>4. /\ \A j \in 1..Len(Ahead) : j # l + i => Ahead'[j] = Ahead[j]
          /\ Ahead'[l + i] = Byte(v) /\ Ahead[l + i] = flow[i]
      <3>1. PICK s, t, u : s = reader.buffer /\ t = flow /\ u = flow'
        OBVIOUS
      <3>2. /\ s \in Seq(Octets) /\ t \in Seq(Octets) /\ u \in Seq(Octets)
            /\ Len(s) = l /\ Len(t) = Len(flow) /\ Len(u) = Len(t)
            /\ Ahead = s \o t /\ Ahead' = s \o u
        BY <1>1, <1>6, <2>1, <3>1 DEF FramingType, Ahead
      <3>3. /\ \A j \in 1..l : Ahead[j] = s[j] /\ Ahead'[j] = s[j]
            /\ \A j \in 1..Len(t) : Ahead[l + j] = t[j] /\ Ahead'[l + j] = u[j]
        <4>1. /\ \A j \in 1..Len(s) : (s \o t)[j] = s[j]
              /\ \A j \in 1..Len(t) : (s \o t)[Len(s) + j] = t[j]
          BY <3>2, Joined
        <4>2. /\ \A j \in 1..Len(s) : (s \o u)[j] = s[j]
              /\ \A j \in 1..Len(u) : (s \o u)[Len(s) + j] = u[j]
          BY <3>2, Joined
        <4> QED BY <3>2, <4>1, <4>2
      <3>4. ASSUME NEW j \in 1..Len(Ahead), j # l + i PROVE Ahead'[j] = Ahead[j]
        <4>1. CASE j <= l
          <5>1. j \in 1..l
            BY <2>2, <4>1
          <5> QED BY <3>3, <5>1
        <4>2. CASE ~(j <= l)
          <5>1. j - l \in 1..Len(t) /\ l + (j - l) = j /\ j - l # i
            BY <2>2, <3>1, <3>4, <4>2
          <5>2. Ahead[l + (j - l)] = t[j - l] /\ Ahead'[l + (j - l)] = u[j - l]
            BY <3>3, <5>1
          <5>3. u[j - l] = t[j - l]
            BY <1>6, <3>1, <5>1
          <5> QED BY <5>1, <5>2, <5>3
        <4> QED BY <4>1, <4>2
      <3>5. Ahead'[l + i] = u[i] /\ Ahead[l + i] = t[i]
        BY <3>1, <3>3
      <3> QED BY <1>6, <3>1, <3>4, <3>5
    <2>5. l + i = Start(N) + x
      BY <1>3, <2>2, <2>3
    <2>6. ASSUME NEW k \in (Taken + 1)..N
          PROVE  Start(k)' = Start(k)
      <3>1. k - 1 \in 0..N
        BY <1>11
      <3>2. PICK m : m = Taken
        OBVIOUS
      <3>3. m \in 0..N /\ Taken' = m
        BY <1>1, <1>11, <3>2
      <3>4. Upto(m)' = Upto(m) /\ Upto(k - 1)' = Upto(k - 1)
        BY <1>8, <3>1, <3>3
      <3>5. Start(k) = Upto(k - 1) - Upto(m) /\ Start(k)' = Upto(k - 1)' - Upto(m)'
        BY <3>2, <3>3 DEF Start, Upto
      <3> QED BY <3>4, <3>5
    <2>7. ASSUME NEW k \in (Taken + 1)..N
          PROVE  IF sent'[k].sound THEN Intact(Ahead', Start(k)', sent'[k].packet)
                 ELSE Spoilt(Ahead', Start(k)', sent'[k].packet)
      <3>1. PICK q : q = sent[k].packet
        OBVIOUS
      <3>2. k \in 1..N /\ sent'[k].packet = q /\ Start(k)' = Start(k)
        BY <1>1, <1>11, <2>6, <3>1
      <3>3. Size(k) = Len(q) + 4 /\ Len(q) \in Nat /\ Upto(k) = Upto(k - 1) + Size(k)
        BY <1>1, <3>1, <3>2, FrameFacts DEF Size
      <3>4. IF sent[k].sound THEN Intact(Ahead, Start(k), q) ELSE Spoilt(Ahead, Start(k), q)
        BY <1>1, <1>15, <3>1 DEF RestAhead
      <3>5. CASE k = N
        <4>1. Intact(Ahead, Start(N), q) /\ z = Len(q) + 4
          BY <1>1, <3>3, <3>4, <3>5
        <4>2. Ahead[Start(N) + x] = Framed(q)[x]
          BY <4>1 DEF Intact
        <4>3. Framed(q)[x].v # v
          BY <1>4, <2>4, <2>5, <4>2
        <4>4. \A j \in 1..z : j # x => Ahead'[Start(N) + j] = Framed(q)[j]
          <5>1. \A j \in 1..z : j # x => /\ Start(N) + j \in 1..Len(Ahead)
                                       /\ Start(N) + j # l + i
            BY SMTT(40), <2>2, <2>3, <2>5
          <5>2. \A j \in 1..z : Ahead[Start(N) + j] = Framed(q)[j]
            BY <4>1 DEF Intact
          <5> QED BY <2>4, <5>1, <5>2
        <4>5. Ahead'[Start(N) + x] = Byte(v)
          BY <2>4, <2>5
        <4>6. Spoilt(Ahead', Start(N), q)
          BY <4>1, <4>3, <4>4, <4>5 DEF Spoilt
        <4> QED BY <1>1, <3>2, <3>5, <4>6
      <3>6. CASE k # N
        <4>1. k \in 1..(N - 1) /\ k \in 0..N /\ N - 1 \in 0..N /\ k <= N - 1
              /\ k - 1 \in 0..N
          <5>1. N \in Nat
            BY <1>1
          <5>2. k \in 1..N
            BY <3>2
          <5> QED BY <3>6, <5>1, <5>2
        <4>2. Upto(k) <= Upto(N - 1) /\ Upto(k - 1) \in Nat
          BY <1>1, <4>1, FrameFacts
        <4>3. Start(k) + (Len(q) + 4) <= Start(N)
          <5>1. Start(k) = Upto(k - 1) - Upto(Taken) /\ Start(N) = Upto(N - 1) - Upto(Taken)
            BY DEF Start
          <5>2. PICK t, e, f, g, n : /\ t = Upto(Taken) /\ e = Upto(k - 1) /\ f = Upto(k)
                                     /\ g = Upto(N - 1) /\ n = Len(q) + 4
            OBVIOUS
          <5>3. t \in Nat /\ e \in Nat /\ g \in Nat /\ n \in Nat /\ f = e + n /\ f <= g
            BY <2>2, <3>3, <4>2, <5>2
          <5>4. (e - t) + n <= g - t
            BY <5>3
          <5> QED BY <5>1, <5>2, <5>4
        <4>4. Start(k) \in Nat
          <5>1. k - 1 \in Taken..Len(sent)
            BY <1>1, <1>15, AheadFacts
          <5>2. Start(k) \in 0..Len(Ahead)
            BY <1>15, <5>1, AheadFacts DEF Start
          <5> QED BY <5>2
        <4>5. \A j \in 1..(Len(q) + 4) : Start(k) + j \in 1..Len(Ahead) /\ Start(k) + j # l + i
          <5>1. PICK e, g, n : e = Start(k) /\ g = Start(N) /\ n = Len(q) + 4
            OBVIOUS
          <5>2. PICK a, y : a = Len(Ahead) /\ y = l + i
            OBVIOUS
          <5>3. e \in Nat /\ g \in Nat /\ n \in Nat /\ e + n <= g /\ a \in Nat
            BY <2>2, <2>3, <3>3, <4>3, <4>4, <5>1, <5>2
          <5>4. y = g + x /\ g + z = a
            BY <2>2, <2>3, <2>5, <5>1, <5>2
          <5>5. \A j \in 1..n : e + j \in 1..a /\ e + j # y
            BY <5>3, <5>4, BeforeFrame
          <5> QED BY <5>1, <5>2, <5>5
        <4>6. \A j \in 1..(Len(q) + 4) : Ahead'[Start(k) + j] = Ahead[Start(k) + j]
          BY <2>4, <4>5
        <4>7. Intact(Ahead, Start(k), q) => Intact(Ahead', Start(k), q)
          BY <4>6 DEF Intact
        <4>8. Spoilt(Ahead, Start(k), q) => Spoilt(Ahead', Start(k), q)
          BY <4>6 DEF Spoilt
        <4>9. sent'[k] = sent[k]
          BY <1>1, <4>1
        <4> QED BY <3>2, <3>4, <4>7, <4>8, <4>9
      <3> QED BY <3>5, <3>6
    <2>8. (Upto(Taken) + Len(reader.buffer) + Len(flow) = Total)'
      <3>1. Upto(Taken) + Len(reader.buffer) + Len(flow) = Total
        BY <1>15 DEF RestAhead
      <3>2. PICK m : m = Taken
        OBVIOUS
      <3>3. Upto(m)' = Upto(m) /\ Taken' = m
        BY <1>1, <1>8, <1>11, <3>2
      <3>4. Upto(Taken)' = Upto(m)'
        BY <3>3 DEF Upto
      <3> QED BY <1>1, <1>6, <1>10, <3>1, <3>2, <3>3, <3>4
    <2>9. (Taken < Len(sent) /\ sent[Taken + 1].sound =>
               Len(reader.buffer) < Size(Taken + 1))'
      <3>1. PICK k : k = Taken + 1
        OBVIOUS
      <3>2. SUFFICES ASSUME sent'[k].sound PROVE Len(reader.buffer) < Size(k)'
        BY <1>1, <1>11, <3>1 DEF Size
      <3>3. k \in 1..(N - 1) /\ k \in 1..N
        <4>1. k # N /\ N \in Nat /\ Taken < N
          BY <1>1, <3>2
        <4> QED BY <1>11, <3>1, <4>1
      <3>4. sent[k].sound /\ Taken < Len(sent)
        BY <1>1, <3>2, <3>3
      <3>5. Len(reader.buffer) < Size(k)
        BY <1>15, <3>1, <3>4 DEF RestAhead
      <3> QED BY <1>9, <3>3, <3>5
    <2> QED BY <1>1, <1>11, <2>7, <2>8, <2>9 DEF RestAhead
  <1>16. ASSUME ~reader.reads PROVE RestAhead'
    BY <1>1, <1>16 DEF RestAhead
  <1> QED BY <1>7, <1>12, <1>13, <1>14, <1>15, <1>16

-----------------------------------------------------------------------------
\* The bytes that a read adds to the buffer, and those that stay on their way.
LEMMA ReadCuts ==
    ASSUME StreamInv, reader.reads, NEW n \in 1..Len(flow)
    PROVE  /\ Arriving(reader.buffer \o SubSeq(flow, 1, n))
           /\ Len(reader.buffer \o SubSeq(flow, 1, n)) = Len(reader.buffer) + n
           /\ SubSeq(flow, n + 1, Len(flow)) \in Seq(Octets)
           /\ Len(SubSeq(flow, n + 1, Len(flow))) = Len(flow) - n
           /\ \A j \in 1..(Len(flow) - n) :
                  SubSeq(flow, n + 1, Len(flow))[j] = Ahead[Len(reader.buffer) + n + j]
  <1> USE DEF StreamInv
  <1>1. PICK s, t : s = reader.buffer /\ t = flow
    OBVIOUS
  <1>2. PICK l, m : l = Len(s) /\ m = Len(t)
    OBVIOUS
  <1>3. s \in Seq(Octets) /\ t \in Seq(Octets) /\ Ahead = s \o t /\ l \in Nat /\ m \in Nat
    BY <1>1, <1>2, LenProperties DEF FramingType, Ahead
  <1>4. \A j \in 1..m : t[j] \in Octets
    BY <1>2, <1>3, ElementOfSeq
  <1>5. n \in 1..m /\ n \in Nat /\ n + 1 \in Int /\ 1 \in Int
    BY <1>1, <1>2
  <1>6. PICK h : h = SubSeq(t, 1, n)
    OBVIOUS
  <1>7. h \in Seq(Octets) /\ Len(h) = n /\ \A j \in 1..n : h[j] = t[j]
    <2>1. \A j \in 1..n : t[j] \in Octets
      BY <1>3, <1>4, <1>5
    <2>2. /\ h \in Seq(Octets) /\ Len(h) = IF 1 <= n THEN n - 1 + 1 ELSE 0
          /\ \A j \in 1..(n - 1 + 1) : h[j] = t[1 + j - 1]
      BY <1>5, <1>6, <2>1, SubSeqProperties
    <2>3. (IF 1 <= n THEN n - 1 + 1 ELSE 0) = n /\ n - 1 + 1 = n
          /\ \A j \in 1..n : 1 + j - 1 = j
      BY <1>5
    <2> QED BY <2>2, <2>3
  <1>8. PICK r : r = SubSeq(t, n + 1, m)
    OBVIOUS
  <1>9. r \in Seq(Octets) /\ Len(r) = m - n /\ \A j \in 1..(m - n) : r[j] = t[n + j]
    <2>1. \A j \in (n + 1)..m : t[j] \in Octets
      BY <1>3, <1>4, <1>5
    <2>2. PICK e : e = n + 1
      OBVIOUS
    <2>3. /\ r \in Seq(Octets) /\ Len(r) = IF e <= m THEN m - e + 1 ELSE 0
          /\ \A j \in 1..(m - e + 1) : r[j] = t[e + j - 1]
      BY <1>3, <1>5, <1>8, <2>1, <2>2, SubSeqProperties
    <2>4. (IF e <= m THEN m - e + 1 ELSE 0) = m - n /\ m - e + 1 = m - n
          /\ \A j \in 1..(m - n) : e + j - 1 = n + j
      BY <1>3, <1>5, <2>2
    <2> QED BY <2>3, <2>4
  <1>10. /\ s \o h \in Seq(Octets) /\ Len(s \o h) = l + n
         /\ \A j \in 1..l : (s \o h)[j] = s[j]
         /\ \A j \in 1..n : (s \o h)[l + j] = h[j]
    BY <1>2, <1>3, <1>7, Joined
  <1>11. /\ Len(Ahead) = l + m
         /\ \A j \in 1..l : Ahead[j] = s[j]
         /\ \A j \in 1..m : Ahead[l + j] = t[j]
    BY <1>2, <1>3, Joined
  <1>12. \A j \in 1..(l + n) : (s \o h)[j] = Ahead[j]
    <2>1. ASSUME NEW j \in 1..(l + n), ~(j <= l) PROVE (s \o h)[j] = Ahead[j]
      <3>1. j - l \in 1..n /\ j - l \in 1..m /\ l + (j - l) = j
        BY <1>3, <1>5, <2>1
      <3>2. (s \o h)[l + (j - l)] = h[j - l] /\ Ahead[l + (j - l)] = t[j - l]
        BY <1>10, <1>11, <3>1
      <3> QED BY <1>7, <3>1, <3>2
    <2>2. ASSUME NEW j \in 1..(l + n), j <= l PROVE (s \o h)[j] = Ahead[j]
      <3>1. j \in 1..l
        BY <1>3, <2>2
      <3> QED BY <1>10, <1>11, <3>1
    <2> QED BY <2>1, <2>2
  <1>13. \A j \in 1..(m - n) : r[j] = Ahead[l + n + j]
    <2>1. \A j \in 1..(m - n) : n + j \in 1..m /\ l + (n + j) = l + n + j
      BY <1>3, <1>5
    <2> QED BY <1>9, <1>11, <2>1
  <1>14. Arriving(s \o h)
    <2>1. l + n <= l + m
      BY <1>3, <1>5
    <2> QED BY <1>10, <1>11, <1>12, <2>1 DEF Arriving
  <1> QED BY <1>1, <1>2, <1>6, <1>8, <1>9, <1>10, <1>13, <1>14

\* The bytes of a slice.
LEMMA Slice ==
    ASSUME NEW s, NEW f \in Int, NEW h \in Int, \A j \in f..h : s[j] \in Octets
    PROVE  /\ SubSeq(s, f, h) \in Seq(Octets)
           /\ Len(SubSeq(s, f, h)) = IF f <= h THEN h - f + 1 ELSE 0
           /\ \A j \in 1..(h - f + 1) : SubSeq(s, f, h)[j] = s[f + j - 1]
  BY SubSeqProperties

\* What is behind the bytes that a read takes lies ahead of the reader then.
LEMMA BytesLeft ==
    ASSUME StreamInv, reader.reads, NEW n \in 1..Len(flow), NEW b,
           b = reader.buffer \o SubSeq(flow, 1, n), NEW a \in 0..Len(b)
    PROVE  LET rest == SubSeq(b, a + 1, Len(b))
               left == rest \o SubSeq(flow, n + 1, Len(flow))
           IN  /\ rest \in Seq(Octets) /\ Len(rest) = Len(b) - a
               /\ \A j \in 1..(Len(Ahead) - a) : left[j] = Ahead[a + j]
  <1> USE DEF StreamInv
  <1>1. PICK r, t : r = SubSeq(b, a + 1, Len(b)) /\ t = SubSeq(flow, n + 1, Len(flow))
    OBVIOUS
  <1>2. PICK B, m : B = Len(b) /\ m = Len(flow) - n
    OBVIOUS
  <1>3. /\ b \in Seq(Octets) /\ B \in Nat /\ B <= Len(Ahead) /\ B = Len(reader.buffer) + n
        /\ \A j \in 1..B : b[j] = Ahead[j]
        /\ t \in Seq(Octets) /\ Len(t) = m
        /\ \A j \in 1..m : t[j] = Ahead[B + j]
    <2>1. /\ Arriving(b) /\ Len(b) = Len(reader.buffer) + n
          /\ SubSeq(flow, n + 1, Len(flow)) \in Seq(Octets)
          /\ Len(SubSeq(flow, n + 1, Len(flow))) = Len(flow) - n
          /\ \A j \in 1..(Len(flow) - n) :
                 SubSeq(flow, n + 1, Len(flow))[j] = Ahead[Len(reader.buffer) + n + j]
      BY ReadCuts
    <2> QED BY <1>1, <1>2, <2>1, LenProperties DEF Arriving
  <1>4. a \in Nat /\ a <= B /\ a + 1 \in Int /\ m \in Nat /\ Len(Ahead) = B + m
    <2>1. Len(Ahead) = Len(reader.buffer) + Len(flow)
      BY AheadFacts
    <2>2. Len(reader.buffer) \in Nat /\ Len(flow) \in Nat
      BY LenProperties DEF FramingType
    <2> QED BY <1>2, <1>3, <2>1, <2>2
  <1>5. r \in Seq(Octets) /\ Len(r) = B - a /\ \A j \in 1..(B - a) : r[j] = b[a + j]
    <2>1. \A j \in (a + 1)..B : b[j] \in Octets
      <3>1. \A j \in (a + 1)..B : j \in 1..B
        BY <1>3, <1>4
      <3> QED BY <1>2, <1>3, <3>1, ElementOfSeq
    <2>2. PICK e : e = a + 1
      OBVIOUS
    <2>3. /\ r \in Seq(Octets) /\ Len(r) = IF e <= B THEN B - e + 1 ELSE 0
          /\ \A j \in 1..(B - e + 1) : r[j] = b[e + j - 1]
      <3>1. e \in Int /\ B \in Int /\ r = SubSeq(b, e, B) /\ \A j \in e..B : b[j] \in Octets
        <4>1. e \in Int /\ B \in Int
          BY <1>3, <1>4, <2>2
        <4>2. r = SubSeq(b, e, B)
          BY <1>1, <1>2, <2>2, Zenon
        <4> QED BY <2>1, <2>2, <4>1, <4>2, Zenon
      <3> QED BY <3>1, Slice, Zenon
    <2>4. (IF e <= B THEN B - e + 1 ELSE 0) = B - a /\ B - e + 1 = B - a
          /\ \A j \in 1..(B - a) : e + j - 1 = a + j
      BY <1>3, <1>4, <2>2
    <2> QED BY <2>3, <2>4
  <1>6. /\ \A j \in 1..(B - a) : (r \o t)[j] = r[j]
        /\ \A j \in 1..m : (r \o t)[(B - a) + j] = t[j]
    <2>1. /\ \A j \in 1..Len(r) : (r \o t)[j] = r[j]
          /\ \A j \in 1..Len(t) : (r \o t)[Len(r) + j] = t[j]
      BY <1>3, <1>5, Joined, ZenonT(60)
    <2>2. Len(r) = B - a /\ Len(t) = m
      BY <1>3, <1>5
    <2> QED BY <2>1, <2>2, Zenon
  <1>7. ASSUME NEW j \in 1..((B + m) - a)
        PROVE  (r \o t)[j] = Ahead[a + j]
    <2>1. CASE j <= B - a
      <3>1. j \in 1..(B - a) /\ a + j \in 1..B
        BY <1>3, <1>4, <1>7, <2>1
      <3> QED BY <1>3, <1>5, <1>6, <3>1
    <2>2. CASE ~(j <= B - a)
      <3>1. /\ j - (B - a) \in 1..m /\ (B - a) + (j - (B - a)) = j
            /\ B + (j - (B - a)) = a + j
        <4>1. j \in Nat /\ j >= 1 /\ j <= (B + m) - a
          BY <1>3, <1>4, <1>7
        <4>2. a \in Nat /\ B \in Nat /\ m \in Nat /\ a <= B
          BY <1>3, <1>4
        <4>3. PICK w \in Nat : w = B - a
          BY <4>2
        <4>4. w + a = B /\ j > w /\ j <= w + m
          BY <2>2, <4>1, <4>2, <4>3
        <4>5. j - w \in 1..m /\ w + (j - w) = j /\ B + (j - w) = a + j
          BY <4>1, <4>2, <4>3, <4>4
        <4> QED BY <4>3, <4>5
      <3>2. (r \o t)[(B - a) + (j - (B - a))] = t[j - (B - a)]
        BY <1>6, <3>1
      <3>3. t[j - (B - a)] = Ahead[B + (j - (B - a))]
        BY <1>3, <3>1
      <3> QED BY <3>1, <3>2, <3>3
    <2> QED BY <2>1, <2>2
  <1> QED BY <1>1, <1>2, <1>4, <1>5, <1>7

\* A read takes the frames that are complete, and leaves the rest in place.
LEMMA ReadKeeps == ASSUME StreamInv, Read PROVE StreamInv'
  <1> USE DEF StreamInv
  <1>0. reader.reads /\ counts' = counts /\ sent' = sent
    BY DEF Read
  <1>1. PICK n \in 1..Len(flow) :
            LET d == Deframe(reader.buffer \o SubSeq(flow, 1, n))
            IN  /\ flow' = SubSeq(flow, n + 1, Len(flow))
                /\ reader' = IF d.ok
                             THEN [reader EXCEPT !.buffer = d.rest, !.got = @ \o d.packets]
                             ELSE [reader EXCEPT !.buffer = <<>>, !.reads = FALSE]
    BY DEF Read
  <1>2. PICK b, d : b = reader.buffer \o SubSeq(flow, 1, n) /\ d = Deframe(b)
    OBVIOUS
  <1>3. reader' = IF d.ok THEN [reader EXCEPT !.buffer = d.rest, !.got = @ \o d.packets]
                  ELSE [reader EXCEPT !.buffer = <<>>, !.reads = FALSE]
    BY <1>1, <1>2
  <1>4. PICK N, B, T : N = Len(sent) /\ B = Len(b) /\ T = Taken
    OBVIOUS
  <1>5. /\ Arriving(b) /\ b \in Seq(Octets) /\ B \in Nat /\ B = Len(reader.buffer) + n
        /\ flow' \in Seq(Octets) /\ Len(flow') = Len(flow) - n
    BY <1>0, <1>1, <1>2, <1>4, ReadCuts, LenProperties DEF Arriving
  <1>6. /\ T \in Nat /\ N \in Nat /\ T <= N /\ Len(flow) \in Nat /\ Len(reader.buffer) \in Nat
        /\ Upto(T) \in Nat /\ Total \in Nat
        /\ Upto(T) + Len(reader.buffer) + Len(flow) = Total
        /\ Total = Upto(N)
    <2>1. T \in 0..N /\ N \in Nat
      BY <1>0, <1>4, AheadFacts, FrameFacts
    <2>2. Upto(T) \in Nat /\ Upto(N) \in Nat /\ Total = Upto(N)
      BY <1>4, <2>1, FrameFacts
    <2>3. Upto(T) + Len(reader.buffer) + Len(flow) = Total
      BY <1>0, <1>4 DEF RestAhead
    <2> QED BY <2>1, <2>2, <2>3, LenProperties DEF FramingType
  <1>7. \A k : Upto(k)' = Upto(k) /\ Size(k)' = Size(k) /\ Of(k)' = Of(k)
    BY <1>0 DEF Upto, Size, Of
  <1>8. Total' = Total
    BY <1>0 DEF Total
  <1>9. FramesInPlace'
    BY <1>0, <1>7 DEF FramesInPlace
  <1>10. CountsInStep'
    BY <1>0, <1>7 DEF CountsInStep
  <1>11. CASE ~d.ok
    <2>1. /\ reader'.got = reader.got /\ reader'.buffer = <<>> /\ reader'.reads = FALSE
          /\ reader' \in [buffer : Seq(Octets), got : Seq(Seq(Nat)), reads : BOOLEAN]
      <3>1. reader' = [reader EXCEPT !.buffer = <<>>, !.reads = FALSE]
        BY <1>3, <1>11
      <3>2. <<>> \in Seq(Octets)
        OBVIOUS
      <3> QED BY <3>1, <3>2 DEF FramingType
    <2>2. FramingType'
      BY <1>0, <1>5, <2>1 DEF FramingType
    <2>3. RestAhead'
      BY <2>1 DEF RestAhead
    <2>4. Taken' = T
      BY <1>4, <2>1 DEF Taken
    <2>5. (Upto(Taken) + Len(flow) <= Total)'
      <3>1. Upto(T) + (Len(flow) - n) <= Total
        BY <1>6
      <3>2. Upto(Taken)' = Upto(T)
        <4>1. Upto(Taken)' = Upto(T)'
          BY <2>4 DEF Upto
        <4> QED BY <1>7, <4>1
      <3> QED BY <1>5, <1>8, <3>1, <3>2
    <2>6. TakenAsSent'
      <3>1. /\ T <= N
            /\ \A k \in 1..T : sent[k].sound /\ reader.got[k] = sent[k].packet
        BY <1>4 DEF TakenAsSent
      <3> QED BY <1>0, <1>4, <2>1, <2>4, <2>5, <3>1 DEF TakenAsSent
    <2> QED BY <1>9, <1>10, <2>2, <2>3, <2>6
  <1>12. CASE d.ok
    <2>1. PICK l \in T..N : Gives(b, T, l, d)
      BY <1>0, <1>2, <1>4, <1>5, <1>12, DeframeGives
    <2>2. PICK a : a = At(l)
      OBVIOUS
    <2>3. /\ a <= B /\ d.packets \in Seq(Seq(Nat)) /\ Len(d.packets) = l - T
          /\ \A j \in 1..(l - T) : sent[T + j].sound /\ d.packets[j] = sent[T + j].packet
          /\ d.rest = SubSeq(b, a + 1, B)
          /\ l < N /\ sent[l + 1].sound => B - a < Size(l + 1)
      BY <1>4, <2>1, <2>2 DEF Gives
    <2>4. /\ l \in Nat /\ T <= l /\ l <= N /\ a \in 0..B /\ a \in Nat
          /\ Upto(l) \in Nat /\ Upto(l) = Upto(T) + a
      <3>1. l \in Nat /\ T <= l /\ l <= N /\ l \in 0..N
        BY <1>6
      <3>2. a \in 0..Len(Ahead) /\ Upto(l) \in Nat /\ a = Upto(l) - Upto(T)
        BY <1>0, <1>4, <2>1, <2>2, <3>1, AtFacts, FrameFacts DEF At
      <3> QED BY <1>5, <1>6, <2>3, <3>1, <3>2
    <2>5. /\ d.rest \in Seq(Octets) /\ Len(d.rest) = B - a
          /\ \A j \in 1..(Len(Ahead) - a) : (d.rest \o flow')[j] = Ahead[a + j]
      <3>1. a \in 0..Len(b) /\ b = reader.buffer \o SubSeq(flow, 1, n)
        BY <1>2, <1>4, <2>4
      <3>2. /\ SubSeq(b, a + 1, Len(b)) \in Seq(Octets)
            /\ Len(SubSeq(b, a + 1, Len(b))) = Len(b) - a
            /\ \A j \in 1..(Len(Ahead) - a) :
                  (SubSeq(b, a + 1, Len(b)) \o SubSeq(flow, n + 1, Len(flow)))[j] = Ahead[a + j]
        BY <1>0, <3>1, BytesLeft
      <3>3. flow' = SubSeq(flow, n + 1, Len(flow)) /\ d.rest = SubSeq(b, a + 1, Len(b))
        BY <1>1, <1>4, <2>3
      <3> QED BY <1>4, <3>2, <3>3
    <2>6. /\ reader'.buffer = d.rest /\ reader'.got = reader.got \o d.packets
          /\ reader'.reads = reader.reads
          /\ reader.got \in Seq(Seq(Nat)) /\ Len(reader.got) = T
      BY <1>3, <1>4, <1>12 DEF FramingType, Taken
    <2>7. /\ reader'.got \in Seq(Seq(Nat)) /\ Len(reader'.got) = T + (l - T)
          /\ \A k \in 1..(T + (l - T)) :
                reader'.got[k] = IF k <= T THEN reader.got[k] ELSE d.packets[k - T]
      <3>1. PICK g, h : g = reader.got /\ h = d.packets
        OBVIOUS
      <3>2. g \in Seq(Seq(Nat)) /\ h \in Seq(Seq(Nat)) /\ Len(g) = T /\ Len(h) = l - T
            /\ reader'.got = g \o h
        BY <2>3, <2>6, <3>1
      <3>3. /\ g \o h \in Seq(Seq(Nat)) /\ Len(g \o h) = Len(g) + Len(h)
            /\ \A k \in 1..Len(g) + Len(h) :
                  (g \o h)[k] = IF k <= Len(g) THEN g[k] ELSE h[k - Len(g)]
        BY <3>2, ConcatProperties
      <3> QED BY <3>1, <3>2, <3>3
    <2>8. FramingType'
      <3>1. reader' \in [buffer : Seq(Octets), got : Seq(Seq(Nat)), reads : BOOLEAN]
        <4>1. reader' = [reader EXCEPT !.buffer = d.rest, !.got = @ \o d.packets]
          BY <1>3, <1>12
        <4>2. reader.got \o d.packets \in Seq(Seq(Nat))
          BY <2>6, <2>7
        <4> QED BY <2>5, <4>1, <4>2 DEF FramingType
      <3> QED BY <1>0, <1>5, <3>1 DEF FramingType
    <2>9. Taken' = l
      <3>1. T + (l - T) = l
        BY <1>6, <2>4
      <3> QED BY <2>7, <3>1 DEF Taken
    <2>10. Upto(Taken)' = Upto(l)
      <3>1. Upto(Taken)' = Upto(l)'
        BY <2>9 DEF Upto
      <3> QED BY <1>7, <3>1
    <2>11. \A k \in 1..l : sent[k].sound /\ reader'.got[k] = sent[k].packet
      <3>1. SUFFICES ASSUME NEW k \in 1..l
                     PROVE  sent[k].sound /\ reader'.got[k] = sent[k].packet
        OBVIOUS
      <3>2. k \in 1..(T + (l - T))
        BY <1>6, <2>4, <3>1
      <3>3. CASE k <= T
        <4>1. k \in 1..T
          BY <1>6, <3>1, <3>3
        <4> QED BY <1>4, <2>7, <3>2, <3>3, <4>1 DEF TakenAsSent
      <3>4. CASE ~(k <= T)
        <4>1. k - T \in 1..(l - T) /\ T + (k - T) = k
          BY <1>6, <2>4, <3>1, <3>4
        <4>2. sent[T + (k - T)].sound /\ d.packets[k - T] = sent[T + (k - T)].packet
          BY <2>3, <4>1
        <4> QED BY <2>7, <3>2, <3>4, <4>1, <4>2
      <3> QED BY <3>3, <3>4
    <2>12. PICK u, e, f, t : /\ u = Upto(T) /\ e = Len(reader.buffer) /\ f = Len(flow)
                             /\ t = Total
      OBVIOUS
    <2>13. /\ u \in Nat /\ e \in Nat /\ f \in Nat /\ t \in Nat /\ u + e + f = t
           /\ B = e + n /\ Len(flow') = f - n /\ n \in Nat
           /\ Upto(l) = u + a /\ a \in Nat /\ a <= B /\ Len(d.rest) = B - a
      BY <1>5, <1>6, <2>3, <2>4, <2>5, <2>12
    <2>14. TakenAsSent'
      <3>1. (u + a) + (f - n) <= t
        BY <2>13
      <3>2. (Upto(Taken) + Len(flow) <= Total)'
        BY <1>8, <2>10, <2>12, <2>13, <3>1
      <3>3. l <= Len(sent')
        BY <1>0, <1>4, <2>4
      <3> QED BY <1>0, <2>9, <2>11, <3>2, <3>3 DEF TakenAsSent
    <2>15. (Upto(Taken) + Len(reader.buffer) + Len(flow) = Total)'
      <3>1. (u + a) + (B - a) + (f - n) = t
        BY <2>13
      <3> QED BY <1>8, <2>6, <2>10, <2>12, <2>13, <3>1
    <2>16. ASSUME NEW k \in (l + 1)..N
           PROVE  IF sent[k].sound THEN Intact(Ahead', Start(k)', sent[k].packet)
                  ELSE Spoilt(Ahead', Start(k)', sent[k].packet)
      <3>1. PICK q, y, z : /\ q = sent[k].packet /\ y = Start(k) /\ z = Start(k)'
        OBVIOUS
      <3>2. k \in (T + 1)..N /\ k \in 1..N /\ k - 1 \in 0..N /\ k - 1 \in T..N /\ k \in 0..N
            /\ l <= k - 1 /\ l \in 0..N
        BY <1>6, <2>4
      <3>3. /\ y = Upto(k - 1) - u /\ z = Upto(k - 1) - Upto(l)
            /\ Upto(k - 1) \in Nat /\ Upto(l) <= Upto(k - 1)
        <4>1. z = Upto(k - 1) - Upto(l)
          BY <1>7, <2>10, <3>1 DEF Start
        <4>2. y = Upto(k - 1) - u
          BY <1>4, <2>12, <3>1 DEF Start
        <4> QED BY <1>4, <3>2, <4>1, <4>2, FrameFacts
      <3>4. y = a + z /\ z \in Nat /\ y \in Nat
        <4>1. PICK c : c = Upto(k - 1)
          OBVIOUS
        <4>2. y = c - u /\ z = c - (u + a) /\ c \in Nat /\ u + a <= c
          BY <2>13, <3>3, <4>1
        <4> QED BY <2>13, <4>2
      <3>5. IF sent[k].sound THEN Intact(Ahead, y, q) ELSE Spoilt(Ahead, y, q)
        BY <1>0, <1>4, <3>1, <3>2 DEF RestAhead
      <3>6. \A j \in 1..(Len(q) + 4) : z + j \in 1..(Len(Ahead) - a)
        <4>1. Upto(k) = Upto(k - 1) + Size(k) /\ Size(k) = Len(q) + 4 /\ Len(q) \in Nat
          BY <1>4, <3>1, <3>2, FrameFacts DEF Size
        <4>2. Upto(k) - u \in 0..Len(Ahead) /\ Len(Ahead) \in Nat
          <5>1. k \in Taken..Len(sent)
            BY <1>4, <1>6, <3>2
          <5> QED BY <1>0, <1>4, <2>12, <5>1, AheadFacts
        <4>3. PICK c, h : c = Upto(k - 1) /\ h = Len(q) + 4
          OBVIOUS
        <4>4. c + h - u <= Len(Ahead) /\ c \in Nat /\ h \in Nat /\ y = c - u
          <5>1. PICK w, x : w = Upto(k) /\ x = Len(Ahead)
            OBVIOUS
          <5>2. w = c + h /\ w - u <= x /\ c \in Nat /\ h \in Nat /\ y = c - u /\ x \in Nat
            BY <3>3, <4>1, <4>2, <4>3, <5>1
          <5>3. (c + h) - u = c + h - u
            BY <2>13, <5>2
          <5> QED BY <5>1, <5>2, <5>3
        <4>5. \A j \in 1..h : z + j \in 1..(Len(Ahead) - a)
          BY <2>13, <3>4, <4>2, <4>4
        <4> QED BY <4>3, <4>5
      <3>7. Ahead' = d.rest \o flow'
        BY <2>6 DEF Ahead
      <3>8. \A j \in 1..(Len(q) + 4) : Ahead'[z + j] = Ahead[y + j]
        <4>1. \A j \in 1..(Len(q) + 4) : Ahead'[z + j] = Ahead[a + (z + j)]
          BY <2>5, <3>6, <3>7
        <4>2. \A j \in 1..(Len(q) + 4) : a + (z + j) = y + j
          <5>1. \A j \in Int : a + (z + j) = (a + z) + j
            BY <2>13, <3>4
          <5> QED BY <3>4, <5>1
        <4> QED BY <4>1, <4>2
      <3>9. Intact(Ahead, y, q) => Intact(Ahead', z, q)
        BY <3>8 DEF Intact
      <3>10. Spoilt(Ahead, y, q) => Spoilt(Ahead', z, q)
        BY <3>8 DEF Spoilt
      <3> QED BY <3>1, <3>5, <3>9, <3>10
    <2>17. (Taken < Len(sent) /\ sent[Taken + 1].sound =>
                Len(reader.buffer) < Size(Taken + 1))'
      <3>1. l < N /\ sent[l + 1].sound => B - a < Size(l + 1)
        BY <2>3
      <3>2. Len(reader'.buffer) = B - a
        BY <2>5, <2>6
      <3>3. Size(Taken + 1)' = Size(l + 1)
        BY <1>0, <2>9 DEF Size
      <3> QED BY <1>0, <1>4, <2>9, <3>1, <3>2, <3>3
    <2>18. RestAhead'
      BY <1>0, <1>4, <2>9, <2>15, <2>16, <2>17 DEF RestAhead
    <2> QED BY <1>9, <1>10, <2>8, <2>14, <2>18
  <1> QED BY <1>11, <1>12

-----------------------------------------------------------------------------
\* The strengthened invariant holds in every step.
LEMMA StreamInvHolds == FramingSpec => []StreamInv
  <1>1. StreamInv /\ [FramingNext]_framingVars => StreamInv'
    <2> SUFFICES ASSUME StreamInv, [FramingNext]_framingVars PROVE StreamInv'
      OBVIOUS
    <2>1. CASE SendPacket
      BY <2>1, SendKeepsFrames, SendKeepsCounts, SendKeepsAhead DEF StreamInv
    <2>2. CASE Spoil
      BY <2>2, SpoilKeeps
    <2>3. CASE Read
      BY <2>3, ReadKeeps
    <2>4. CASE UNCHANGED framingVars
      <3>1. counts' = counts /\ sent' = sent /\ flow' = flow /\ reader' = reader
        BY <2>4 DEF framingVars
      <3>2. /\ \A k : Upto(k)' = Upto(k) /\ Size(k)' = Size(k) /\ Of(k)' = Of(k)
            /\ Taken' = Taken /\ Ahead' = Ahead /\ Total' = Total
        BY <3>1 DEF Upto, Size, Of, Taken, Ahead, Total
      <3>3. FramingType' /\ FramesInPlace'
        BY <3>1, <3>2 DEF StreamInv, FramingType, FramesInPlace
      <3>4. CountsInStep'
        BY <3>1, <3>2 DEF StreamInv, CountsInStep
      <3>5. TakenAsSent'
        BY <3>1 DEF StreamInv, TakenAsSent, Taken, Upto, Total
      <3>6. RestAhead'
        BY <3>1 DEF StreamInv, RestAhead, Taken, Ahead, Upto, Total, Start, Size
      <3> QED BY <3>3, <3>4, <3>5, <3>6 DEF StreamInv
    <2> QED BY <2>1, <2>2, <2>3, <2>4 DEF FramingNext
  <1> QED BY <1>1, FramingStarts, PTL DEF FramingSpec

(***************************************************************************)
(* The reader has exactly the packets that were sent and have arrived in   *)
(* full, for all packets that fit a frame, any number of them, any cutting *)
(* of the stream and any byte that is spoilt (ccsds.py, deframe).          *)
(***************************************************************************)
THEOREM StreamsAreExact == FramingSpec => []StreamIsExact
  BY StreamInvHolds, StreamInvIsEnough, PTL
=============================================================================
