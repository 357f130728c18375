---------------------------- MODULE VehicleProofs ----------------------------
(***************************************************************************)
(* What the vehicle guarantees: its controller of attitude for every       *)
(* number of wheels, whatever the commands carry and the control law asks  *)
(* for; its server for every set of clients, every set of command packets  *)
(* and every bound of the queues; its behavior engine for every directory  *)
(* of sidecar files, every command sent and every run of ticks.            *)
(***************************************************************************)
EXTENDS Adcs, SimServer, Behavior, FiniteSetTheorems, SequenceLemmas

Machine == [mode : Modes, law : {"idle", "hold"}, driven : SUBSET Wheels, aimed : BOOLEAN,
            desaturating : BOOLEAN, mtq : BOOLEAN, sensed : BOOLEAN,
            dipole : SUBSET {"damp", "dump"}]
Motor == [torque : Int, target : Int, enabled : BOOLEAN]

(***************************************************************************)
(* The controller remembers every wheel it may have left a torque on: so   *)
(* that it can hand them all back when it goes idle, also those that were  *)
(* disabled in between.                                                    *)
(***************************************************************************)
TorqueInv ==
    /\ machine \in Machine /\ motor \in [Wheels -> Motor]
    /\ \A w \in Wheels : motor[w].torque # 0 => w \in machine.driven
    /\ NoStaleTorque

\* The sign that no target is set is a number, as are torques and speeds.
LEMMA NoTargetType == NoTarget \in Int /\ Torques \subseteq Int /\ Speeds \subseteq Int
  BY AdcsAssumption DEF NoTarget

\* What the controller writes: a torque instead of a target speed.
LEMMA WithTorqueMotors ==
    ASSUME motor \in [Wheels -> Motor], NEW ws, NEW u \in [Wheels -> Int]
    PROVE  LET m == WithTorque(motor, ws, u)
           IN  /\ m \in [Wheels -> Motor]
               /\ \A w \in Wheels : /\ w \in ws => m[w].torque = u[w]
                                    /\ w \notin ws => m[w] = motor[w]
                                    /\ m[w].enabled = motor[w].enabled
  <1> DEFINE m == WithTorque(motor, ws, u)
             k(w) == [motor[w] EXCEPT !.torque = u[w], !.target = NoTarget]
  <1>1. m = [w \in Wheels |-> IF w \in ws THEN k(w) ELSE motor[w]]
    BY DEF WithTorque
  <1>2. ASSUME NEW w \in Wheels
        PROVE  k(w) \in Motor /\ k(w).torque = u[w] /\ k(w).enabled = motor[w].enabled
    BY NoTargetType DEF Motor
  <1> HIDE DEF m, k
  <1>3. \A w \in Wheels : /\ m[w] \in Motor
                          /\ w \in ws => m[w].torque = u[w]
                          /\ w \notin ws => m[w] = motor[w]
                          /\ m[w].enabled = motor[w].enabled
    BY <1>1, <1>2
  <1>4. m \in [Wheels -> Motor]
    BY <1>1, <1>3
  <1> QED BY <1>3, <1>4 DEF m

\* When the controller hands its wheels back, no torque of it is left.
LEMMA HandedBackMotors ==
    ASSUME TorqueInv
    PROVE  HandedBack \in [Wheels -> Motor] /\ \A w \in Wheels : HandedBack[w].torque = 0
  <1> DEFINE zero == [w \in Wheels |-> 0]
  <1>1. zero \in [Wheels -> Int] /\ \A w \in Wheels : zero[w] = 0
    OBVIOUS
  <1>2. HandedBack = WithTorque(motor, machine.driven, zero)
    BY DEF HandedBack
  <1> HIDE DEF zero
  <1>3. motor \in [Wheels -> Motor]
    BY DEF TorqueInv
  <1>4. /\ HandedBack \in [Wheels -> Motor]
        /\ \A w \in Wheels : /\ w \in machine.driven => HandedBack[w].torque = zero[w]
                             /\ w \notin machine.driven => HandedBack[w] = motor[w]
    BY <1>1, <1>2, <1>3, WithTorqueMotors
  <1> QED BY <1>1, <1>4 DEF TorqueInv

\* A change of mode leaves no torque that the old law commanded.
LEMMA SetModeInv ==
    ASSUME TorqueInv, NEW old \in Machine,
           old.mode = machine.mode, old.law = machine.law, old.driven = machine.driven,
           NEW mode \in Modes, SetModeFrom(old, mode)
    PROVE  TorqueInv'
  <1>1. /\ fed' = fed /\ \A w \in Wheels : fed[w] # "leftover"
        /\ machine.law = "idle" => \A w \in Wheels : motor[w].torque = 0
    BY DEF SetModeFrom, TorqueInv, NoStaleTorque
  <1>2. CASE mode \in Resting
    <2>1. /\ motor' = HandedBack
          /\ machine' = [old EXCEPT !.mode = mode, !.sensed = FALSE, !.law = "idle",
                                    !.driven = {}]
      BY <1>2 DEF SetModeFrom
    <2>2. machine' \in Machine /\ machine'.mode = mode /\ machine'.law = "idle"
          /\ machine'.driven = {}
      BY <2>1 DEF Machine
    <2>3. motor' \in [Wheels -> Motor] /\ \A w \in Wheels : motor'[w].torque = 0
      BY <2>1, HandedBackMotors
    <2> QED BY <1>1, <2>2, <2>3 DEF TorqueInv, NoStaleTorque
  <1>3. CASE mode \notin Resting
    <2>1. /\ motor' = motor
          /\ machine' = [old EXCEPT !.mode = mode, !.sensed = FALSE, !.law = old.law,
                                    !.driven = old.driven]
      BY <1>3 DEF SetModeFrom
    <2>2. machine' \in Machine /\ machine'.mode = mode /\ machine'.law = machine.law
          /\ machine'.driven = machine.driven
      BY <2>1 DEF Machine
    <2> QED BY <1>1, <1>3, <2>1, <2>2 DEF TorqueInv, NoStaleTorque
  <1> QED BY <1>2, <1>3

\* A command for a wheel, or for the dump or the torquers, touches no torque.
LEMMA WheelInv ==
    ASSUME TorqueInv, WheelSetSpeed \/ WheelEnable \/ WheelDisable
    PROVE  TorqueInv'
  <1>1. motor \in [Wheels -> Motor] /\ machine' = machine /\ fed' = fed
    BY DEF TorqueInv, WheelSetSpeed, WheelEnable, WheelDisable, OnWheel
  <1>2. ASSUME NEW m \in [Wheels -> Motor], OnWheel(m),
               \A w \in Wheels : m[w].torque = motor[w].torque
        PROVE  motor' \in [Wheels -> Motor] /\ \A w \in Wheels : motor'[w].torque = motor[w].torque
    <2>1. PICK id \in Wheels : motor' = [motor EXCEPT ![id] = m[id]]
      BY <1>2 DEF OnWheel
    <2> QED BY <1>1, <1>2, <2>1
  <1>3. motor' \in [Wheels -> Motor] /\ \A w \in Wheels : motor'[w].torque = motor[w].torque
    <2>1. ASSUME NEW s \in Speeds, OnWheel([w \in Wheels |-> [motor[w] EXCEPT !.target = s]])
          PROVE  motor' \in [Wheels -> Motor]
                 /\ \A w \in Wheels : motor'[w].torque = motor[w].torque
      <3> DEFINE m == [w \in Wheels |-> [motor[w] EXCEPT !.target = s]]
      <3>1. m \in [Wheels -> Motor] /\ \A w \in Wheels : m[w].torque = motor[w].torque
        BY <1>1, NoTargetType DEF Motor
      <3> QED BY <1>2, <2>1, <3>1
    <2>2. ASSUME NEW on \in BOOLEAN,
                 OnWheel([w \in Wheels |-> [motor[w] EXCEPT !.enabled = on]])
          PROVE  motor' \in [Wheels -> Motor]
                 /\ \A w \in Wheels : motor'[w].torque = motor[w].torque
      <3> DEFINE m == [w \in Wheels |-> [motor[w] EXCEPT !.enabled = on]]
      <3>1. m \in [Wheels -> Motor] /\ \A w \in Wheels : m[w].torque = motor[w].torque
        BY <1>1 DEF Motor
      <3> QED BY <1>2, <2>2, <3>1
    <2> QED BY <2>1, <2>2 DEF WheelSetSpeed, WheelEnable, WheelDisable
  <1> QED BY <1>1, <1>3 DEF TorqueInv, NoStaleTorque

\* The commands of the torquers leave the wheels alone.
LEMMA TorquerInv ==
    ASSUME TorqueInv, Desaturate \/ MtqEnable
    PROVE  TorqueInv'
  <1>1. machine \in Machine /\ motor' = motor /\ fed' = fed
    BY DEF TorqueInv, Desaturate, MtqEnable
  <1>2. machine' \in Machine /\ machine'.mode = machine.mode /\ machine'.law = machine.law
        /\ machine'.driven = machine.driven
    BY <1>1 DEF Machine, Desaturate, MtqEnable
  <1> QED BY <1>1, <1>2 DEF TorqueInv, NoStaleTorque

\* A tick of the controller writes every wheel that runs, or is idle.
LEMMA SubstepInv ==
    ASSUME TorqueInv, Substep
    PROVE  TorqueInv'
  <1>1. /\ machine \in Machine /\ motor \in [Wheels -> Motor]
        /\ machine.mode \in Resting => machine.law = "idle" /\ machine.driven = {}
        /\ machine.law = "idle" => \A w \in Wheels : motor[w].torque = 0
        /\ \A w \in Wheels : motor[w].torque # 0 => w \in machine.driven
    BY DEF TorqueInv, NoStaleTorque
  <1>2. PICK u \in [Wheels -> Torques] :
           /\ motor' = WithTorque(motor, Writable, u)
           /\ fed' = [w \in Wheels |-> FedBy(WithTorque(motor, Writable, u), w)]
    BY DEF Substep
  <1>3. /\ motor' \in [Wheels -> Motor]
        /\ \A w \in Wheels : /\ w \notin Writable => motor'[w] = motor[w]
                             /\ motor'[w].enabled = motor[w].enabled
    <2>1. u \in [Wheels -> Int]
      BY NoTargetType
    <2> QED BY <1>1, <1>2, <2>1, WithTorqueMotors
  <1>4. /\ LawInForce \in {"idle", "hold"} /\ Writable \subseteq Wheels
        /\ LawInForce = "idle" => Writable = {} /\ machine.law = "idle"
        /\ LawInForce # "idle" => \A w \in Wheels : motor[w].enabled => w \in Writable
        /\ machine.mode \in Resting => LawInForce = "idle"
    BY <1>1 DEF LawInForce, Writable, Machine
  <1>5. /\ machine' \in Machine /\ machine'.mode = machine.mode /\ machine'.law = LawInForce
        /\ machine'.driven = machine.driven \union Writable
    <2>1. machine' = [machine EXCEPT
                 !.law = LawInForce, !.driven = machine.driven \union Writable, !.sensed = TRUE,
                 !.desaturating = machine.desaturating /\ ~Dumped,
                 !.dipole = IF machine.mtq THEN DipoleCauses ELSE {}]
      BY <1>1 DEF Substep
    <2>2. DipoleCauses \subseteq {"damp", "dump"}
      BY DEF DipoleCauses
    <2>3. PICK d \in SUBSET {"damp", "dump"}, b \in BOOLEAN, ws \in SUBSET Wheels,
               l \in {"idle", "hold"} :
             /\ ws = machine.driven \union Writable /\ l = LawInForce
             /\ machine' = [machine EXCEPT !.law = l, !.driven = ws, !.sensed = TRUE,
                                           !.desaturating = b, !.dipole = d]
      <3>1. machine.driven \union Writable \in SUBSET Wheels
        BY <1>1, <1>4 DEF Machine
      <3>2. (machine.desaturating /\ ~Dumped) \in BOOLEAN
        OBVIOUS
      <3>3. (IF machine.mtq THEN DipoleCauses ELSE {}) \in SUBSET {"damp", "dump"}
        BY <2>2
      <3> QED BY <1>4, <2>1, <3>1, <3>2, <3>3
    <2> QED BY <1>1, <2>3 DEF Machine
  <1>6. \A w \in Wheels : motor'[w].torque # 0 => w \in machine'.driven
    BY <1>1, <1>3, <1>5
  <1>7. LawInForce = "idle" => \A w \in Wheels : motor'[w].torque = 0
    BY <1>1, <1>3, <1>4
  <1>8. machine'.mode \in Resting => machine'.law = "idle" /\ machine'.driven = {}
    BY <1>1, <1>4, <1>5
  <1>9. ASSUME NEW w \in Wheels
        PROVE  fed'[w] # "leftover"
    <2>1. fed'[w] = FedBy(motor', w)
      BY <1>2
    <2>2. CASE w \in Writable
      BY <2>1, <2>2 DEF FedBy
    <2>3. CASE ~motor'[w].enabled
      BY <2>1, <2>3 DEF FedBy
    <2>4. CASE w \notin Writable /\ motor'[w].enabled
      <3>1. motor'[w].torque = 0
        BY <1>3, <1>4, <1>7, <2>4
      <3> QED BY <2>1, <2>4, <3>1 DEF FedBy
    <2> QED BY <2>2, <2>3, <2>4
  <1> QED BY <1>3, <1>5, <1>6, <1>7, <1>8, <1>9 DEF TorqueInv, NoStaleTorque

\* Every step keeps torques with what commands them.
LEMMA NextTorqueInv == TorqueInv /\ [AdcsNext]_adcsVars => TorqueInv'
  <1> SUFFICES ASSUME TorqueInv, [AdcsNext]_adcsVars PROVE TorqueInv'
    OBVIOUS
  <1>1. machine \in Machine
    BY DEF TorqueInv
  <1>2. CASE SetMode
    BY <1>1, <1>2, SetModeInv DEF SetMode
  <1>3. CASE Slew
    <2>1. "INERTIAL_POINT" \in Modes
      BY DEF Modes
    <2> QED BY <1>1, <1>3, <2>1, SetModeInv DEF Slew
  <1>4. CASE TrackTarget
    <2> DEFINE old == [machine EXCEPT !.aimed = TRUE]
    <2>1. /\ old \in Machine /\ old.mode = machine.mode /\ old.law = machine.law
          /\ old.driven = machine.driven /\ "TARGET_TRACK" \in Modes
      BY <1>1 DEF Machine, Modes
    <2>2. SetModeFrom(old, "TARGET_TRACK")
      BY <1>4 DEF TrackTarget
    <2> HIDE DEF old
    <2> QED BY <2>1, <2>2, SetModeInv
  <1>5. CASE UNCHANGED adcsVars
    BY <1>5 DEF adcsVars, TorqueInv, NoStaleTorque
  <1> QED BY <1>2, <1>3, <1>4, <1>5, WheelInv, TorquerInv, SubstepInv DEF AdcsNext

\* At first nothing is driven and no torque is on.
LEMMA InitTorqueInv == AdcsInit => TorqueInv
  <1> SUFFICES ASSUME AdcsInit PROVE TorqueInv
    OBVIOUS
  <1>1. machine \in Machine /\ machine.law = "idle" /\ machine.driven = {}
    BY DEF AdcsInit, Machine, Modes
  <1>2. motor \in [Wheels -> Motor] /\ \A w \in Wheels : motor[w].torque = 0
    BY NoTargetType DEF AdcsInit, Motor
  <1>3. \A w \in Wheels : fed[w] = "nothing"
    BY DEF AdcsInit
  <1> QED BY <1>1, <1>2, <1>3 DEF TorqueInv, NoStaleTorque

\* No motor runs on a torque of a law that has ended, or of a time before the
\* wheel was disabled, whatever the order of modes, enables and disables.
THEOREM TorquesAreFresh == AdcsSpec => []NoStaleTorque
  <1>1. TorqueInv => NoStaleTorque
    BY DEF TorqueInv
  <1> QED BY <1>1, InitTorqueInv, NextTorqueInv, PTL DEF AdcsSpec

-----------------------------------------------------------------------------
(***************************************************************************)
(* The echo.  A dispatch that awaits its command handler has applied the   *)
(* whole of a sound packet and has not echoed it yet.                      *)
(***************************************************************************)
Job == {[packet |-> p, did |-> p.claims, echoes |-> 0] :
           p \in {q \in Packets : q.fault = "none"}}

EchoInv == job \in [Dispatcher -> Job \union {NoJob}] /\ EchoTellsTheTruth

\* What the echo says of a dispatch that ends.
Truthful(v) ==
    /\ v.echoes = 1
    /\ v.status = "EXECUTED" => v.packet.fault = "none" /\ v.did = v.packet.claims
    /\ v.status \in {"UNKNOWN", "REJECTED"} => v.did = {}
    /\ \A k \in v.did, b \in v.packet.claims : Order[b] < Order[k] => b \in v.did

\* A dispatch that awaits the handler has not echoed, and did what it was
\* claimed for.
LEMMA JobType ==
    ASSUME EchoInv, NEW d \in Dispatcher
    PROVE  \/ job[d] = NoJob
           \/ /\ job[d].echoes = 0 /\ job[d].packet \in Packets
              /\ job[d].packet.fault = "none" /\ job[d].did = job[d].packet.claims
  <1>1. job[d] \in Job \/ job[d] = NoJob
    BY DEF EchoInv
  <1>2. ASSUME job[d] \in Job
        PROVE  /\ job[d].echoes = 0 /\ job[d].packet \in Packets
               /\ job[d].packet.fault = "none" /\ job[d].did = job[d].packet.claims
    BY <1>2 DEF Job
  <1> QED BY <1>1, <1>2

\* An echo that tells the truth keeps the invariant.
LEMMA EchoedInv ==
    ASSUME EchoInv, NEW d \in Dispatcher, NEW w, NEW p \in Packets, NEW status, NEW did,
           Echoed(d, w, p, status, did),
           status = "EXECUTED" => p.fault = "none" /\ did = p.claims,
           status \in {"UNKNOWN", "REJECTED"} => did = {},
           \A k \in did, b \in p.claims : Order[b] < Order[k] => b \in did
    PROVE  EchoInv'
  <1> DEFINE n == 1 + IF job[d] = NoJob THEN 0 ELSE job[d].echoes
  <1>1. n = 1
    BY JobType
  <1>2. /\ verdict' = [status |-> status, packet |-> p, did |-> did, echoes |-> n]
        /\ job' = [job EXCEPT ![d] = NoJob]
    BY DEF Echoed
  <1> HIDE DEF n
  <1>3. Truthful(verdict')
    BY <1>1, <1>2 DEF Truthful
  <1>4. job' \in [Dispatcher -> Job \union {NoJob}]
    BY <1>2 DEF EchoInv
  <1> QED BY <1>3, <1>4 DEF EchoInv, EchoTellsTheTruth, Truthful

\* A consumer that raises leaves behind what the consumers before it did.
LEMMA BeforeIsAPrefix ==
    ASSUME NEW p \in Packets, NEW c \in p.claims,
           NEW k \in Before(p, Order[c]), NEW b \in p.claims, Order[b] < Order[k]
    PROVE  b \in Before(p, Order[c])
  <1>1. /\ k \in p.claims /\ p.claims \subseteq Consumers4 /\ Order[k] < Order[c]
    BY PacketAssumption DEF Before
  <1>2. \A x \in Consumers4 : Order[x] \in Nat
    BY DEF Consumers4, Order
  <1>3. Order[b] \in Nat /\ Order[k] \in Nat /\ Order[c] \in Nat
    BY <1>1, <1>2
  <1> QED BY <1>1, <1>3 DEF Before

\* The dispatch up to its await keeps the invariant,
LEMMA DispatchEchoInv ==
    ASSUME EchoInv, NEW d \in Dispatcher, NEW p \in Packets, Dispatch(d, p)
    PROVE  EchoInv'
  <1>1. CASE p.fault # "none"
    <2>1. Echoed(d, World, p, Refusal(p), {})
      BY <1>1 DEF Dispatch
    <2>2. Refusal(p) # "EXECUTED"
      <3>1. p.fault \in {"garbled", "unknown", "range"}
        BY <1>1, PacketAssumption
      <3> QED BY <3>1 DEF Refusal
    <2> QED BY <2>1, <2>2, EchoedInv
  <1>2. CASE p.fault = "none"
    <2>1. ASSUME NEW c \in p.claims,
                 Echoed(d, Pushed(World, Sends(p, Before(p, Order[c]))), p, "FAILED",
                        Before(p, Order[c]))
          PROVE  EchoInv'
      <3>1. \A k \in Before(p, Order[c]), b \in p.claims :
               Order[b] < Order[k] => b \in Before(p, Order[c])
        BY BeforeIsAPrefix
      <3> QED BY <2>1, <3>1, EchoedInv
    <2>2. ASSUME job' = [job EXCEPT ![d] = [packet |-> p, did |-> p.claims, echoes |-> 0]],
                 UNCHANGED verdict
          PROVE  EchoInv'
      <3>1. [packet |-> p, did |-> p.claims, echoes |-> 0] \in Job
        BY <1>2 DEF Job
      <3> QED BY <2>2, <3>1 DEF EchoInv, EchoTellsTheTruth
    <2> QED BY <1>2, <2>1, <2>2 DEF Dispatch
  <1> QED BY <1>1, <1>2

\* what is left of it when the handler has returned,
LEMMA HandledEchoInv ==
    ASSUME EchoInv, NEW d \in Dispatcher, Handled(d)
    PROVE  EchoInv'
  <1>1. job[d] # NoJob
    BY DEF Handled
  <1>2. /\ job[d].packet \in Packets /\ job[d].packet.fault = "none"
        /\ job[d].did = job[d].packet.claims
    BY <1>1, JobType
  <1>3. PICK status \in {"EXECUTED", "FAILED"} :
           Echoed(d, World, job[d].packet, status, job[d].did)
    BY DEF Handled
  <1> QED BY <1>2, <1>3, EchoedInv

\* and every other step, as it echoes nothing.
LEMMA NextEchoInv == EchoInv /\ [ServerNext]_serverVars => EchoInv'
  <1> SUFFICES ASSUME EchoInv, [ServerNext]_serverVars PROVE EchoInv'
    OBVIOUS
  <1>1. ASSUME UNCHANGED <<job, verdict>>
        PROVE  EchoInv'
    BY <1>1 DEF EchoInv, EchoTellsTheTruth
  <1>2. ASSUME NEW c \in Client, PacketArrives(c)
        PROVE  EchoInv'
    <2>1. c \in Dispatcher
      BY DEF Dispatcher
    <2> QED BY <1>2, <2>1, DispatchEchoInv DEF PacketArrives
  <1>3. ASSUME NEW d \in Dispatcher, HandlerReturns(d)
        PROVE  EchoInv'
    BY <1>3, HandledEchoInv DEF HandlerReturns
  <1>4. CASE SequencerPasses
    <2>1. "sequencer" \in Dispatcher
      BY DEF Dispatcher
    <2> QED BY <1>1, <1>4, <2>1, DispatchEchoInv DEF SequencerPasses
  <1>5. ASSUME NEW l \in Loops, NEW from, NEW to, CancelLoop(l, from, to)
        PROVE  EchoInv'
    <2>1. verdict' = verdict /\ job' \in [Dispatcher -> Job \union {NoJob}]
      BY <1>5 DEF CancelLoop, EchoInv
    <2> QED BY <2>1 DEF EchoInv, EchoTellsTheTruth
  <1>6. CancelBeacon \/ CancelSequencer => EchoInv'
    BY <1>5 DEF CancelBeacon, CancelSequencer, Loops
  <1>7. ASSUME NEW c \in Client,
               \/ Connect(c) \/ UplinkArrives(c) \/ StreamEnds(c)
               \/ WriterTakes(c) \/ WriterDrained(c) \/ WriterEnds(c)
        PROVE  UNCHANGED <<job, verdict>>
    BY <1>7 DEF Connect, UplinkArrives, StreamEnds, WriterTakes, WriterDrained, WriterEnds
  <1>8. ASSUME \/ \E l \in Loops : Wake(l)
               \/ BeaconPasses \/ Interrupt \/ ListenerCloses \/ Stop
               \/ CancelClients \/ CloseListener \/ Stopped \/ UNCHANGED serverVars
        PROVE  UNCHANGED <<job, verdict>>
    BY <1>8 DEF Wake, BeaconPasses, Interrupt, ListenerCloses, Stop, CancelClients,
                CloseListener, Stopped, serverVars
  <1> QED BY <1>1, <1>2, <1>3, <1>4, <1>6, <1>7, <1>8 DEF ServerNext

\* Whatever the tasks are in the middle of, a command is echoed once, and the
\* echo says what became of it.
THEOREM EchoesAreTruthful == ServerSpec => []EchoTellsTheTruth
  <1>1. ServerInit => EchoInv
    BY DEF ServerInit, EchoInv, EchoTellsTheTruth
  <1>2. EchoInv => EchoTellsTheTruth
    BY DEF EchoInv
  <1> QED BY <1>1, <1>2, NextEchoInv, PTL DEF ServerSpec

-----------------------------------------------------------------------------
(***************************************************************************)
(* The links.  A queue is never longer than its bound, a listed client has *)
(* a reader, and what a step does to a link only ever winds it down.       *)
(***************************************************************************)
Conn == [reader : {"away", "up", "done"}, writer : {"idle", "draining", "cancelled", "done"},
         open : BOOLEAN, queue : 0..OutMax]

LinksOK(k, l) == /\ k \in [Client -> Conn] /\ l \subseteq Client
                 /\ \A c \in l : k[c].reader = "up"

\* Link k of a client, a step later: what has ended stays ended.
Wanes(k, m) ==
    k.reader # "away" =>
        /\ m.reader # "away"
        /\ ~k.open => ~m.open
        /\ k.writer \in {"cancelled", "done"} => m.writer \in {"cancelled", "done"}
        /\ k.writer = "done" => m.writer = "done"

\* A dropped client is closed and its writer cancelled.
LEMMA DroppedLink ==
    ASSUME NEW k \in Conn
    PROVE  /\ Dropped(k) \in Conn /\ Dropped(k).reader = k.reader /\ ~Dropped(k).open
           /\ Dropped(k).writer \in {"cancelled", "done"}
           /\ k.writer = "done" => Dropped(k).writer = "done"
  <1>1. /\ CancelWriter(k) \in Conn /\ CancelWriter(k).reader = k.reader
        /\ CancelWriter(k).writer \in {"cancelled", "done"}
        /\ k.writer = "done" => CancelWriter(k).writer = "done"
    BY DEF CancelWriter, Conn
  <1> DEFINE m == CancelWriter(k)
  <1> HIDE DEF m
  <1>2. /\ [m EXCEPT !.open = FALSE] \in Conn
        /\ [m EXCEPT !.open = FALSE].reader = m.reader
        /\ [m EXCEPT !.open = FALSE].writer = m.writer
        /\ ~[m EXCEPT !.open = FALSE].open
    BY <1>1 DEF Conn, m
  <1> QED BY <1>1, <1>2 DEF Dropped, m

\* Packets for every client lengthen a queue within its bound or end its link.
LEMMA PushedLinks ==
    ASSUME NEW w, LinksOK(w.conn, w.listed), NEW n \in Nat
    PROVE  LET v == Pushed(w, n)
           IN  /\ LinksOK(v.conn, v.listed) /\ v.listed \subseteq w.listed
               /\ \A c \in Client : Wanes(w.conn[c], v.conn[c])
               /\ \A c \in Client : w.conn[c].reader = "done" => v.conn[c].reader = "done"
  <1> DEFINE over == {c \in w.listed : w.conn[c].queue + n > OutMax}
             v == Pushed(w, n)
             grown(c) == [w.conn[c] EXCEPT !.queue = w.conn[c].queue + n]
  <1>1. /\ v.listed = w.listed \ over
        /\ v.conn = [c \in Client |-> IF c \in over THEN Dropped(w.conn[c])
                                      ELSE IF c \in w.listed THEN grown(c) ELSE w.conn[c]]
    BY DEF Pushed
  <1> HIDE DEF v
  <1>2. ASSUME NEW c \in Client
        PROVE  /\ v.conn[c] \in Conn /\ Wanes(w.conn[c], v.conn[c])
               /\ v.conn[c].reader = w.conn[c].reader
    <2>1. w.conn[c] \in Conn
      BY DEF LinksOK
    <2>2. CASE c \in over
      <3>1. v.conn[c] = Dropped(w.conn[c])
        BY <1>1, <2>2
      <3> QED BY <2>1, <3>1, DroppedLink DEF Wanes
    <2>3. CASE c \in w.listed /\ c \notin over
      <3>1. v.conn[c] = grown(c)
        BY <1>1, <2>3
      <3>2. w.conn[c].queue \in Nat /\ OutMax \in Nat
        BY <2>1, PacketAssumption DEF Conn
      <3>3. w.conn[c].queue + n \in 0..OutMax
        BY <2>3, <3>2
      <3>4. /\ grown(c) \in Conn /\ grown(c).reader = w.conn[c].reader
            /\ grown(c).writer = w.conn[c].writer /\ grown(c).open = w.conn[c].open
        BY <2>1, <3>3 DEF Conn
      <3> QED BY <3>1, <3>4 DEF Wanes
    <2>4. CASE c \notin w.listed
      <3>1. v.conn[c] = w.conn[c]
        BY <1>1, <2>4
      <3> QED BY <2>1, <3>1 DEF Wanes
    <2> QED BY <2>2, <2>3, <2>4
  <1>3. v.conn \in [Client -> Conn]
    BY <1>1, <1>2
  <1>4. v.listed \subseteq w.listed
    BY <1>1
  <1> QED BY <1>2, <1>3, <1>4 DEF LinksOK, v

\* A connection that ends leaves the list; no other comes back by it.
LEMMA EndedLinks ==
    ASSUME NEW w, LinksOK(w.conn, w.listed), NEW c \in Client
    PROVE  LET v == Ended(w, c)
           IN  /\ LinksOK(v.conn, v.listed) /\ v.listed \subseteq w.listed
               /\ \A b \in Client : Wanes(w.conn[b], v.conn[b])
  <1> DEFINE v == Ended(w, c)
             k == Dropped(w.conn[c])
             e == [k EXCEPT !.reader = "done"]
  <1>1. w.conn \in [Client -> Conn] /\ w.conn[c] \in Conn
    BY DEF LinksOK
  <1>2. v.listed = w.listed \ {c} /\ v.conn = [w.conn EXCEPT ![c] = e]
    BY <1>1 DEF Ended
  <1>3. /\ k \in Conn /\ ~k.open /\ k.writer \in {"cancelled", "done"}
        /\ w.conn[c].writer = "done" => k.writer = "done"
    BY <1>1, DroppedLink
  <1> HIDE DEF k, v
  <1>4. e \in Conn /\ e.reader = "done" /\ e.writer = k.writer /\ e.open = k.open
    BY <1>3 DEF Conn
  <1>5. Wanes(w.conn[c], e)
    BY <1>3, <1>4 DEF Wanes
  <1> HIDE DEF e
  <1>6. \A b \in Client : /\ v.conn[b] \in Conn /\ Wanes(w.conn[b], v.conn[b])
                          /\ b # c => v.conn[b] = w.conn[b]
    BY <1>1, <1>2, <1>4, <1>5 DEF Wanes
  <1>7. v.conn \in [Client -> Conn]
    BY <1>1, <1>2, <1>4
  <1> QED BY <1>2, <1>6, <1>7 DEF LinksOK, v

\* A command sends a number of packets.
LEMMA SendsType ==
    ASSUME NEW p \in Packets, NEW ks, ks \subseteq p.claims
    PROVE  Sends(p, ks) \in Nat
  <1>1. \A k \in ks : p.sends[k] \in Nat
    BY PacketAssumption
  <1> QED BY <1>1 DEF Sends

-----------------------------------------------------------------------------
(***************************************************************************)
(* The end.  By its phase, stop() knows which tasks are over, and the      *)
(* other tasks, which run on through its awaits, revive none of them.      *)
(***************************************************************************)
StopInv ==
    /\ LinksOK(conn, listed)
    /\ loop \in [Loops -> {"waiting", "woken", "firing", "done"}]
    /\ found \subseteq Client /\ \A c \in found : conn[c].reader # "away"
    /\ main \in {"serving", "closing", "stop", "beacon", "sequencer", "clients",
                 "listener", "stopped"}
    /\ main \in {"beacon", "sequencer", "clients", "listener", "stopped"} =>
          loop["beacon"] = "done"
    /\ main \in {"sequencer", "clients", "listener", "stopped"} => loop["sequencer"] = "done"
    /\ main \in {"clients", "listener", "stopped"} =>
          \A c \in found : ~conn[c].open /\ conn[c].writer \in {"cancelled", "done"}
    /\ main \in {"listener", "stopped"} => \A c \in found : conn[c].writer = "done"

\* A step of a task other than the one that stops.
Runs ==
    /\ UNCHANGED <<main, found>>
    /\ LinksOK(conn', listed')
    /\ \A c \in Client : Wanes(conn[c], conn'[c])
    /\ loop' \in [Loops -> {"waiting", "woken", "firing", "done"}]
    /\ \A l \in Loops : loop[l] = "done" => loop'[l] = "done"

\* The steps of a server that runs.
LEMMA RunsStopInv == StopInv /\ Runs => StopInv'
  <1> SUFFICES ASSUME StopInv, Runs PROVE StopInv'
    OBVIOUS
  <1>1. found \subseteq Client /\ main' = main /\ found' = found
    BY DEF StopInv, Runs
  <1>2. \A c \in found : /\ conn[c].reader # "away" /\ conn'[c].reader # "away"
                         /\ ~conn[c].open => ~conn'[c].open
                         /\ conn[c].writer \in {"cancelled", "done"} =>
                               conn'[c].writer \in {"cancelled", "done"}
                         /\ conn[c].writer = "done" => conn'[c].writer = "done"
    BY <1>1 DEF StopInv, Runs, Wanes
  <1>3. \A l \in Loops : loop[l] = "done" => loop'[l] = "done"
    BY DEF Runs
  <1>4. /\ main \in {"beacon", "sequencer", "clients", "listener", "stopped"} =>
              loop'["beacon"] = "done"
        /\ main \in {"sequencer", "clients", "listener", "stopped"} =>
              loop'["sequencer"] = "done"
    BY <1>3 DEF StopInv, Loops
  <1> QED BY <1>1, <1>2, <1>4 DEF StopInv, Runs

\* A world that the links come from or go to.
LEMMA NowLinks ==
    ASSUME StopInv, NEW v, Now(v), LinksOK(v.conn, v.listed),
           \A c \in Client : Wanes(conn[c], v.conn[c])
    PROVE  LinksOK(conn', listed') /\ \A c \in Client : Wanes(conn[c], conn'[c])
  BY DEF Now

\* A push to the clients opens no link and drains no drop.
LEMMA PushNow ==
    ASSUME StopInv, NEW n \in Nat, Now(Pushed(World, n))
    PROVE  LinksOK(conn', listed') /\ \A c \in Client : Wanes(conn[c], conn'[c])
  <1>1. World.conn = conn /\ World.listed = listed /\ LinksOK(conn, listed)
    BY DEF World, StopInv
  <1> HIDE DEF World
  <1>2. LET v == Pushed(World, n)
        IN LinksOK(v.conn, v.listed) /\ \A c \in Client : Wanes(conn[c], v.conn[c])
    BY <1>1, PushedLinks
  <1> QED BY <1>2, NowLinks

\* Neither does what leaves the links alone,
LEMMA SameLinksWane ==
    ASSUME StopInv, UNCHANGED <<conn, listed>>
    PROVE  LinksOK(conn', listed') /\ \A c \in Client : Wanes(conn[c], conn'[c])
  BY DEF StopInv, Wanes

\* What has ended is ended twice as well.
LEMMA WanesTwice ==
    ASSUME NEW k, NEW m, NEW n, Wanes(k, m), Wanes(m, n)
    PROVE  Wanes(k, n)
  BY DEF Wanes

\* nor a dispatch with whatever it sends.
LEMMA DispatchLinks ==
    ASSUME StopInv, NEW d, NEW p \in Packets, Dispatch(d, p)
    PROVE  LinksOK(conn', listed') /\ \A c \in Client : Wanes(conn[c], conn'[c])
  <1>1. World.conn = conn /\ World.listed = listed /\ LinksOK(conn, listed)
    BY DEF World, StopInv
  <1> HIDE DEF World
  <1>2. CASE p.fault # "none"
    BY <1>2, PushNow DEF Dispatch, Echoed
  <1>3. ASSUME NEW c \in p.claims, NEW ks \in SUBSET p.claims,
               Now(Pushed(Pushed(World, Sends(p, ks)), 1))
        PROVE  LinksOK(conn', listed') /\ \A b \in Client : Wanes(conn[b], conn'[b])
    <2> DEFINE w == Pushed(World, Sends(p, ks))
               v == Pushed(w, 1)
    <2>1. Sends(p, ks) \in Nat
      BY SendsType
    <2>2. LinksOK(w.conn, w.listed) /\ \A b \in Client : Wanes(conn[b], w.conn[b])
      BY <1>1, <2>1, PushedLinks
    <2> HIDE DEF w
    <2>3. LinksOK(v.conn, v.listed) /\ \A b \in Client : Wanes(w.conn[b], v.conn[b])
      BY <2>2, PushedLinks
    <2>4. \A b \in Client : Wanes(conn[b], v.conn[b])
      BY <2>2, <2>3, WanesTwice
    <2>5. Now(v)
      BY <1>3 DEF w
    <2> HIDE DEF v
    <2> QED BY <2>3, <2>4, <2>5, NowLinks
  <1>4. ASSUME NEW c \in p.claims,
               Echoed(d, Pushed(World, Sends(p, Before(p, Order[c]))), p, "FAILED",
                      Before(p, Order[c]))
        PROVE  LinksOK(conn', listed') /\ \A b \in Client : Wanes(conn[b], conn'[b])
    <2>1. Before(p, Order[c]) \in SUBSET p.claims
      BY DEF Before
    <2>2. Now(Pushed(Pushed(World, Sends(p, Before(p, Order[c]))), 1))
      BY <1>4 DEF Echoed
    <2> QED BY <1>3, <2>1, <2>2
  <1>5. ASSUME Now(Pushed(World, Sends(p, p.claims)))
        PROVE  LinksOK(conn', listed') /\ \A b \in Client : Wanes(conn[b], conn'[b])
    BY <1>5, SendsType, PushNow
  <1> QED BY <1>2, <1>4, <1>5 DEF Dispatch

\* The tasks of a client run.
LEMMA ClientRuns ==
    ASSUME StopInv, NEW c \in Client,
           \/ Connect(c) \/ PacketArrives(c) \/ UplinkArrives(c) \/ StreamEnds(c)
           \/ WriterTakes(c) \/ WriterDrained(c) \/ WriterEnds(c)
    PROVE  Runs
  <1>1. /\ conn \in [Client -> Conn] /\ listed \subseteq Client /\ conn[c] \in Conn
        /\ \A b \in listed : conn[b].reader = "up"
        /\ OutMax \in Nat /\ OutMax > 0
    BY PacketAssumption DEF StopInv, LinksOK
  <1>2. UNCHANGED <<main, found, loop>>
    BY DEF Connect, PacketArrives, UplinkArrives, StreamEnds, WriterTakes, WriterDrained,
           WriterEnds
  <1>3. ASSUME NEW k \in Conn, conn' = [conn EXCEPT ![c] = k], Wanes(conn[c], k),
               \/ listed' = listed /\ k.reader = conn[c].reader
               \/ listed' = listed \union {c} /\ k.reader = "up"
               \/ listed' = listed \ {c}
        PROVE  LinksOK(conn', listed') /\ \A b \in Client : Wanes(conn[b], conn'[b])
    <2>1. conn' \in [Client -> Conn] /\ conn'[c] = k /\ \A b \in Client \ {c} : conn'[b] = conn[b]
      BY <1>1, <1>3
    <2>2. \A b \in Client : Wanes(conn[b], conn'[b])
      BY <1>3, <2>1 DEF Wanes
    <2>3. listed' \subseteq Client /\ \A b \in listed' : conn'[b].reader = "up"
      BY <1>1, <1>3, <2>1
    <2> QED BY <2>1, <2>2, <2>3 DEF LinksOK
  <1>4. CASE Connect(c)
    <2> DEFINE k == [reader |-> "up", writer |-> "idle", open |-> TRUE, queue |-> 0]
    <2>1. k \in Conn /\ k.reader = "up"
      BY <1>1 DEF Conn
    <2>2. conn[c].reader = "away" /\ conn' = [conn EXCEPT ![c] = k] /\ listed' = listed \union {c}
      BY <1>4 DEF Connect, Away
    <2> HIDE DEF k
    <2>3. Wanes(conn[c], k)
      BY <2>2 DEF Wanes
    <2> QED BY <1>2, <1>3, <2>1, <2>2, <2>3 DEF Runs, StopInv
  <1>5. CASE PacketArrives(c)
    <2>1. LinksOK(conn', listed') /\ \A b \in Client : Wanes(conn[b], conn'[b])
      BY <1>5, DispatchLinks DEF PacketArrives
    <2> QED BY <1>2, <2>1 DEF Runs, StopInv
  <1>6. CASE UplinkArrives(c)
    <2>1. LinksOK(conn', listed') /\ \A b \in Client : Wanes(conn[b], conn'[b])
      BY <1>6, PushNow DEF UplinkArrives
    <2> QED BY <1>2, <2>1 DEF Runs, StopInv
  <1>7. CASE StreamEnds(c)
    <2> DEFINE w == Ended(World, c)
    <2>1. World.conn = conn /\ World.listed = listed /\ LinksOK(conn, listed)
      BY DEF World, StopInv
    <2>2. PICK n \in 0..1 : Now(Pushed(w, n))
      BY <1>7 DEF StreamEnds
    <2>3. LinksOK(w.conn, w.listed) /\ \A b \in Client : Wanes(conn[b], w.conn[b])
      <3> HIDE DEF World
      <3> QED BY <2>1, EndedLinks
    <2> HIDE DEF w
    <2> DEFINE v == Pushed(w, n)
    <2>4. LinksOK(v.conn, v.listed) /\ \A b \in Client : Wanes(w.conn[b], v.conn[b])
      BY <2>3, PushedLinks
    <2>5. \A b \in Client : Wanes(conn[b], v.conn[b])
      BY <2>3, <2>4, WanesTwice
    <2>6. LinksOK(conn', listed') /\ \A b \in Client : Wanes(conn[b], conn'[b])
      BY <2>2, <2>4, <2>5, NowLinks
    <2> QED BY <1>2, <2>6 DEF Runs, StopInv
  <1>8. CASE WriterTakes(c)
    <2> DEFINE q == conn[c].queue - 1
               k == [conn[c] EXCEPT !.writer = "draining", !.queue = q]
    <2>1. conn[c].writer = "idle" /\ q \in 0..OutMax
      BY <1>1, <1>8 DEF WriterTakes, Conn
    <2>2. conn' = [conn EXCEPT ![c] = k] /\ listed' = listed
      BY <1>1, <1>8 DEF WriterTakes
    <2> HIDE DEF q
    <2>3. k \in Conn /\ k.reader = conn[c].reader /\ k.open = conn[c].open
      BY <1>1, <2>1 DEF Conn
    <2> HIDE DEF k
    <2>4. Wanes(conn[c], k)
      BY <2>1, <2>3 DEF Wanes
    <2> QED BY <1>2, <1>3, <2>2, <2>3, <2>4 DEF Runs, StopInv
  <1>9. CASE WriterDrained(c)
    <2> DEFINE k == [conn[c] EXCEPT !.writer = "idle"]
    <2>1. conn[c].writer = "draining" /\ conn' = [conn EXCEPT ![c] = k] /\ listed' = listed
      BY <1>1, <1>9 DEF WriterDrained
    <2>2. k \in Conn /\ k.reader = conn[c].reader /\ k.open = conn[c].open
      BY <1>1 DEF Conn
    <2> HIDE DEF k
    <2>3. Wanes(conn[c], k)
      BY <2>1, <2>2 DEF Wanes
    <2> QED BY <1>2, <1>3, <2>1, <2>2, <2>3 DEF Runs, StopInv
  <1>10. CASE WriterEnds(c)
    <2> DEFINE k == [conn[c] EXCEPT !.writer = "done", !.open = FALSE]
    <2>1. conn' = [conn EXCEPT ![c] = k] /\ listed' = listed \ {c}
      BY <1>1, <1>10 DEF WriterEnds
    <2>2. k \in Conn /\ k.reader = conn[c].reader /\ ~k.open /\ k.writer = "done"
      BY <1>1 DEF Conn
    <2> HIDE DEF k
    <2>3. Wanes(conn[c], k)
      BY <2>2 DEF Wanes
    <2> QED BY <1>2, <1>3, <2>1, <2>2, <2>3 DEF Runs, StopInv
  <1> QED BY <1>4, <1>5, <1>6, <1>7, <1>8, <1>9, <1>10

\* The loops, and the dispatches they and the readers await, run.
LEMMA LoopRuns ==
    ASSUME StopInv,
           \/ \E d \in Dispatcher : HandlerReturns(d)
           \/ \E l \in Loops : Wake(l)
           \/ BeaconPasses \/ SequencerPasses
    PROVE  Runs
  <1>1. /\ loop \in [Loops -> {"waiting", "woken", "firing", "done"}]
        /\ "beacon" \in Loops /\ "sequencer" \in Loops
    BY DEF StopInv, Loops
  <1>2. ASSUME NEW l \in Loops, loop[l] # "done",
               NEW s \in {"waiting", "woken", "firing"}, loop' = [loop EXCEPT ![l] = s]
        PROVE  /\ loop' \in [Loops -> {"waiting", "woken", "firing", "done"}]
               /\ \A m \in Loops : loop[m] = "done" => loop'[m] = "done"
    BY <1>1, <1>2
  <1>3. ASSUME NEW d \in Dispatcher, HandlerReturns(d)
        PROVE  Runs
    <2>1. Now(Pushed(World, 1)) /\ UNCHANGED <<main, found>>
      BY <1>3 DEF HandlerReturns, Handled, Echoed
    <2>2. LinksOK(conn', listed') /\ \A b \in Client : Wanes(conn[b], conn'[b])
      BY <2>1, PushNow
    <2>3. CASE d = "sequencer"
      <3>1. loop["sequencer"] # "done" /\ loop' = [loop EXCEPT !["sequencer"] = "waiting"]
        BY <1>3, <2>3 DEF HandlerReturns
      <3> QED BY <1>1, <1>2, <2>1, <2>2, <3>1 DEF Runs
    <2>4. CASE d # "sequencer"
      <3>1. loop' = loop
        BY <1>3, <2>4 DEF HandlerReturns
      <3> QED BY <1>1, <2>1, <2>2, <3>1 DEF Runs
    <2> QED BY <2>3, <2>4
  <1>4. ASSUME NEW l \in Loops, Wake(l)
        PROVE  Runs
    <2>1. /\ loop[l] # "done" /\ loop' = [loop EXCEPT ![l] = "woken"]
          /\ UNCHANGED <<main, found, conn, listed>>
      BY <1>4 DEF Wake
    <2> QED BY <1>2, <2>1, SameLinksWane DEF Runs
  <1>5. CASE BeaconPasses
    <2>1. /\ loop["beacon"] # "done" /\ loop' = [loop EXCEPT !["beacon"] = "waiting"]
          /\ UNCHANGED <<main, found>>
      BY <1>5 DEF BeaconPasses
    <2>2. LinksOK(conn', listed') /\ \A b \in Client : Wanes(conn[b], conn'[b])
      BY <1>5, PushNow DEF BeaconPasses
    <2> QED BY <1>1, <1>2, <2>1, <2>2 DEF Runs
  <1>6. CASE SequencerPasses
    <2>1. /\ loop["sequencer"] # "done" /\ UNCHANGED <<main, found>>
          /\ \E s \in {"waiting", "woken", "firing"} : loop' = [loop EXCEPT !["sequencer"] = s]
      BY <1>6 DEF SequencerPasses
    <2>2. LinksOK(conn', listed') /\ \A b \in Client : Wanes(conn[b], conn'[b])
      BY <1>6, PushNow, DispatchLinks DEF SequencerPasses
    <2> QED BY <1>1, <1>2, <2>1, <2>2 DEF Runs
  <1> QED BY <1>3, <1>4, <1>5, <1>6

\* The task that stops.
LEMMA MainStopInv ==
    ASSUME StopInv,
           \/ Interrupt \/ ListenerCloses \/ Stop
           \/ CancelBeacon \/ CancelSequencer \/ CancelClients \/ CloseListener \/ Stopped
    PROVE  StopInv'
  <1>1. CASE Interrupt \/ ListenerCloses \/ Stop
    <2>1. main \in {"serving", "closing"} /\ main' \in {"closing", "stop"}
          /\ UNCHANGED <<loop, conn, listed, found>>
      BY <1>1 DEF Interrupt, ListenerCloses, Stop
    <2> QED BY <2>1 DEF StopInv
  <1>2. CASE CancelBeacon
    <2>1. /\ main' = "beacon" /\ loop' = [loop EXCEPT !["beacon"] = "done"]
          /\ UNCHANGED <<conn, listed, found>>
      BY <1>2 DEF CancelBeacon, CancelLoop, AfterCancel
    <2>2. loop' \in [Loops -> {"waiting", "woken", "firing", "done"}] /\ loop'["beacon"] = "done"
      BY <2>1 DEF StopInv, Loops
    <2> QED BY <2>1, <2>2 DEF StopInv
  <1>3. CASE CancelSequencer
    <2>1. /\ main' = "sequencer" /\ loop' = [loop EXCEPT !["sequencer"] = "done"]
          /\ loop["beacon"] = "done" /\ UNCHANGED <<conn, listed, found>>
      BY <1>3 DEF CancelSequencer, CancelLoop, AfterCancel
    <2>2. /\ loop' \in [Loops -> {"waiting", "woken", "firing", "done"}]
          /\ loop'["beacon"] = "done" /\ loop'["sequencer"] = "done"
      BY <2>1 DEF StopInv, Loops
    <2> QED BY <2>1, <2>2 DEF StopInv
  <1>4. CASE CancelClients
    <2>1. /\ main = "sequencer" /\ main' = "clients" /\ found' = listed /\ listed' = listed
          /\ loop' = loop
          /\ conn' = [c \in Client |-> IF c \in listed THEN Dropped(conn[c]) ELSE conn[c]]
      BY <1>4 DEF CancelClients
    <2>2. /\ conn \in [Client -> Conn] /\ listed \subseteq Client
          /\ \A c \in listed : conn[c].reader = "up"
      BY DEF StopInv, LinksOK
    <2>3. \A c \in Client : /\ conn'[c] \in Conn /\ conn'[c].reader = conn[c].reader
                            /\ c \in listed => /\ ~conn'[c].open
                                               /\ conn'[c].writer \in {"cancelled", "done"}
      BY <2>1, <2>2, DroppedLink
    <2>4. LinksOK(conn', listed')
      BY <2>1, <2>2, <2>3 DEF LinksOK
    <2> QED BY <2>1, <2>2, <2>3, <2>4 DEF StopInv
  <1>5. CASE CloseListener
    <2>1. /\ main = "clients" /\ main' = "listener" /\ listed' = {}
          /\ UNCHANGED <<loop, conn, found>>
          /\ \A c \in Client : conn[c].writer # "cancelled"
      BY <1>5 DEF CloseListener
    <2>2. LinksOK(conn', listed')
      BY <2>1 DEF StopInv, LinksOK
    <2> QED BY <2>1, <2>2 DEF StopInv
  <1>6. CASE Stopped
    <2>1. main = "listener" /\ main' = "stopped" /\ UNCHANGED <<loop, conn, listed, found>>
      BY <1>6 DEF Stopped
    <2> QED BY <2>1 DEF StopInv
  <1> QED BY <1>1, <1>2, <1>3, <1>4, <1>5, <1>6

\* Every step, stop() and its waits included, only winds down what stop() has
\* told to end.
LEMMA NextStopInv == StopInv /\ [ServerNext]_serverVars => StopInv'
  <1> SUFFICES ASSUME StopInv, [ServerNext]_serverVars PROVE StopInv'
    OBVIOUS
  <1>1. CASE UNCHANGED serverVars
    BY <1>1 DEF serverVars, StopInv
  <1> QED BY <1>1, ClientRuns, LoopRuns, MainStopInv, RunsStopInv DEF ServerNext

\* Before it is started the server has nothing to end.
LEMMA InitStopInv == ServerInit => StopInv
  <1> SUFFICES ASSUME ServerInit PROVE StopInv
    OBVIOUS
  <1>1. Away \in Conn
    BY PacketAssumption DEF Away, Conn
  <1>2. LinksOK(conn, listed)
    BY <1>1 DEF ServerInit, LinksOK
  <1> QED BY <1>2 DEF ServerInit, StopInv

\* When stop() is through nothing of the vehicle runs on: not the loops, not
\* the writer of a client it found, whose transport is closed, whatever came
\* between.
THEOREM NothingOutlivesStop == ServerSpec => []StoppedMeansEnded
  <1>1. StopInv => StoppedMeansEnded
    BY DEF StopInv, StoppedMeansEnded, Loops
  <1> QED BY <1>1, InitStopInv, NextStopInv, PTL DEF ServerSpec

\* The queue of a client never passes its bound: a client that would make it
\* do so is dropped.
THEOREM QueuesAreBounded == ServerSpec => [](\A c \in Client : conn[c].queue \in 0..OutMax)
  <1>1. StopInv => \A c \in Client : conn[c].queue \in 0..OutMax
    BY DEF StopInv, LinksOK, Conn
  <1> QED BY <1>1, InitStopInv, NextStopInv, PTL DEF ServerSpec

-----------------------------------------------------------------------------
(***************************************************************************)
(* The behavior engine.                                                    *)
(***************************************************************************)
Parts == {"overlay", "behaviors", "pending", "wheelAmps", "applied", "skipped", "word"}
IsEngine(e) == DOMAIN e = Parts

(***************************************************************************)
(* A registry: a sequence with one behavior per field.                     *)
(***************************************************************************)
Registry(bs) ==
    /\ bs \in Seq(Range(bs))
    /\ \A i, j \in DOMAIN bs : bs[i].on = bs[j].on => i = j

\* What becomes of a registry when a behavior is put in or taken out.
LEMMA WithEntries ==
    ASSUME NEW e, IsEngine(e), Registry(e.behaviors), NEW b
    PROVE  /\ Registry(With(e, b).behaviors)
           /\ \A x : x \in Range(With(e, b).behaviors) <=>
                        x = b \/ (x \in Range(e.behaviors) /\ x.on # b.on)
  <1> DEFINE bs == e.behaviors
             S == Range(bs) \union {b}
  <1>1. bs \in Seq(S)
    BY SeqMonotonic DEF Registry
  <1>2. Len(bs) \in Nat /\ DOMAIN bs = 1..Len(bs)
    BY <1>1, LenProperties
  <1>3. CASE Index(e, b.on) = {}
    <2> DEFINE t == Append(bs, b)
    <2>1. With(e, b).behaviors = t
      BY <1>3 DEF With, IsEngine, Parts
    <2>2. t \in Seq(S) /\ Len(t) = Len(bs) + 1 /\ t[Len(bs) + 1] = b
          /\ \A i \in 1..Len(bs) : t[i] = bs[i]
      BY <1>1
    <2>3. DOMAIN t = 1..(Len(bs) + 1)
      BY <2>2, LenProperties
    <2>4. \A i \in DOMAIN bs : bs[i].on # b.on
      BY <1>3 DEF Index
    <2> HIDE DEF t
    <2>5. \A i, j \in DOMAIN t : t[i].on = t[j].on => i = j
      BY <1>2, <2>2, <2>3, <2>4 DEF Registry
    <2>6. t \in Seq(Range(t))
      BY <2>2, SeqInRange
    <2>7. \A x : x \in Range(t) <=> x = b \/ x \in Range(bs)
      BY <1>2, <2>2, <2>3, RangeIs
    <2>8. \A x \in Range(bs) : x.on # b.on
      BY <2>4, RangeIs
    <2> QED BY <2>1, <2>5, <2>6, <2>7, <2>8 DEF Registry
  <1>4. CASE Index(e, b.on) # {}
    <2> DEFINE k == CHOOSE i \in Index(e, b.on) : TRUE
               t == ReplaceAt(bs, k, b)
    <2>1. k \in Index(e, b.on)
      BY <1>4
    <2>2. k \in 1..Len(bs) /\ bs[k].on = b.on
      BY <2>1, <1>2 DEF Index
    <2>3. With(e, b).behaviors = t
      BY <1>4 DEF With, IsEngine, Parts
    <2> HIDE DEF k
    <2>4. t \in Seq(S) /\ Len(t) = Len(bs)
          /\ \A j \in 1..Len(bs) : t[j] = IF j = k THEN b ELSE bs[j]
      BY <2>2, <1>1, ExceptSeq DEF ReplaceAt
    <2>5. DOMAIN t = 1..Len(bs)
      BY <2>4, LenProperties
    <2> HIDE DEF t
    <2>6. \A i, j \in DOMAIN t : t[i].on = t[j].on => i = j
      BY <1>2, <2>2, <2>4, <2>5 DEF Registry
    <2>7. t \in Seq(Range(t))
      BY <2>4, SeqInRange
    <2>8. \A i \in 1..Len(bs) : i # k => bs[i].on # b.on
      BY <1>2, <2>2 DEF Registry
    <2>9. ASSUME NEW x PROVE x \in Range(t) <=> x = b \/ (x \in Range(bs) /\ x.on # b.on)
      <3>1. x \in Range(t) <=> \E i \in 1..Len(bs) : t[i] = x
        BY <2>5, RangeIs
      <3>2. x \in Range(bs) <=> \E i \in 1..Len(bs) : bs[i] = x
        BY <1>2, RangeIs
      <3>3. ASSUME x \in Range(t) PROVE x = b \/ (x \in Range(bs) /\ x.on # b.on)
        BY <3>1, <3>2, <3>3, <2>4, <2>8
      <3>4. ASSUME x \in Range(bs), x.on # b.on PROVE x \in Range(t)
        BY <3>1, <3>2, <3>4, <2>2, <2>4
      <3>5. b \in Range(t)
        BY <2>2, <2>4, <2>5, RangeIs
      <3> QED BY <3>3, <3>4, <3>5
    <2> QED BY <2>3, <2>6, <2>7, <2>9 DEF Registry
  <1> QED BY <1>3, <1>4

\* What is taken out of the registry: the behavior on that field.
LEMMA WithoutEntries ==
    ASSUME NEW e, IsEngine(e), Registry(e.behaviors), NEW f
    PROVE  /\ Registry(Without(e, f).behaviors)
           /\ \A x : x \in Range(Without(e, f).behaviors) <=>
                        x \in Range(e.behaviors) /\ x.on # f
  <1> DEFINE bs == e.behaviors
             S == Range(bs)
  <1>1. bs \in Seq(S) /\ \A i, j \in DOMAIN bs : bs[i].on = bs[j].on => i = j
    BY DEF Registry
  <1>2. Len(bs) \in Nat /\ DOMAIN bs = 1..Len(bs)
    BY <1>1, LenProperties
  <1>3. CASE Index(e, f) = {}
    <2>1. Without(e, f) = e
      BY <1>3 DEF Without
    <2>2. \A x \in Range(bs) : x.on # f
      BY <1>3, RangeIs DEF Index
    <2> QED BY <2>1, <2>2
  <1>4. CASE Index(e, f) # {}
    <2> DEFINE k == CHOOSE i \in Index(e, f) : TRUE
               t == RemoveAt(bs, k)
               l == SubSeq(bs, 1, k - 1)
               r == SubSeq(bs, k + 1, Len(bs))
               n == Len(bs) - 1
    <2>1. k \in 1..Len(bs) /\ bs[k].on = f
      <3>1. k \in Index(e, f)
        BY <1>4
      <3> QED BY <3>1, <1>2 DEF Index
    <2>2. Without(e, f).behaviors = t
      BY <1>4 DEF Without, IsEngine, Parts
    <2> HIDE DEF k
    <2>3. /\ l \in Seq(S) /\ Len(l) = k - 1 /\ \A i \in 1..(k - 1) : l[i] = bs[i]
      <3>1. \A i \in 1..(k - 1) : bs[i] \in S
        BY <1>1, <1>2, <2>1, ElementOfSeq
      <3>2. /\ l \in Seq(S)
            /\ Len(l) = IF 1 <= k - 1 THEN (k - 1) - 1 + 1 ELSE 0
            /\ \A i \in 1..((k - 1) - 1 + 1) : l[i] = bs[1 + i - 1]
        BY <3>1, <2>1, <1>2, SubSeqProperties
      <3> HIDE DEF l
      <3>3. Len(l) = k - 1 /\ \A i \in 1..(k - 1) : i \in 1..((k - 1) - 1 + 1) /\ 1 + i - 1 = i
        BY <3>2, <2>1, <1>2
      <3> QED BY <3>2, <3>3
    <2>4. /\ r \in Seq(S) /\ Len(r) = Len(bs) - k
          /\ \A i \in 1..(Len(bs) - k) : r[i] = bs[k + i]
      <3>1. \A i \in (k + 1)..Len(bs) : bs[i] \in S
        BY <1>1, <1>2, <2>1, ElementOfSeq
      <3>2. /\ r \in Seq(S)
            /\ Len(r) = IF k + 1 <= Len(bs) THEN Len(bs) - (k + 1) + 1 ELSE 0
            /\ \A i \in 1..(Len(bs) - (k + 1) + 1) : r[i] = bs[k + 1 + i - 1]
        BY <3>1, <2>1, <1>2, SubSeqProperties
      <3> HIDE DEF r
      <3>3. Len(r) = Len(bs) - k
        BY <3>2, <2>1, <1>2
      <3>4. \A i \in 1..(Len(bs) - k) : i \in 1..(Len(bs) - (k + 1) + 1) /\ k + 1 + i - 1 = k + i
        BY <2>1, <1>2
      <3> QED BY <3>2, <3>3, <3>4
    <2> HIDE DEF l, r
    <2>5. /\ t \in Seq(S) /\ Len(t) = n
          /\ \A i \in 1..n : t[i] = IF i < k THEN bs[i] ELSE bs[i + 1]
      <3>1. t = l \o r
        BY DEF RemoveAt, l, r
      <3>2. /\ l \o r \in Seq(S) /\ Len(l \o r) = Len(l) + Len(r)
            /\ \A i \in 1..Len(l) + Len(r) :
                   (l \o r)[i] = IF i <= Len(l) THEN l[i] ELSE r[i - Len(l)]
        BY <2>3, <2>4, ConcatProperties
      <3> HIDE DEF t
      <3>3. ASSUME NEW i \in 1..n PROVE t[i] = IF i < k THEN bs[i] ELSE bs[i + 1]
        <4>1. i \in 1..(Len(l) + Len(r))
          BY <2>3, <2>4, <2>1, <1>2
        <4>2. CASE i < k
          BY <4>1, <4>2, <3>1, <3>2, <2>3, <2>1, <1>2
        <4>3. CASE ~(i < k)
          <5>1. i - Len(l) \in 1..(Len(bs) - k) /\ k + (i - Len(l)) = i + 1 /\ ~(i <= Len(l))
            BY <4>3, <2>3, <2>1, <1>2
          <5> QED BY <5>1, <4>1, <4>3, <3>1, <3>2, <2>4
        <4> QED BY <4>2, <4>3
      <3> QED BY <3>1, <3>2, <3>3, <2>3, <2>4, <2>1, <1>2
    <2>6. DOMAIN t = 1..n
      BY <2>5, LenProperties
    <2> HIDE DEF t
    <2>7. \A i \in 1..n : i \in 1..Len(bs) /\ i + 1 \in 1..Len(bs)
      BY <1>2
    <2>8. \A i, j \in DOMAIN t : t[i].on = t[j].on => i = j
      <3> SUFFICES ASSUME NEW i \in 1..n, NEW j \in 1..n, t[i].on = t[j].on PROVE i = j
        BY <2>6
      <3> DEFINE p(x) == IF x < k THEN x ELSE x + 1
      <3>1. p(i) \in 1..Len(bs) /\ p(j) \in 1..Len(bs) /\ t[i] = bs[p(i)] /\ t[j] = bs[p(j)]
        BY <2>5, <2>7
      <3>2. p(i) = p(j)
        BY <3>1, <1>1, <1>2
      <3> QED BY <3>2, <2>1, <1>2
    <2>9. t \in Seq(Range(t))
      BY <2>5, SeqInRange
    <2>10. ASSUME NEW x PROVE x \in Range(t) <=> x \in Range(bs) /\ x.on # f
      <3>1. ASSUME x \in Range(t) PROVE x \in Range(bs) /\ x.on # f
        <4>1. PICK i \in 1..n : t[i] = x
          BY <3>1, <2>6, RangeIs
        <4>2. PICK j \in 1..Len(bs) : j # k /\ bs[j] = x
          <5>1. CASE i < k
            BY <5>1, <4>1, <2>5, <2>7
          <5>2. CASE ~(i < k)
            <6>1. i + 1 \in 1..Len(bs) /\ i + 1 # k
              BY <5>2, <2>7, <2>1, <1>2
            <6> QED BY <6>1, <5>2, <4>1, <2>5
          <5> QED BY <5>1, <5>2
        <4> QED BY <4>2, <1>1, <1>2, <2>1, RangeIs
      <3>2. ASSUME x \in Range(bs), x.on # f PROVE x \in Range(t)
        <4>1. PICK j \in 1..Len(bs) : bs[j] = x /\ j # k
          BY <3>2, <1>2, <2>1, RangeIs
        <4>2. PICK i \in 1..n : t[i] = x
          <5>1. CASE j < k
            BY SMTT(40), <5>1, <4>1, <2>5, <2>1, <1>2
          <5>2. CASE j > k
            <6>1. j - 1 \in 1..n /\ ~(j - 1 < k) /\ (j - 1) + 1 = j
              BY <5>2, <2>1, <1>2
            <6> QED BY <6>1, <4>1, <2>5
          <5> QED BY <5>1, <5>2, <4>1, <2>1
        <4> QED BY <4>2, <2>6, RangeIs
      <3> QED BY <3>1, <3>2
    <2> QED BY <2>2, <2>8, <2>9, <2>10 DEF Registry
  <1> QED BY <1>3, <1>4

-----------------------------------------------------------------------------

(***************************************************************************)
(* A sequence that takes its elements from another one, each position at   *)
(* most once.                                                              *)
(***************************************************************************)
Picks(p, t, s) ==
    \A j \in DOMAIN t : /\ p[j] \in DOMAIN s /\ s[p[j]] = t[j]
                        /\ \A k \in DOMAIN t : p[j] = p[k] => j = k
PicksFrom(t, s) == \E p : Picks(p, t, s)

\* Picks of disjoint parts of a sequence make one.
LEMMA ConcatPicks ==
    ASSUME NEW S, NEW t \in Seq(S), NEW u \in Seq(S), NEW s, PicksFrom(t, s), PicksFrom(u, s),
           \A x \in Range(t), y \in Range(u) : x # y
    PROVE  PicksFrom(t \o u, s)
  <1> DEFINE v == t \o u
  <1>1. /\ Len(v) = Len(t) + Len(u)
        /\ \A i \in 1..Len(t) + Len(u) : v[i] = IF i <= Len(t) THEN t[i] ELSE u[i - Len(t)]
    BY ConcatProperties
  <1>2. /\ Len(t) \in Nat /\ DOMAIN t = 1..Len(t) /\ Len(u) \in Nat /\ DOMAIN u = 1..Len(u)
        /\ DOMAIN v = 1..(Len(t) + Len(u))
    BY <1>1, LenProperties, ConcatProperties
  <1> HIDE DEF v
  <1>3. PICK p : Picks(p, t, s)
    BY DEF PicksFrom
  <1>4. PICK q : Picks(q, u, s)
    BY DEF PicksFrom
  <1> DEFINE r == [j \in DOMAIN v |-> IF j <= Len(t) THEN p[j] ELSE q[j - Len(t)]]
  <1>5. ASSUME NEW j \in DOMAIN v
        PROVE  /\ j <= Len(t) => j \in DOMAIN t /\ v[j] = t[j] /\ r[j] = p[j]
               /\ ~(j <= Len(t)) => /\ j - Len(t) \in DOMAIN u
                                    /\ v[j] = u[j - Len(t)] /\ r[j] = q[j - Len(t)]
    BY <1>1, <1>2
  <1> HIDE DEF r
  <1>6. ASSUME NEW j \in DOMAIN v PROVE r[j] \in DOMAIN s /\ s[r[j]] = v[j]
    BY <1>3, <1>4, <1>5 DEF Picks
  <1>7. ASSUME NEW j \in DOMAIN v, NEW k \in DOMAIN v, r[j] = r[k] PROVE j = k
    <2>1. j \in Nat /\ k \in Nat
      BY <1>2
    <2>2. CASE j <= Len(t) /\ k <= Len(t)
      BY <2>2, <1>3, <1>5, <1>7 DEF Picks
    <2>3. CASE ~(j <= Len(t)) /\ ~(k <= Len(t))
      <3>1. j - Len(t) = k - Len(t)
        BY <2>3, <1>4, <1>5, <1>7 DEF Picks
      <3> QED BY <3>1, <2>1, <1>2
    <2>4. ASSUME NEW i \in DOMAIN v, NEW l \in DOMAIN v, i <= Len(t), ~(l <= Len(t))
          PROVE  v[i] # v[l]
      <3>1. v[i] = t[i] /\ i \in DOMAIN t /\ v[l] = u[l - Len(t)] /\ l - Len(t) \in DOMAIN u
        BY <1>5, <2>4
      <3>2. t[i] \in Range(t) /\ u[l - Len(t)] \in Range(u)
        BY <3>1, RangeIs
      <3> QED BY <3>1, <3>2
    <2>5. v[j] = v[k]
      BY <1>6, <1>7
    <2> QED BY <2>2, <2>3, <2>4, <2>5
  <1>8. Picks(r, v, s)
    BY <1>6, <1>7 DEF Picks
  <1> QED BY <1>8 DEF PicksFrom, v

\* A sequence that is flattened from sequences of one element, or none, picks
\* those elements.
LEMMA FlattenPicks ==
    ASSUME NEW S, NEW s \in Seq(S), NEW ss \in Seq(Seq(S)), Len(ss) = Len(s),
           \A i \in DOMAIN ss : ss[i] = <<>> \/ ss[i] = <<s[i]>>
    PROVE  PicksFrom(FlattenSeq(ss), s)
  <1> DEFINE n == Len(ss)
  <1>1. /\ n \in Nat /\ DOMAIN ss = 1..n /\ DOMAIN s = 1..n
        /\ \A i \in 1..n : ss[i] \in Seq(S) /\ s[i] \in S
    BY LenProperties, ElementOfSeq
  <1>2. CASE n = 0
    <2>1. ss = <<>>
      BY <1>2, EmptySeq
    <2>2. DOMAIN FlattenSeq(ss) = {}
      BY <1>2, <2>1 DEF FlattenSeq
    <2>3. Picks(<<>>, FlattenSeq(ss), s)
      BY <2>2 DEF Picks
    <2> QED BY <2>3 DEF PicksFrom
  <1>3. CASE n # 0
    <2>1. PICK a : RunOfFlatten(a, ss)
      BY <1>3, FlattenInTurn
    <2>2. /\ a[1] = ss[1] /\ \A i \in 2..n : a[i] = a[i - 1] \o ss[i]
          /\ FlattenSeq(ss) = a[n]
      BY <2>1 DEF RunOfFlatten
    <2> DEFINE Good(i) == /\ a[i] \in Seq(S)
                          /\ \E p : Picks(p, a[i], s) /\ \A j \in DOMAIN a[i] : p[j] \in 1..i
               X == {i \in 0..(n - 1) : Good(i + 1)}
    <2>3. 0 \in X
      <3>1. ss[1] \in Seq(S)
        BY <1>1, <1>3
      <3> DEFINE p == [j \in {1} |-> 1]
      <3>2. Picks(p, ss[1], s) /\ \A j \in DOMAIN ss[1] : p[j] \in 1..1
        <4>1. CASE ss[1] = <<>>
          BY <4>1 DEF Picks
        <4>2. CASE ss[1] = <<s[1]>>
          <5> DEFINE w == <<s[1]>>
          <5>1. DOMAIN w = {1} /\ w[1] = s[1]
            OBVIOUS
          <5>2. ss[1] = w
            BY <4>2
          <5>3. p[1] = 1 /\ 1 \in DOMAIN s /\ 1 \in 1..1
            BY <1>1, <1>3
          <5> HIDE DEF w, p
          <5>4. Picks(p, w, s)
            BY <5>1, <5>3 DEF Picks
          <5>5. \A j \in DOMAIN w : p[j] \in 1..1
            BY <5>1, <5>3
          <5> QED BY <5>2, <5>4, <5>5
        <4>3. ss[1] = <<>> \/ ss[1] = <<s[1]>>
          <5>1. 1 \in DOMAIN ss
            BY <1>1, <1>3
          <5> QED BY <5>1
        <4> HIDE DEF p
        <4> QED BY <4>1, <4>2, <4>3
      <3> HIDE DEF p
      <3>3. Good(0 + 1)
        BY <3>1, <3>2, <2>2
      <3> HIDE DEF Good
      <3> QED BY <3>3, <1>1, <1>3
    <2>4. ASSUME NEW i \in 0..((n - 1) - 1), i \in X PROVE i + 1 \in X
      <3> DEFINE m == i + 1
      <3>1. /\ m \in 1..n /\ m + 1 \in 2..n /\ (m + 1) - 1 = m /\ m \in 0..(n - 1)
            /\ m + 1 \in 1..n /\ m \in Nat
        BY <1>1
      <3>2. Good(m)
        BY <2>4
      <3> HIDE DEF m
      <3> DEFINE t == a[m]
                 u == a[m + 1]
      <3>3. u = t \o ss[m + 1]
        BY <3>1, <2>2
      <3>4. PICK p : Picks(p, t, s) /\ \A j \in DOMAIN t : p[j] \in 1..m
        BY <3>2
      <3>5. t \in Seq(S)
        BY <3>2
      <3>6. Len(t) \in Nat /\ DOMAIN t = 1..Len(t)
        BY <3>5, LenProperties
      <3> HIDE DEF t, u
      <3>7. CASE ss[m + 1] = <<>>
        <4>1. u = t
          BY <3>3, <3>5, <3>7, ConcatEmptySeq
        <4>2. \A j \in DOMAIN t : p[j] \in 1..(m + 1)
          BY <3>4, <3>1
        <4>3. Good(m + 1)
          BY <4>1, <4>2, <3>4, <3>5 DEF u
        <4> HIDE DEF Good
        <4> QED BY <4>3, <3>1 DEF m
      <3>8. CASE ss[m + 1] = <<s[m + 1]>>
        <4> DEFINE x == s[m + 1]
                   l == Len(t) + 1
        <4>1. <<x>> \in Seq(S) /\ Len(<<x>>) = 1 /\ <<x>>[1] = x
          BY <1>1, <3>1
        <4>2. /\ u \in Seq(S) /\ Len(u) = Len(t) + 1
              /\ \A j \in 1..Len(t) + 1 : u[j] = IF j <= Len(t) THEN t[j] ELSE <<x>>[j - Len(t)]
          BY <3>3, <3>5, <3>8, <4>1, ConcatProperties
        <4>3. DOMAIN u = 1..l
          BY <4>2, LenProperties
        <4>4. u[l] = x /\ \A j \in 1..Len(t) : u[j] = t[j]
          BY <4>1, <4>2, <3>6
        <4> DEFINE q == [j \in 1..l |-> IF j = l THEN m + 1 ELSE p[j]]
        <4>5. q[l] = m + 1 /\ \A j \in 1..Len(t) : q[j] = p[j] /\ p[j] \in 1..m /\ j \in DOMAIN t
          <5>1. \A j \in 1..Len(t) : p[j] \in 1..m /\ j \in DOMAIN t
            BY <3>4, <3>6
          <5>2. l \in 1..l /\ \A j \in 1..Len(t) : j \in 1..l /\ j # l
            BY <3>6
          <5> HIDE DEF l
          <5> QED BY <5>1, <5>2
        <4>6. \A j \in 1..l : j = l \/ j \in 1..Len(t)
          <5>1. \A k \in Nat : \A j \in 1..(k + 1) : j = k + 1 \/ j \in 1..k
            OBVIOUS
          <5>2. \A j \in 1..(Len(t) + 1) : j = Len(t) + 1 \/ j \in 1..Len(t)
            BY <5>1, <3>6
          <5> QED BY <5>2
        <4> HIDE DEF q, l, x
        <4>7. \A j \in DOMAIN u : q[j] \in 1..(m + 1)
          <5>1. m + 1 \in 1..(m + 1) /\ \A x0 \in 1..m : x0 \in 1..(m + 1)
            BY <3>1
          <5> QED BY <4>3, <4>5, <4>6, <5>1
        <4>8. ASSUME NEW j \in DOMAIN u PROVE q[j] \in DOMAIN s /\ s[q[j]] = u[j]
          <5>1. CASE j = l
            BY <5>1, <4>4, <4>5, <1>1, <3>1 DEF x
          <5>2. CASE j \in 1..Len(t)
            BY <5>2, <4>4, <4>5, <3>4 DEF Picks
          <5> QED BY <5>1, <5>2, <4>3, <4>6
        <4>9. ASSUME NEW j \in DOMAIN u, NEW k \in DOMAIN u, q[j] = q[k] PROVE j = k
          <5>1. CASE j \in 1..Len(t) /\ k \in 1..Len(t)
            <6>1. j \in DOMAIN t /\ k \in DOMAIN t /\ p[j] = p[k]
              BY <5>1, <4>5, <4>9
            <6> QED BY <6>1, <3>4 DEF Picks
          <5>2. \A i0 \in 1..Len(t) : q[i0] # q[l]
            <6>1. \A x0 \in 1..m : x0 # m + 1
              BY <3>1
            <6> QED BY <4>5, <6>1
          <5> QED BY <5>1, <5>2, <4>3, <4>6, <4>9
        <4>10. Picks(q, u, s)
          BY <4>8, <4>9 DEF Picks
        <4>11. Good(m + 1)
          BY <4>2, <4>7, <4>10 DEF u
        <4> HIDE DEF Good
        <4> QED BY <4>11, <3>1 DEF m
      <3>9. ss[m + 1] = <<>> \/ ss[m + 1] = <<s[m + 1]>>
        BY <3>1, <1>1
      <3> QED BY <3>7, <3>8, <3>9
    <2>5. n - 1 \in X
      <3> HIDE DEF X
      <3>1. n - 1 \in Nat /\ n - 1 \in 0..(n - 1)
        BY <1>1, <1>3
      <3> QED BY <2>3, <2>4, <3>1, Climb
    <2>6. Good(n)
      <3>1. (n - 1) + 1 = n
        BY <1>1
      <3>2. Good((n - 1) + 1)
        BY <2>5
      <3> HIDE DEF n, Good
      <3> QED BY <3>1, <3>2
    <2> QED BY <2>2, <2>6 DEF PicksFrom
  <1> QED BY <1>2, <1>3

\* The effects of a command are applied one after the other.
RunOfEffects(a, e, ns, c, args, owned) ==
    /\ a[0] = e
    /\ \A i \in 1..Len(ns) : a[i] = Effect(a[i - 1], ns[i], c, args, owned)
    /\ Effects(e, ns, c, args, owned) = a[Len(ns)]

\* The effects have such a run.
LEMMA EffectsInTurn ==
    ASSUME NEW S, NEW ns \in Seq(S), NEW e, NEW c, NEW args, NEW owned
    PROVE  \E a : RunOfEffects(a, e, ns, c, args, owned)
  <1> DEFINE n == Len(ns)
             Solves(g, k) == g = [i \in 0..k |-> IF i = 0 THEN e
                                                ELSE Effect(g[i - 1], ns[i], c, args, owned)]
             X == {k \in 0..n : \E g : Solves(g, k)}
  <1>1. n \in Nat
    BY LenProperties
  <1>2. 0 \in X
    <2> DEFINE g == [i \in 0..0 |-> e]
    <2>1. Solves(g, 0)
      OBVIOUS
    <2> HIDE DEF g, Solves
    <2> QED BY <2>1, <1>1
  <1>3. ASSUME NEW k \in 0..(n - 1), k \in X PROVE k + 1 \in X
    <2>1. PICK g : Solves(g, k)
      BY <1>3
    <2> DEFINE h == [i \in 0..(k + 1) |->
                         IF i = k + 1 THEN Effect(g[k], ns[k + 1], c, args, owned) ELSE g[i]]
    <2>2. k \in Nat /\ k + 1 \in 0..n
      BY <1>1
    <2>3. \A i \in 0..k : h[i] = g[i]
      BY <2>2
    <2>4. ASSUME NEW i \in 0..(k + 1)
          PROVE  h[i] = IF i = 0 THEN e ELSE Effect(h[i - 1], ns[i], c, args, owned)
      <3>1. CASE i = 0
        BY <3>1, <2>1, <2>2, <2>3
      <3>2. CASE i \in 1..k
        <4>1. i - 1 \in 0..k /\ i \in 0..k /\ i # 0
          BY <3>2, <2>2
        <4>2. g[i] = Effect(g[i - 1], ns[i], c, args, owned)
          BY <4>1, <2>1
        <4> HIDE DEF h
        <4> QED BY <4>1, <4>2, <2>3
      <3>3. CASE i = k + 1
        <4>1. h[k] = g[k] /\ i # 0 /\ i - 1 = k
          BY <3>3, <2>2, <2>3
        <4>2. h[i] = Effect(g[k], ns[k + 1], c, args, owned)
          BY <3>3, <2>2
        <4> HIDE DEF h
        <4> QED BY <3>3, <4>1, <4>2
      <3> QED BY <3>1, <3>2, <3>3, <2>2
    <2>5. h = [i \in 0..(k + 1) |-> h[i]]
      OBVIOUS
    <2>6. Solves(h, k + 1)
      <3> HIDE DEF h
      <3> QED BY <2>4, <2>5
    <2> HIDE DEF h, Solves
    <2> QED BY <2>2, <2>6
  <1>4. n \in X
    <2> HIDE DEF X
    <2>1. n \in 0..n
      BY <1>1
    <2> QED BY <1>1, <1>2, <1>3, <2>1, Climb
  <1>5. PICK g : Solves(g, n)
    BY <1>4
  <1> DEFINE a == CHOOSE a : Solves(a, n)
  <1>6. Solves(a, n)
    <2> HIDE DEF Solves
    <2> QED BY <1>5
  <1>7. Effects(e, ns, c, args, owned) = a[n]
    BY DEF Effects
  <1> HIDE DEF a
  <1>8. a[0] = e
    BY <1>1, <1>6
  <1>9. \A i \in 1..Len(ns) : a[i] = Effect(a[i - 1], ns[i], c, args, owned)
    <2> TAKE i \in 1..n
    <2>1. i \in 0..n /\ i # 0
      BY <1>1
    <2> QED BY <2>1, <1>6
  <1> HIDE DEF Solves
  <1> QED BY <1>7, <1>8, <1>9 DEF RunOfEffects

\* The behaviors are advanced one after the other.
RunOfBehaviors(a, e, draw) ==
    /\ a[0] = e
    /\ \A i \in 1..Len(e.behaviors) :
           a[i] = Advance(a[i - 1], e.behaviors[i], draw[e.behaviors[i].on])
    /\ AdvanceAll(e, draw) = a[Len(e.behaviors)]

\* The behaviors have such a run.
LEMMA BehaviorsInTurn ==
    ASSUME NEW S, NEW e, e.behaviors \in Seq(S), NEW draw
    PROVE  \E a : RunOfBehaviors(a, e, draw)
  <1> DEFINE n == Len(e.behaviors)
             Solves(g, k) ==
                 g = [i \in 0..k |-> IF i = 0 THEN e
                                     ELSE Advance(g[i - 1], e.behaviors[i], draw[e.behaviors[i].on])]
             X == {k \in 0..n : \E g : Solves(g, k)}
  <1>1. n \in Nat
    BY LenProperties
  <1>2. 0 \in X
    <2> DEFINE g == [i \in 0..0 |-> e]
    <2>1. Solves(g, 0)
      OBVIOUS
    <2> HIDE DEF g, Solves
    <2> QED BY <2>1, <1>1
  <1>3. ASSUME NEW k \in 0..(n - 1), k \in X PROVE k + 1 \in X
    <2>1. PICK g : Solves(g, k)
      BY <1>3
    <2> DEFINE h == [i \in 0..(k + 1) |->
                         IF i = k + 1
                         THEN Advance(g[k], e.behaviors[k + 1], draw[e.behaviors[k + 1].on])
                         ELSE g[i]]
    <2>2. k \in Nat /\ k + 1 \in 0..n
      BY <1>1
    <2>3. \A i \in 0..k : h[i] = g[i]
      BY <2>2
    <2>4. ASSUME NEW i \in 0..(k + 1)
          PROVE  h[i] = IF i = 0 THEN e
                        ELSE Advance(h[i - 1], e.behaviors[i], draw[e.behaviors[i].on])
      <3>1. CASE i = 0
        BY <3>1, <2>1, <2>2, <2>3
      <3>2. CASE i \in 1..k
        <4>1. i - 1 \in 0..k /\ i \in 0..k /\ i # 0
          BY <3>2, <2>2
        <4>2. g[i] = Advance(g[i - 1], e.behaviors[i], draw[e.behaviors[i].on])
          BY <4>1, <2>1
        <4> HIDE DEF h
        <4> QED BY <4>1, <4>2, <2>3
      <3>3. CASE i = k + 1
        <4>1. h[k] = g[k] /\ i # 0 /\ i - 1 = k
          BY <3>3, <2>2, <2>3
        <4>2. h[i] = Advance(g[k], e.behaviors[k + 1], draw[e.behaviors[k + 1].on])
          BY <3>3, <2>2
        <4> HIDE DEF h
        <4> QED BY <3>3, <4>1, <4>2
      <3> QED BY <3>1, <3>2, <3>3, <2>2
    <2>5. h = [i \in 0..(k + 1) |-> h[i]]
      OBVIOUS
    <2>6. Solves(h, k + 1)
      <3> HIDE DEF h
      <3> QED BY <2>4, <2>5
    <2> HIDE DEF h, Solves
    <2> QED BY <2>2, <2>6
  <1>4. n \in X
    <2> HIDE DEF X
    <2>1. n \in 0..n
      BY <1>1
    <2> QED BY <1>1, <1>2, <1>3, <2>1, Climb
  <1>5. PICK g : Solves(g, n)
    BY <1>4
  <1> DEFINE a == CHOOSE a : Solves(a, n)
  <1>6. Solves(a, n)
    <2> HIDE DEF Solves
    <2> QED BY <1>5
  <1>7. AdvanceAll(e, draw) = a[n]
    BY DEF AdvanceAll
  <1> HIDE DEF a
  <1>8. a[0] = e
    BY <1>1, <1>6
  <1>9. \A i \in 1..Len(e.behaviors) :
            a[i] = Advance(a[i - 1], e.behaviors[i], draw[e.behaviors[i].on])
    <2> TAKE i \in 1..n
    <2>1. i \in 0..n /\ i # 0
      BY <1>1
    <2> QED BY <2>1, <1>6
  <1> HIDE DEF Solves
  <1> QED BY <1>7, <1>8, <1>9 DEF RunOfBehaviors

\* The outputs of the models are stored one after the other.
RunOfModels(a, models, e, live, reading) ==
    /\ a[0] = e
    /\ \A i \in 1..Len(models) :
           a[i] = StoreOutputs(a[i - 1], IF live THEN a[i - 1] ELSE e, models[i], reading)
    /\ StoreModels(e, models, live, reading) = a[Len(models)]

\* The models have such a run.
LEMMA ModelsInTurn ==
    ASSUME NEW S, NEW models \in Seq(S), NEW e, NEW live, NEW reading
    PROVE  \E a : RunOfModels(a, models, e, live, reading)
  <1> DEFINE n == Len(models)
             Fed(s, i) == StoreOutputs(s, IF live THEN s ELSE e, models[i], reading)
             Solves(g, k) == g = [i \in 0..k |-> IF i = 0 THEN e ELSE Fed(g[i - 1], i)]
             X == {k \in 0..n : \E g : Solves(g, k)}
  <1>1. n \in Nat
    BY LenProperties
  <1>2. 0 \in X
    <2> DEFINE g == [i \in 0..0 |-> e]
    <2>1. Solves(g, 0)
      OBVIOUS
    <2> HIDE DEF g, Solves
    <2> QED BY <2>1, <1>1
  <1>3. ASSUME NEW k \in 0..(n - 1), k \in X PROVE k + 1 \in X
    <2>1. PICK g : Solves(g, k)
      BY <1>3
    <2> DEFINE h == [i \in 0..(k + 1) |-> IF i = k + 1 THEN Fed(g[k], k + 1) ELSE g[i]]
    <2>2. k \in Nat /\ k + 1 \in 0..n
      BY <1>1
    <2>3. \A i \in 0..k : h[i] = g[i]
      BY <2>2
    <2>4. ASSUME NEW i \in 0..(k + 1)
          PROVE  h[i] = IF i = 0 THEN e ELSE Fed(h[i - 1], i)
      <3>1. CASE i = 0
        BY <3>1, <2>1, <2>2, <2>3
      <3>2. CASE i \in 1..k
        <4>1. i - 1 \in 0..k /\ i \in 0..k /\ i # 0
          BY <3>2, <2>2
        <4>2. g[i] = StoreOutputs(g[i - 1], IF live THEN g[i - 1] ELSE e, models[i], reading)
          BY <4>1, <2>1
        <4> HIDE DEF h
        <4> QED BY <4>1, <4>2, <2>3
      <3>3. CASE i = k + 1
        <4>1. h[k] = g[k] /\ i # 0 /\ i - 1 = k
          BY <3>3, <2>2, <2>3
        <4>2. h[i] = StoreOutputs(g[k], IF live THEN g[k] ELSE e, models[k + 1], reading)
          BY <3>3, <2>2
        <4> HIDE DEF h
        <4> QED BY <3>3, <4>1, <4>2
      <3> QED BY <3>1, <3>2, <3>3, <2>2
    <2>5. h = [i \in 0..(k + 1) |-> h[i]]
      OBVIOUS
    <2>6. Solves(h, k + 1)
      <3> HIDE DEF h
      <3> QED BY <2>4, <2>5
    <2> HIDE DEF h, Solves
    <2> QED BY <2>2, <2>6
  <1>4. n \in X
    <2> HIDE DEF X
    <2>1. n \in 0..n
      BY <1>1
    <2> QED BY <1>1, <1>2, <1>3, <2>1, Climb
  <1>5. PICK g : Solves(g, n)
    BY <1>4
  <1> DEFINE a == CHOOSE a : Solves(a, n)
  <1>6. Solves(a, n)
    <2> HIDE DEF Solves
    <2> QED BY <1>5
  <1>7. StoreModels(e, models, live, reading) = a[n]
    BY DEF StoreModels
  <1> HIDE DEF a
  <1>8. a[0] = e
    BY <1>1, <1>6
  <1>9. \A i \in 1..Len(models) : a[i] = StoreOutputs(a[i - 1], IF live THEN a[i - 1] ELSE e, models[i], reading)
    <2> TAKE i \in 1..n
    <2>1. i \in 0..n /\ i # 0
      BY <1>1
    <2> QED BY <2>1, <1>6
  <1> HIDE DEF Solves
  <1> QED BY <1>7, <1>8, <1>9 DEF RunOfModels

-----------------------------------------------------------------------------
\* What a store leaves alone: all but the overlay, and there all but the
\* fields that it is for.
ButOverlay(e, s) ==
    /\ IsEngine(s)
    /\ s.behaviors = e.behaviors /\ s.pending = e.pending /\ s.wheelAmps = e.wheelAmps
    /\ s.applied = e.applied /\ s.skipped = e.skipped /\ s.word = e.word
ButFields(e, s, fields) ==
    \A g \in DOMAIN e.overlay :
        g \notin fields => g \in DOMAIN s.overlay /\ s.overlay[g] = e.overlay[g]

\* A merge holds every field of both, the new ones with their new value.
LEMMA MergedFields ==
    ASSUME NEW old, NEW new
    PROVE  /\ DOMAIN Merged(old, new) = DOMAIN old \union DOMAIN new
           /\ \A x \in DOMAIN new : Merged(old, new)[x] = new[x]
           /\ \A x \in DOMAIN old : x \notin DOMAIN new => Merged(old, new)[x] = old[x]
  BY DEF Merged

\* What a merge into the overlay leaves alone, and what it stores.
LEMMA OverlayMerged ==
    ASSUME NEW e, IsEngine(e), NEW new
    PROVE  LET s == [e EXCEPT !.overlay = Merged(@, new)]
           IN  /\ ButOverlay(e, s) /\ ButFields(e, s, DOMAIN new)
               /\ \A f \in DOMAIN new : f \in DOMAIN s.overlay /\ s.overlay[f] = new[f]
  <1> DEFINE s == [e EXCEPT !.overlay = Merged(@, new)]
  <1>1. ButOverlay(e, s) /\ s.overlay = Merged(e.overlay, new)
    BY DEF IsEngine, Parts, ButOverlay
  <1> DEFINE o == Merged(e.overlay, new)
  <1>4. /\ DOMAIN o = DOMAIN e.overlay \union DOMAIN new
        /\ \A x \in DOMAIN new : o[x] = new[x]
        /\ \A x \in DOMAIN e.overlay : x \notin DOMAIN new => o[x] = e.overlay[x]
    BY MergedFields, Zenon
  <1>5. s.overlay = o
    BY <1>1
  <1> HIDE DEF s, o
  <1>2. ButFields(e, s, DOMAIN new)
    BY <1>4, <1>5 DEF ButFields
  <1>3. \A f \in DOMAIN new : f \in DOMAIN s.overlay /\ s.overlay[f] = new[f]
    BY <1>4, <1>5
  <1> QED BY <1>1, <1>2, <1>3 DEF s

\* A store is for its field, and holds the value when it fits.
LEMMA StoreKeeps ==
    ASSUME NEW e, IsEngine(e), NEW f, NEW v
    PROVE  LET s == Store(e, f, v)
           IN  /\ ButOverlay(e, s) /\ ButFields(e, s, {f})
               /\ WireValue(f, v) # Unfit =>
                      f \in DOMAIN s.overlay /\ s.overlay[f] = WireValue(f, v)
  <1>1. CASE WireValue(f, v) = Unfit
    BY <1>1 DEF Store, ButOverlay, ButFields
  <1>2. CASE WireValue(f, v) # Unfit
    <2> DEFINE new == [x \in {f} |-> WireValue(f, v)]
    <2>1. Store(e, f, v) = [e EXCEPT !.overlay = Merged(@, new)]
      BY <1>2 DEF Store
    <2>2. DOMAIN new = {f} /\ new[f] = WireValue(f, v)
      OBVIOUS
    <2> HIDE DEF new
    <2>3. /\ ButOverlay(e, Store(e, f, v)) /\ ButFields(e, Store(e, f, v), DOMAIN new)
          /\ \A x \in DOMAIN new : x \in DOMAIN Store(e, f, v).overlay
                                   /\ Store(e, f, v).overlay[x] = new[x]
      BY <2>1, OverlayMerged
    <2> QED BY <2>2, <2>3
  <1> QED BY <1>1, <1>2

\* A model stores in its outputs, and there what it reports when it fits.
LEMMA StoreOutputsKeeps ==
    ASSUME NEW e, IsEngine(e), NEW seen, NEW m, NEW reading
    PROVE  LET s == StoreOutputs(e, seen, m, reading)
               wire(f) == WireValue(f, Reported(seen, m, m.outputs[f], reading))
           IN  /\ ButOverlay(e, s) /\ ButFields(e, s, DOMAIN m.outputs)
               /\ \A f \in DOMAIN m.outputs : wire(f) # Unfit =>
                      f \in DOMAIN s.overlay /\ s.overlay[f] = wire(f)
  <1> DEFINE wire == [f \in DOMAIN m.outputs |->
                         WireValue(f, Reported(seen, m, m.outputs[f], reading))]
             new == [f \in {f \in DOMAIN m.outputs : wire[f] # Unfit} |-> wire[f]]
             s == StoreOutputs(e, seen, m, reading)
  <1>1. s = [e EXCEPT !.overlay = Merged(@, new)]
    BY DEF StoreOutputs
  <1>2. DOMAIN new = {f \in DOMAIN m.outputs : wire[f] # Unfit} /\ \A f \in DOMAIN new : new[f] = wire[f]
    OBVIOUS
  <1> HIDE DEF new, s
  <1>3. /\ ButOverlay(e, s) /\ ButFields(e, s, DOMAIN new)
        /\ \A f \in DOMAIN new : f \in DOMAIN s.overlay /\ s.overlay[f] = new[f]
    BY <1>1, OverlayMerged
  <1>4. ButFields(e, s, DOMAIN m.outputs)
    BY <1>2, <1>3 DEF ButFields
  <1>5. \A f \in DOMAIN m.outputs : wire[f] # Unfit =>
            f \in DOMAIN s.overlay /\ s.overlay[f] = wire[f]
    <2> HIDE DEF wire
    <2> QED BY <1>2, <1>3
  <1> QED BY <1>3, <1>4, <1>5 DEF s

-----------------------------------------------------------------------------
(***************************************************************************)
(* The last word on a field stands: nobody drives a field that was         *)
(* written, and its value is the written one; a driven field is driven by  *)
(* the verb of that word, or by the hold that a ramp ends in.              *)
(***************************************************************************)
StandsAt(e, f, w) ==
    IF w.by = "write"
    THEN /\ \A x \in Range(e.behaviors) : x.on # f
         /\ f \in DOMAIN e.overlay /\ e.overlay[f] = w.value
    ELSE \A x \in Range(e.behaviors) : x.on = f =>
             x.verb = w.by \/ (x.verb = "hold" /\ w.by = "ramp_to")

Stands(e, word) == \A f \in DOMAIN word : StandsAt(e, f, word[f])

\* Neither a behavior nor a word is on a field of a model.
Apart(e, word, owned) ==
    /\ \A x \in Range(e.behaviors) :
           {"on", "verb"} \subseteq DOMAIN x /\ x.verb \in Continuous /\ x.on \notin owned
    /\ DOMAIN word \cap owned = {}

InStep(e, word, owned) ==
    IsEngine(e) /\ Registry(e.behaviors) /\ Apart(e, word, owned) /\ Stands(e, word)

\* A store elsewhere leaves a word standing.
LEMMA StandsAfterStore ==
    ASSUME NEW e, NEW s, NEW f, NEW fields, f \notin fields, NEW w,
           ButOverlay(e, s), ButFields(e, s, fields), StandsAt(e, f, w)
    PROVE  StandsAt(s, f, w)
  BY DEF StandsAt, ButOverlay, ButFields

\* A store in fields of models disturbs nobody's word.
LEMMA InStepAfterStore ==
    ASSUME NEW e, NEW s, NEW word, NEW owned, NEW fields, fields \subseteq owned,
           ButOverlay(e, s), ButFields(e, s, fields), InStep(e, word, owned)
    PROVE  InStep(s, word, owned)
  <1>1. \A f \in DOMAIN word : f \notin fields /\ StandsAt(e, f, word[f])
    BY DEF InStep, Apart, Stands
  <1>2. \A f \in DOMAIN word : StandsAt(s, f, word[f])
    BY <1>1, StandsAfterStore
  <1> QED BY <1>2 DEF InStep, Apart, Stands, ButOverlay

\* A skipped effect disturbs nobody's word.
LEMMA SkippedInStep ==
    ASSUME NEW e, NEW owned, NEW key, InStep(e, e.word, owned)
    PROVE  InStep(Skipped(e, key), Skipped(e, key).word, owned)
  <1> DEFINE s == Skipped(e, key)
  <1>1. IsEngine(s) /\ s.behaviors = e.behaviors /\ s.overlay = e.overlay /\ s.word = e.word
    BY DEF InStep, IsEngine, Parts, Skipped
  <1> HIDE DEF s
  <1>2. \A f \in DOMAIN e.word : StandsAt(s, f, e.word[f])
    BY <1>1 DEF InStep, Stands, StandsAt
  <1> QED BY <1>1, <1>2 DEF InStep, Apart, Stands, s

\* A new word stands if it does on its field, and the others on theirs.
LEMMA AppliedInStep ==
    ASSUME NEW e, NEW owned, NEW key, NEW f, f \notin owned, NEW w,
           IsEngine(e), Registry(e.behaviors), Apart(e, e.word, owned),
           \A g \in DOMAIN e.word : g # f => StandsAt(e, g, e.word[g]),
           StandsAt(e, f, w)
    PROVE  InStep(Applied(e, key, f, w), Applied(e, key, f, w).word, owned)
  <1> DEFINE s == Applied(e, key, f, w)
             new == [x \in {f} |-> w]
  <1>1. /\ IsEngine(s) /\ s.behaviors = e.behaviors /\ s.overlay = e.overlay
        /\ s.word = Merged(e.word, new)
    BY DEF IsEngine, Parts, Applied
  <1>2. DOMAIN new = {f} /\ new[f] = w
    OBVIOUS
  <1> HIDE DEF s, new
  <1>3. /\ DOMAIN s.word = DOMAIN e.word \union {f} /\ s.word[f] = w
        /\ \A g \in DOMAIN e.word : g # f => s.word[g] = e.word[g]
    <2> DEFINE o == Merged(e.word, new)
    <2>1. /\ DOMAIN o = DOMAIN e.word \union DOMAIN new
          /\ \A x \in DOMAIN new : o[x] = new[x]
          /\ \A x \in DOMAIN e.word : x \notin DOMAIN new => o[x] = e.word[x]
      BY MergedFields, Zenon
    <2>2. s.word = o
      BY <1>1
    <2> HIDE DEF o
    <2> QED BY <1>2, <2>1, <2>2
  <1>4. \A g \in DOMAIN s.word : StandsAt(e, g, s.word[g])
    BY <1>3
  <1>5. Stands(s, s.word)
    BY <1>1, <1>4 DEF Stands, StandsAt
  <1>6. Apart(s, s.word, owned)
    BY <1>1, <1>3 DEF Apart
  <1> QED BY <1>1, <1>5, <1>6 DEF InStep, s

\* A behavior that starts takes its field over.
LEMMA StartedInStep ==
    ASSUME NEW e, NEW owned, NEW n, NEW c, NEW args, NEW f, f \notin owned,
           VerbOf(n.body) \in Continuous, InStep(e, e.word, owned)
    PROVE  InStep(Started(e, n, c, args, f), Started(e, n, c, args, f).word, owned)
  <1> DEFINE verb == VerbOf(n.body)
             s == Started(e, n, c, args, f)
  <1>1. CASE s = Skipped(e, n.key)
    BY <1>1, SkippedInStep
  <1>2. CASE s # Skipped(e, n.key)
    <2>1. PICK b : b.on = f /\ b.verb = verb /\ {"on", "verb"} \subseteq DOMAIN b
                   /\ s = Applied(With(e, b), n.key, f, [by |-> verb, value |-> Unfit])
      BY <1>2 DEF Started
    <2> DEFINE d == With(e, b)
               w == [by |-> verb, value |-> Unfit]
    <2>2. IsEngine(d) /\ d.word = e.word /\ d.overlay = e.overlay
      BY DEF With, InStep, IsEngine, Parts
    <2>3. /\ Registry(d.behaviors)
          /\ \A x : x \in Range(d.behaviors) <=>
                        x = b \/ (x \in Range(e.behaviors) /\ x.on # b.on)
      BY WithEntries DEF InStep
    <2> HIDE DEF d
    <2>4. Apart(d, d.word, owned)
      BY <2>1, <2>2, <2>3 DEF InStep, Apart
    <2>5. ASSUME NEW g \in DOMAIN d.word, g # f PROVE StandsAt(d, g, d.word[g])
      <3>1. StandsAt(e, g, e.word[g])
        BY <2>2, <2>5 DEF InStep, Stands
      <3> QED BY <3>1, <2>1, <2>2, <2>3, <2>5 DEF StandsAt
    <2>6. w.by = verb /\ verb # "write"
      <3>1. "write" \notin Continuous
        BY DEF Continuous, Verbs
      <3>2. verb # "write"
        BY <3>1
      <3> HIDE DEF verb
      <3> QED BY <3>2
    <2> HIDE DEF w
    <2>7. StandsAt(d, f, w)
      BY <2>1, <2>3, <2>6 DEF StandsAt
    <2>8. s = Applied(d, n.key, f, w)
      BY <2>1 DEF d, w
    <2> QED BY <2>2, <2>3, <2>4, <2>5, <2>7, <2>8, AppliedInStep
  <1> QED BY <1>1, <1>2

\* A write ends what drove its field.
LEMMA WroteInStep ==
    ASSUME NEW e, NEW owned, NEW n, NEW c, NEW args, NEW f, f \notin owned,
           InStep(e, e.word, owned)
    PROVE  InStep(Wrote(e, n, c, args, f), Wrote(e, n, c, args, f).word, owned)
  <1> DEFINE v == ValueFor(e, n, c, args, f)
             s == Wrote(e, n, c, args, f)
  <1>1. CASE s = Skipped(e, n.key)
    BY <1>1, SkippedInStep
  <1>2. CASE s # Skipped(e, n.key)
    <2> DEFINE a == Store(e, f, v)
               b == Without(a, f)
               d == [b EXCEPT !.pending = IF n.body.emit = "immediate"
                                          THEN @ \union {Telemetry[f].apid} ELSE @]
               w == [by |-> "write", value |-> WireValue(f, v)]
    <2>1. WireValue(f, v) # Unfit /\ s = Applied(d, n.key, f, w)
      BY <1>2 DEF Wrote, Displaced
    <2>2. /\ ButOverlay(e, a) /\ ButFields(e, a, {f})
          /\ f \in DOMAIN a.overlay /\ a.overlay[f] = WireValue(f, v)
      BY <2>1, StoreKeeps DEF InStep
    <2> HIDE DEF a, v
    <2>3. IsEngine(a) /\ Registry(a.behaviors)
      BY <2>2 DEF ButOverlay, InStep
    <2>4. IsEngine(b) /\ b.word = a.word /\ b.overlay = a.overlay
      BY <2>3 DEF Without, IsEngine, Parts
    <2>5. /\ Registry(b.behaviors)
          /\ \A x : x \in Range(b.behaviors) <=> x \in Range(a.behaviors) /\ x.on # f
      BY <2>3, WithoutEntries
    <2> HIDE DEF b
    <2>6. IsEngine(d) /\ d.word = b.word /\ d.overlay = b.overlay /\ d.behaviors = b.behaviors
      BY <2>4 DEF IsEngine, Parts
    <2> HIDE DEF d
    <2>7. d.word = e.word /\ a.behaviors = e.behaviors
      BY <2>2, <2>4, <2>6 DEF ButOverlay
    <2>8. Apart(d, d.word, owned)
      BY <2>5, <2>6, <2>7 DEF InStep, Apart
    <2>9. ASSUME NEW g \in DOMAIN d.word, g # f PROVE StandsAt(d, g, d.word[g])
      <3>1. StandsAt(a, g, e.word[g])
        BY <2>2, <2>7, <2>9, StandsAfterStore DEF InStep, Stands
      <3> QED BY <3>1, <2>4, <2>5, <2>6, <2>7 DEF StandsAt
    <2>10. w.by = "write" /\ w.value = WireValue(f, v)
      OBVIOUS
    <2> HIDE DEF w
    <2>11. StandsAt(d, f, w)
      BY <2>2, <2>4, <2>5, <2>6, <2>10 DEF StandsAt
    <2>12. Registry(d.behaviors)
      BY <2>5, <2>6
    <2> QED BY <2>1, <2>6, <2>8, <2>9, <2>11, <2>12, AppliedInStep
  <1> QED BY <1>1, <1>2

\* An effect takes the word for its own field, and disturbs no other.
LEMMA EffectInStep ==
    ASSUME NEW e, NEW owned, NEW n, NEW c, NEW args, InStep(e, e.word, owned)
    PROVE  InStep(Effect(e, n, c, args, owned), Effect(e, n, c, args, owned).word, owned)
  <1> DEFINE at == Resolved(n.key, c, args) \ owned
             f == CHOOSE x \in at : TRUE
  <1>1. CASE at = {}
    BY <1>1, SkippedInStep DEF Effect
  <1>2. CASE at # {}
    <2>1. f \in at
      BY <1>2
    <2>2. f \notin owned
      BY <2>1
    <2>3. Effect(e, n, c, args, owned) =
              IF VerbOf(n.body) \in Continuous THEN Started(e, n, c, args, f)
              ELSE Wrote(e, n, c, args, f)
      BY <1>2 DEF Effect
    <2> HIDE DEF at, f
    <2>4. CASE VerbOf(n.body) \in Continuous
      <3> QED BY <2>2, <2>3, <2>4, StartedInStep
    <2>5. CASE VerbOf(n.body) \notin Continuous
      BY <2>2, <2>3, <2>5, WroteInStep
    <2> QED BY <2>4, <2>5
  <1> QED BY <1>1, <1>2

\* So do all effects of a command in turn.
LEMMA EffectsInStep ==
    ASSUME NEW e, NEW owned, NEW S, NEW ns \in Seq(S), NEW c, NEW args, InStep(e, e.word, owned)
    PROVE  LET d == Effects(e, ns, c, args, owned) IN InStep(d, d.word, owned)
  <1>1. Len(ns) \in Nat
    BY LenProperties
  <1>0. PICK a : RunOfEffects(a, e, ns, c, args, owned)
    BY EffectsInTurn
  <1>2. /\ a[0] = e
        /\ \A i \in 1..Len(ns) : a[i] = Effect(a[i - 1], ns[i], c, args, owned)
        /\ Effects(e, ns, c, args, owned) = a[Len(ns)]
    BY <1>0 DEF RunOfEffects
  <1> DEFINE X == {i \in 0..Len(ns) : InStep(a[i], a[i].word, owned)}
  <1>3. 0 \in X
    BY <1>1, <1>2
  <1>4. ASSUME NEW i \in 0..(Len(ns) - 1), i \in X PROVE i + 1 \in X
    <2>1. i + 1 \in 1..Len(ns) /\ (i + 1) - 1 = i /\ i + 1 \in 0..Len(ns)
      BY <1>1
    <2>2. a[i + 1] = Effect(a[i], ns[i + 1], c, args, owned)
      BY <2>1, <1>2
    <2>3. InStep(a[i + 1], a[i + 1].word, owned)
      BY <1>4, <2>2, EffectInStep
    <2> QED BY <2>1, <2>3
  <1>5. Len(ns) \in X
    <2> HIDE DEF X
    <2>1. Len(ns) \in 0..Len(ns)
      BY <1>1
    <2> QED BY <1>1, <1>3, <1>4, <2>1, Climb
  <1> QED BY <1>2, <1>5

-----------------------------------------------------------------------------
(***************************************************************************)
(* In a tick a field keeps its value unless something drives it, and what  *)
(* drives it then drove it before, under the same verb or, for a hold,     *)
(* under the ramp that ended in it.                                        *)
(***************************************************************************)
Follows(x, b) ==
    /\ {"on", "verb"} \subseteq DOMAIN x /\ x.on = b.on
    /\ x.verb = b.verb \/ (x.verb = "hold" /\ b.verb = "ramp_to")

Continues(e, s) ==
    /\ IsEngine(s) /\ Registry(s.behaviors)
    /\ \A x \in Range(s.behaviors) : \E b \in Range(e.behaviors) : Follows(x, b)
    /\ ButFields(e, s, {b.on : b \in Range(e.behaviors)})

\* Storing the field of a behavior continues.
LEMMA ContinuesStored ==
    ASSUME NEW e, NEW s, Continues(e, s), NEW b \in Range(e.behaviors), NEW v
    PROVE  Continues(e, Store(s, b.on, v))
  <1> DEFINE t == Store(s, b.on, v)
  <1>1. ButOverlay(s, t) /\ ButFields(s, t, {b.on})
    BY StoreKeeps DEF Continues
  <1> HIDE DEF t
  <1>2. IsEngine(t) /\ t.behaviors = s.behaviors
    BY <1>1 DEF ButOverlay
  <1>3. ButFields(e, t, {x.on : x \in Range(e.behaviors)})
    BY <1>1 DEF Continues, ButFields
  <1>4. Continues(e, t)
    BY <1>2, <1>3 DEF Continues
  <1> QED BY <1>4 DEF t

\* A later stage of a behavior in its place continues.
LEMMA ContinuesWith ==
    ASSUME NEW e, NEW s, Continues(e, s), NEW b \in Range(e.behaviors), NEW x, Follows(x, b)
    PROVE  Continues(e, With(s, x))
  <1> DEFINE t == With(s, x)
  <1>1. IsEngine(t) /\ t.overlay = s.overlay
    BY DEF With, Continues, IsEngine, Parts
  <1>2. /\ Registry(t.behaviors)
        /\ \A y : y \in Range(t.behaviors) <=>
                      y = x \/ (y \in Range(s.behaviors) /\ y.on # x.on)
    BY WithEntries DEF Continues
  <1> HIDE DEF t
  <1>3. Continues(e, t)
    BY <1>1, <1>2 DEF Continues, ButFields
  <1> QED BY <1>3 DEF t

\* Dropping a behavior continues.
LEMMA ContinuesWithout ==
    ASSUME NEW e, NEW s, Continues(e, s), NEW f
    PROVE  Continues(e, Without(s, f))
  <1> DEFINE t == Without(s, f)
  <1>1. IsEngine(t) /\ t.overlay = s.overlay
    BY DEF Without, Continues, IsEngine, Parts
  <1>2. /\ Registry(t.behaviors)
        /\ \A y : y \in Range(t.behaviors) <=> y \in Range(s.behaviors) /\ y.on # f
    BY WithoutEntries DEF Continues
  <1> HIDE DEF t
  <1>3. Continues(e, t)
    BY <1>1, <1>2 DEF Continues, ButFields
  <1> QED BY <1>3 DEF t

\* Emitting for a behavior continues.
LEMMA ContinuesEmitted ==
    ASSUME NEW e, NEW s, Continues(e, s), NEW b \in Range(e.behaviors), NEW d, NEW n
    PROVE  Continues(e, Emitted(s, b, d, n))
  BY ContinuesStored DEF Emitted

\* Whatever its verb, an advance continues.
LEMMA ContinuesAdvanced ==
    ASSUME NEW e, NEW s, Continues(e, s), NEW b \in Range(e.behaviors), NEW d,
           {"on", "verb"} \subseteq DOMAIN b
    PROVE  Continues(e, AdvanceHold(s, b, d)) /\ Continues(e, AdvanceOscillate(s, b, d))
           /\ (b.verb = "ramp_to" => Continues(e, AdvanceRamp(s, b, d)))
           /\ Continues(e, AdvanceRegulate(s, b, d))
  <1>1. Continues(e, AdvanceHold(s, b, d))
    BY ContinuesEmitted DEF AdvanceHold
  <1>2. Continues(e, AdvanceOscillate(s, b, d))
    BY ContinuesEmitted DEF AdvanceOscillate
  <1>3. ASSUME b.verb = "ramp_to" PROVE Continues(e, AdvanceRamp(s, b, d))
    <2> DEFINE target == Number(s, b.ref)
               from == IF b.seeded THEN b.value ELSE Current(s, b.on)
               to == Between(from, target, d.to)
               x == [b EXCEPT !.seeded = TRUE, !.value = to]
               y == [b EXCEPT !.verb = "hold", !.seeded = FALSE, !.value = 0,
                              !.ref = [at |-> NoName, num |-> target]]
               moved == Emitted(With(s, x), b, d, to)
               landed == Store(moved, b.on, Num(target))
    <2>1. AdvanceRamp(s, b, d) \in {s, moved, With(landed, y), Without(landed, b.on)}
      BY DEF AdvanceRamp
    <2> HIDE DEF target, from, to
    <2>2. Follows(x, b) /\ Follows(y, b)
      BY <1>3 DEF Follows
    <2> HIDE DEF x, y
    <2>3. Continues(e, moved)
      BY <2>2, ContinuesWith, ContinuesEmitted
    <2> HIDE DEF moved
    <2>4. Continues(e, landed)
      BY <2>3, ContinuesStored
    <2> HIDE DEF landed
    <2>5. Continues(e, With(landed, y)) /\ Continues(e, Without(landed, b.on))
      BY <2>2, <2>4, ContinuesWith, ContinuesWithout
    <2> QED BY <2>1, <2>3, <2>5
  <1>4. Continues(e, AdvanceRegulate(s, b, d))
    <2> DEFINE center == Number(s, b.ref)
               r == IF b.seeded THEN b
                    ELSE [b EXCEPT !.seeded = TRUE, !.value = Current(s, b.on),
                                   !.element = Current(s, b.on) < center]
               side == IF r.element THEN r.heats ELSE r.cools
               to == Between(r.value, Number(s, side), d.to)
               element == IF r.element THEN to < center + 1 ELSE to <= center - 1
               x == [r EXCEPT !.value = to, !.element = element]
    <2>1. AdvanceRegulate(s, b, d) \in {s, With(s, r), Emitted(With(s, x), b, d, to)}
      BY DEF AdvanceRegulate
    <2> HIDE DEF center
    <2>2. Follows(r, b)
      BY DEF Follows
    <2> HIDE DEF r, side, to, element
    <2>3. Follows(x, b)
      BY <2>2 DEF Follows
    <2> HIDE DEF x
    <2>4. Continues(e, With(s, r)) /\ Continues(e, With(s, x))
      BY <2>2, <2>3, ContinuesWith
    <2>5. Continues(e, Emitted(With(s, x), b, d, to))
      BY <2>4, ContinuesEmitted
    <2> QED BY <2>1, <2>4, <2>5
  <1> QED BY <1>1, <1>2, <1>3, <1>4

\* A verb of the registry is one of the four.
LEMMA AllAdvanced ==
    ASSUME NEW e, IsEngine(e), Registry(e.behaviors), NEW draw,
           \A x \in Range(e.behaviors) :
               {"on", "verb"} \subseteq DOMAIN x /\ x.verb \in Continuous
    PROVE  Continues(e, AdvanceAll(e, draw))
  <1> DEFINE bs == e.behaviors
  <1>1. bs \in Seq(Range(bs))
    BY DEF Registry
  <1>2. Len(bs) \in Nat /\ DOMAIN bs = 1..Len(bs)
    BY <1>1, LenProperties
  <1>3. PICK a : RunOfBehaviors(a, e, draw)
    BY <1>1, BehaviorsInTurn
  <1>4. /\ a[0] = e
        /\ \A i \in 1..Len(bs) : a[i] = Advance(a[i - 1], bs[i], draw[bs[i].on])
        /\ AdvanceAll(e, draw) = a[Len(bs)]
    BY <1>3 DEF RunOfBehaviors
  <1> DEFINE X == {i \in 0..Len(bs) : Continues(e, a[i])}
  <1>5. 0 \in X
    <2>1. Continues(e, e)
      BY DEF Continues, Follows, ButFields
    <2> QED BY <2>1, <1>2, <1>4
  <1>6. ASSUME NEW i \in 0..(Len(bs) - 1), i \in X PROVE i + 1 \in X
    <2>1. i + 1 \in 1..Len(bs) /\ (i + 1) - 1 = i /\ i + 1 \in 0..Len(bs)
      BY <1>2
    <2> DEFINE b == bs[i + 1]
               d == draw[b.on]
    <2>2. a[i + 1] = Advance(a[i], b, d)
      BY <2>1, <1>4
    <2>3. b \in Range(bs)
      BY <1>2, <2>1, RangeIs
    <2> HIDE DEF b, d
    <2>4. {"on", "verb"} \subseteq DOMAIN b /\ b.verb \in Continuous
      BY <2>3
    <2>5. b.verb \in {"hold", "oscillate", "ramp_to", "regulate"}
      BY <2>4 DEF Continuous, Verbs, VerbIs
    <2>6. Continues(e, a[i])
      BY <1>6
    <2>7. Continues(e, Advance(a[i], b, d))
      BY <2>3, <2>4, <2>5, <2>6, ContinuesAdvanced DEF Advance
    <2> QED BY <2>1, <2>2, <2>7
  <1>7. Len(bs) \in X
    <2> HIDE DEF X
    <2>1. Len(bs) \in 0..Len(bs)
      BY <1>2
    <2> QED BY <1>2, <1>5, <1>6, <2>1, Climb
  <1> QED BY <1>4, <1>7

-----------------------------------------------------------------------------
(***************************************************************************)
(* What the files of a satellite make when they load.                      *)
(***************************************************************************)
\* The entries of a table are those of its files.
LEMMA EntriesAreOfFiles ==
    ASSUME NEW files \in Sidecars, NEW table
    PROVE  LET ns == Entries(files, table)
           IN  /\ ns \in Seq(Range(ns))
               /\ \A n \in Range(ns) : \E i \in DOMAIN files :
                      table \in DOMAIN files[i].tables /\ n \in Range(files[i].tables[table])
  <1> DEFINE rows(i) == Rows(files[i], table)
             S == UNION {Range(rows(i)) : i \in DOMAIN files}
             ss == [i \in DOMAIN files |-> rows(i)]
  <1>1. files \in Seq(Range(files))
        /\ \A i \in DOMAIN files : table \in DOMAIN files[i].tables =>
               files[i].tables[table] \in Seq(Range(files[i].tables[table]))
    BY SidecarAssumption
  <1>2. Len(files) \in Nat /\ DOMAIN files = 1..Len(files)
    BY <1>1, LenProperties
  <1>3. ASSUME NEW i \in DOMAIN files PROVE rows(i) \in Seq(S)
    <2>1. rows(i) \in Seq(Range(rows(i)))
      <3>1. CASE table \in DOMAIN files[i].tables
        BY <3>1, <1>1 DEF Rows
      <3>2. CASE table \notin DOMAIN files[i].tables
        <4>1. rows(i) = <<>>
          BY <3>2 DEF Rows
        <4> QED BY <4>1
      <3> QED BY <3>1, <3>2
    <2> HIDE DEF rows
    <2>2. Range(rows(i)) \subseteq S
      OBVIOUS
    <2> QED BY <2>1, <2>2, SeqMonotonic
  <1> HIDE DEF rows, S
  <1>4. ss \in [1..Len(files) -> Seq(S)]
    BY <1>2, <1>3
  <1>5. ss \in Seq(Seq(S)) /\ DOMAIN ss = DOMAIN files
    BY <1>2, <1>4, SeqDef
  <1>6. Entries(files, table) = FlattenSeq(ss)
    BY DEF Entries, rows
  <1>7. /\ FlattenSeq(ss) \in Seq(S)
        /\ \A x \in Range(FlattenSeq(ss)) : \E i \in DOMAIN ss : x \in Range(ss[i])
    BY <1>5, FlattenElements
  <1>8. ASSUME NEW n \in Range(FlattenSeq(ss))
        PROVE  \E i \in DOMAIN files :
                   table \in DOMAIN files[i].tables /\ n \in Range(files[i].tables[table])
    <2>1. PICK i \in DOMAIN files : n \in Range(rows(i))
      BY <1>5, <1>7
    <2>2. table \in DOMAIN files[i].tables
      BY <2>1, RangeIs DEF rows, Rows
    <2> QED BY <2>1, <2>2 DEF rows, Rows
  <1> HIDE DEF ss
  <1> QED BY <1>6, <1>7, <1>8, SeqInRange

\* The order of the engine has every model once.
LEMMA OrderPicks ==
    ASSUME NEW S, NEW models \in Seq(S)
    PROVE  InOrder(models) \in Seq(S) /\ PicksFrom(InOrder(models), models)
  <1>1. Len(models) \in Nat /\ DOMAIN models = 1..Len(models)
        /\ \A i \in DOMAIN models : models[i] \in S
    BY LenProperties, ElementOfSeq
  <1> DEFINE ones(k) == [i \in DOMAIN models |-> IF models[i].kind = k THEN <<models[i]>> ELSE <<>>]
             kind(k) == FlattenSeq(ones(k))
  <1>2. ASSUME NEW k
        PROVE  /\ kind(k) \in Seq(S) /\ PicksFrom(kind(k), models)
               /\ \A x \in Range(kind(k)) : x.kind = k
    <2> DEFINE ss == ones(k)
    <2>1. \A i \in DOMAIN models :
              ss[i] = <<>> \/ (ss[i] = <<models[i]>> /\ models[i].kind = k)
      <3> TAKE i \in DOMAIN models
      <3>1. ss[i] = IF models[i].kind = k THEN <<models[i]>> ELSE <<>>
        OBVIOUS
      <3> HIDE DEF ss
      <3> QED BY <3>1
    <2>2. \A i \in DOMAIN models : ss[i] \in Seq(S)
      <3> TAKE i \in DOMAIN models
      <3>1. <<>> \in Seq(S) /\ <<models[i]>> \in Seq(S)
        BY <1>1
      <3> QED BY <2>1, <3>1
    <2>3. ss = [i \in DOMAIN models |-> ss[i]]
      OBVIOUS
    <2> HIDE DEF ss
    <2>4. ss \in [1..Len(models) -> Seq(S)]
      BY <1>1, <2>2, <2>3
    <2>5. ss \in Seq(Seq(S)) /\ DOMAIN ss = DOMAIN models
      BY <1>1, <2>4, SeqDef
    <2>6. Len(ss) = Len(models)
      BY <1>1, <2>5, LenProperties
    <2>7. PicksFrom(FlattenSeq(ss), models)
      BY <2>1, <2>5, <2>6, FlattenPicks
    <2>8. /\ FlattenSeq(ss) \in Seq(S)
          /\ \A x \in Range(FlattenSeq(ss)) : \E i \in DOMAIN ss : x \in Range(ss[i])
      BY <2>5, FlattenElements
    <2>9. ASSUME NEW x \in Range(FlattenSeq(ss)) PROVE x.kind = k
      <3>1. PICK i \in DOMAIN models : x \in Range(ss[i])
        BY <2>5, <2>8
      <3>2. PICK j \in DOMAIN ss[i] : ss[i][j] = x
        BY <3>1, RangeIs
      <3>3. ss[i] # <<>>
        BY <3>2
      <3>4. ss[i] = <<models[i]>> /\ models[i].kind = k
        BY <2>1, <3>3
      <3>5. j = 1
        BY <3>2, <3>4
      <3> QED BY <3>2, <3>4, <3>5
    <2> QED BY <2>7, <2>8, <2>9 DEF ss
  <1> HIDE DEF kind
  <1> DEFINE a == kind("adcs") \o kind("power")
  <1>3. /\ a \in Seq(S) /\ Range(a) = Range(kind("adcs")) \union Range(kind("power"))
        /\ PicksFrom(a, models)
    <2>1. \A x \in Range(kind("adcs")), y \in Range(kind("power")) : x # y
      BY <1>2
    <2> QED BY <2>1, <1>2, ConcatElements, ConcatPicks
  <1> HIDE DEF a
  <1>4. a \o kind("nav") \in Seq(S) /\ PicksFrom(a \o kind("nav"), models)
    <2>1. \A x \in Range(a), y \in Range(kind("nav")) : x # y
      BY <1>2, <1>3
    <2> QED BY <2>1, <1>2, <1>3, ConcatElements, ConcatPicks
  <1> QED BY <1>4 DEF InOrder, a, kind

(***************************************************************************)
(* What the engine is built from.                                          *)
(***************************************************************************)
IsSpec(bs) == \E files \in Sidecars : Loads(files) /\ bs = Parsed(files)

\* Its models are sound, and no two of them write one field.
LEMMA SpecModels ==
    ASSUME NEW bs, IsSpec(bs)
    PROVE  /\ bs.models \in Seq(Range(bs.models))
           /\ \A i \in DOMAIN bs.models :
                  ModelSound(bs.models[i]) /\ DOMAIN bs.models[i].outputs \subseteq bs.owned
           /\ \A i, j \in DOMAIN bs.models : i # j =>
                  DOMAIN bs.models[i].outputs \cap DOMAIN bs.models[j].outputs = {}
  <1>1. PICK files \in Sidecars : Loads(files) /\ bs = Parsed(files)
    BY DEF IsSpec
  <1> DEFINE ns == Entries(files, "_models")
             models == Models(files)
             S == Range(models)
  <1>2. /\ ns \in Seq(Range(ns))
        /\ \A n \in Range(ns) : \E i \in DOMAIN files :
               "_models" \in DOMAIN files[i].tables /\ n \in Range(files[i].tables["_models"])
    BY EntriesAreOfFiles
  <1>3. models = [i \in DOMAIN ns |-> ns[i].body]
    BY DEF Models
  <1>4. /\ OwnersAreUnique(models) /\ bs.models = InOrder(models) /\ bs.owned = Owned(models)
        /\ \A n \in Range(ns) : ModelSound(n.body)
    <2>1. \A n : EntrySound("_models", n) => ModelSound(n.body)
      BY DEF EntrySound, Signals
    <2>2. \A i \in DOMAIN files : \A table \in DOMAIN files[i].tables :
              \A n \in Range(files[i].tables[table]) : EntrySound(table, n)
      BY <1>1 DEF Loads
    <2>3. \A n \in Range(ns) : EntrySound("_models", n)
      BY <1>2, <2>2
    <2> HIDE DEF ns, models
    <2> QED BY <1>1, <2>1, <2>3 DEF Loads, Parsed, models
  <1> HIDE DEF ns, models
  <1>5. Len(ns) \in Nat /\ DOMAIN ns = 1..Len(ns) /\ DOMAIN models = DOMAIN ns
    BY <1>2, <1>3, LenProperties
  <1>6. models \in Seq(S)
    <2>1. \A i \in DOMAIN models : models[i] \in S
      BY RangeIs
    <2>2. models \in [1..Len(ns) -> S]
      BY <1>3, <1>5, <2>1
    <2> QED BY <1>5, <2>2, SeqDef
  <1>7. \A i \in DOMAIN models : ModelSound(models[i])
    BY <1>3, <1>4, <1>5, RangeIs
  <1>8. PICK p : Picks(p, bs.models, models)
    BY <1>4, <1>6, OrderPicks DEF PicksFrom
  <1>9. bs.models \in Seq(Range(bs.models))
    BY <1>4, <1>6, OrderPicks, SeqInRange
  <1>10. \A i \in DOMAIN bs.models : DOMAIN bs.models[i].outputs \subseteq bs.owned
    BY <1>4, <1>8 DEF Picks, Owned
  <1>11. \A i \in DOMAIN bs.models : ModelSound(bs.models[i])
    BY <1>7, <1>8 DEF Picks
  <1>12. ASSUME NEW i \in DOMAIN bs.models, NEW j \in DOMAIN bs.models, i # j
         PROVE  DOMAIN bs.models[i].outputs \cap DOMAIN bs.models[j].outputs = {}
    <2>1. p[i] \in DOMAIN models /\ p[j] \in DOMAIN models /\ p[i] # p[j]
          /\ models[p[i]] = bs.models[i] /\ models[p[j]] = bs.models[j]
      BY <1>8, <1>12 DEF Picks
    <2> QED BY <2>1, <1>4 DEF OwnersAreUnique
  <1> QED BY <1>9, <1>10, <1>11, <1>12

\* Signals and effects are sequences.
LEMMA SpecEffects ==
    ASSUME NEW bs, IsSpec(bs)
    PROVE  /\ bs.signals \in Seq(Range(bs.signals))
           /\ \A c \in DOMAIN CommandDefs : bs.commands[c] \in Seq(Range(bs.commands[c]))
  <1>1. PICK files \in Sidecars : Loads(files) /\ bs = Parsed(files)
    BY DEF IsSpec
  <1>2. \A table : Entries(files, table) \in Seq(Range(Entries(files, table)))
    BY EntriesAreOfFiles
  <1>3. <<>> \in Seq(Range(<<>>))
    OBVIOUS
  <1>4. bs.signals = Entries(files, Signals)
        /\ \A c \in DOMAIN CommandDefs :
               bs.commands[c] = IF c \in Reserved THEN <<>> ELSE Entries(files, c)
    BY <1>1 DEF Parsed
  <1> QED BY <1>2, <1>3, <1>4

-----------------------------------------------------------------------------
(***************************************************************************)
(* In every state the last word stands on every field, under a registry of *)
(* one behavior per field, and no field of a model is in either.           *)
(***************************************************************************)
EngineInv ==
    IsSpec(spec) /\ InStep(engine, lastWord, spec.owned) /\ engine.skipped = {}

\* A tick of the behaviors leaves the words standing.
LEMMA InStepContinued ==
    ASSUME NEW e, NEW s, NEW word, NEW owned, InStep(e, word, owned), Continues(e, s)
    PROVE  InStep(s, word, owned)
  <1>1. ASSUME NEW x \in Range(s.behaviors)
        PROVE  {"on", "verb"} \subseteq DOMAIN x /\ x.verb \in Continuous /\ x.on \notin owned
    <2>1. PICK b \in Range(e.behaviors) : Follows(x, b)
      BY DEF Continues
    <2>2. b.verb \in Continuous /\ b.on \notin owned
      BY DEF InStep, Apart
    <2>3. "hold" \in Continuous
      BY DEF Continuous, Verbs, VerbIs
    <2> QED BY <2>1, <2>2, <2>3 DEF Follows
  <1>2. ASSUME NEW f \in DOMAIN word PROVE StandsAt(s, f, word[f])
    <2>1. StandsAt(e, f, word[f])
      BY DEF InStep, Stands
    <2>2. \A x \in Range(s.behaviors) : \E b \in Range(e.behaviors) : Follows(x, b)
      BY DEF Continues
    <2>3. CASE word[f].by = "write"
      <3>1. /\ \A b \in Range(e.behaviors) : b.on # f
            /\ f \in DOMAIN e.overlay /\ e.overlay[f] = word[f].value
        BY <2>1, <2>3 DEF StandsAt
      <3>2. f \in DOMAIN s.overlay /\ s.overlay[f] = e.overlay[f]
        BY <3>1 DEF Continues, ButFields
      <3>3. \A x \in Range(s.behaviors) : x.on # f
        BY <2>2, <3>1 DEF Follows
      <3> QED BY <2>3, <3>1, <3>2, <3>3 DEF StandsAt
    <2>4. CASE word[f].by # "write"
      <3>1. \A b \in Range(e.behaviors) : b.on = f =>
                b.verb = word[f].by \/ (b.verb = "hold" /\ word[f].by = "ramp_to")
        BY <2>1, <2>4 DEF StandsAt
      <3>2. ASSUME NEW x \in Range(s.behaviors), x.on = f
            PROVE  x.verb = word[f].by \/ (x.verb = "hold" /\ word[f].by = "ramp_to")
        <4>1. PICK b \in Range(e.behaviors) : Follows(x, b)
          BY <2>2
        <4>2. b.on = f
          BY <3>2, <4>1 DEF Follows
        <4> QED BY <3>1, <4>1, <4>2 DEF Follows
      <3> QED BY <2>4, <3>2 DEF StandsAt
    <2> QED BY <2>3, <2>4
  <1> QED BY <1>1, <1>2 DEF InStep, Continues, Apart, Stands

\* So do the models, which store into fields of their own.
LEMMA InStepModels ==
    ASSUME NEW bs, IsSpec(bs), NEW e, NEW word, InStep(e, word, bs.owned), NEW live, NEW reading
    PROVE  LET s == StoreModels(e, bs.models, live, reading)
           IN  InStep(s, word, bs.owned) /\ s.word = e.word
  <1> DEFINE models == bs.models
             n == Len(models)
  <1>1. n \in Nat /\ DOMAIN models = 1..n /\ models \in Seq(Range(models))
        /\ \A i \in 1..n : DOMAIN models[i].outputs \subseteq bs.owned
    BY SpecModels, LenProperties
  <1>2. PICK a : RunOfModels(a, models, e, live, reading)
    BY <1>1, ModelsInTurn
  <1>3. /\ a[0] = e
        /\ \A i \in 1..n :
               a[i] = StoreOutputs(a[i - 1], IF live THEN a[i - 1] ELSE e, models[i], reading)
        /\ StoreModels(e, models, live, reading) = a[n]
    BY <1>2 DEF RunOfModels
  <1> DEFINE Good(i) == InStep(a[i], word, bs.owned) /\ a[i].word = e.word
             X == {i \in 0..n : Good(i)}
  <1>4. 0 \in X
    BY <1>1, <1>3
  <1>5. ASSUME NEW i \in 0..(n - 1), i \in X PROVE i + 1 \in X
    <2>1. i + 1 \in 1..n /\ (i + 1) - 1 = i /\ i + 1 \in 0..n
      BY <1>1
    <2>2. PICK seen : a[i + 1] = StoreOutputs(a[i], seen, models[i + 1], reading)
      BY <2>1, <1>3
    <2>3. InStep(a[i], word, bs.owned) /\ a[i].word = e.word
      BY <1>5
    <2>4. ButOverlay(a[i], a[i + 1]) /\ ButFields(a[i], a[i + 1], DOMAIN models[i + 1].outputs)
      BY <2>2, <2>3, StoreOutputsKeeps DEF InStep
    <2>5. DOMAIN models[i + 1].outputs \subseteq bs.owned
      BY <1>1, <2>1
    <2>6. InStep(a[i + 1], word, bs.owned)
      BY <2>3, <2>4, <2>5, InStepAfterStore
    <2> QED BY <2>1, <2>3, <2>4, <2>6 DEF ButOverlay
  <1>6. n \in X
    <2> HIDE DEF X
    <2>1. n \in 0..n
      BY <1>1
    <2> QED BY <1>1, <1>4, <1>5, <2>1, Climb
  <1> QED BY <1>3, <1>6

\* The bookkeeping of a call is not of the engine.
LEMMA InStepSame ==
    ASSUME NEW e, NEW s, NEW word, NEW owned, InStep(e, word, owned),
           IsEngine(s), s.behaviors = e.behaviors, s.overlay = e.overlay
    PROVE  InStep(s, word, owned)
  <1>1. \A f \in DOMAIN word : StandsAt(s, f, word[f])
    BY DEF InStep, Stands, StandsAt
  <1> QED BY <1>1 DEF InStep, Apart, Stands

\* What is kept between two steps: all but the skipped keys.
LEMMA InStepKept ==
    ASSUME NEW e, NEW word, NEW owned, InStep(e, word, owned)
    PROVE  /\ InStep(Kept(e), word, owned) /\ InStep(Kept(e), NoWord, owned)
           /\ Kept(e).skipped = {}
  <1>1. IsEngine(Kept(e)) /\ Kept(e).behaviors = e.behaviors /\ Kept(e).overlay = e.overlay
        /\ Kept(e).skipped = {}
    BY DEF InStep, IsEngine, Parts, Kept
  <1>2. InStep(Kept(e), word, owned)
    BY <1>1, InStepSame
  <1>3. DOMAIN NoWord = {}
    BY DEF NoWord
  <1> QED BY <1>1, <1>2, <1>3 DEF InStep, Apart, Stands

\* An engine that is built has nobody's word to keep.
LEMMA BuiltInStep ==
    ASSUME NEW bs, IsSpec(bs), NEW reading
    PROVE  InStep(Kept(Built(bs, reading)), NoWord, bs.owned)
           /\ Kept(Built(bs, reading)).skipped = {}
  <1> DEFINE blank == [Blank EXCEPT !.overlay = Initial(bs.initial),
                                    !.wheelAmps = reading["wheelAmps"].num]
             booted == Effects(blank, bs.signals, Signals, <<>>, bs.owned)
             built == StoreModels(booted, bs.models, FALSE, reading)
  <1>1. IsEngine(blank) /\ blank.behaviors = <<>> /\ blank.word = NoWord
    BY DEF Blank, IsEngine, Parts
  <1>2. InStep(blank, blank.word, bs.owned)
    <2> HIDE DEF blank
    <2>1. DOMAIN NoWord = {} /\ Range(<<>>) = {} /\ <<>> \in Seq({})
      BY RangeIs DEF NoWord
    <2>2. Registry(blank.behaviors)
      BY <1>1, <2>1 DEF Registry
    <2> QED BY <1>1, <2>1, <2>2 DEF InStep, Apart, Stands
  <1> HIDE DEF blank
  <1>3. bs.signals \in Seq(Range(bs.signals))
    BY SpecEffects
  <1>4. InStep(booted, booted.word, bs.owned)
    BY <1>2, <1>3, EffectsInStep
  <1> HIDE DEF booted
  <1>5. InStep(built, booted.word, bs.owned)
    BY <1>4, InStepModels
  <1> HIDE DEF built
  <1>6. Built(bs, reading) = built
    BY DEF Built, built, booted, blank
  <1> QED BY <1>5, <1>6, InStepKept

\* What a command does: the model that consumes it stores, then the effects.
EffectsFrom(e, m) ==
    LET done == Effects(e, spec.commands[m.name], m.name, m.args, spec.owned)
    IN  /\ engine' = Kept(done) /\ lastWord' = done.word /\ spec' = spec
        /\ told' = [command |-> m.name, args |-> m.args,
                    applied |-> done.applied, skipped |-> done.skipped, ticked |-> FALSE]

\* A command applies its effects to an engine that is in step: what its
\* model stored for it first is in fields of the model.
LEMMA CommandDoes ==
    ASSUME EngineInv, NEW m \in Commanded, NEW accepted \in BOOLEAN, NEW reading,
           accepted => Consumers(m.name) # {}, ApplyCommand(m, accepted, reading)
    PROVE  \E e : InStep(e, e.word, spec.owned) /\ e.skipped = {} /\ EffectsFrom(e, m)
  <1> DEFINE fresh == [engine EXCEPT !.pending = {}, !.word = lastWord]
             cfg == spec.models[CHOOSE i \in Consumers(m.name) : TRUE]
             stored == StoreOutputs(fresh, fresh, cfg, reading)
             steered == IF ~accepted THEN fresh
                        ELSE [stored EXCEPT
                                 !.pending = @ \union {Telemetry[f].apid : f \in DOMAIN cfg.outputs}]
  <1>1. EffectsFrom(steered, m)
    BY DEF ApplyCommand, EffectsFrom
  <1>2. IsEngine(fresh) /\ fresh.behaviors = engine.behaviors /\ fresh.overlay = engine.overlay
        /\ fresh.word = lastWord /\ fresh.skipped = {}
    BY DEF EngineInv, InStep, IsEngine, Parts
  <1> HIDE DEF fresh
  <1>3. InStep(fresh, fresh.word, spec.owned)
    BY <1>2, InStepSame DEF EngineInv
  <1>4. CASE accepted
    <2>1. DOMAIN cfg.outputs \subseteq spec.owned
      BY <1>4, SpecModels DEF EngineInv, Consumers
    <2> HIDE DEF cfg
    <2>2. ButOverlay(fresh, stored) /\ ButFields(fresh, stored, DOMAIN cfg.outputs)
      BY <1>2, StoreOutputsKeeps
    <2>3. InStep(stored, fresh.word, spec.owned)
      BY <1>3, <2>1, <2>2, InStepAfterStore
    <2>4. IsEngine(stored) /\ stored.word = fresh.word /\ stored.skipped = {}
      BY <1>2, <2>2 DEF ButOverlay
    <2> HIDE DEF stored
    <2>5. /\ IsEngine(steered) /\ steered.behaviors = stored.behaviors
          /\ steered.overlay = stored.overlay /\ steered.word = stored.word
          /\ steered.skipped = {}
      BY <1>4, <2>4 DEF IsEngine, Parts
    <2> HIDE DEF steered
    <2>6. InStep(steered, steered.word, spec.owned)
      BY <2>3, <2>4, <2>5, InStepSame
    <2> QED BY <1>1, <2>5, <2>6
  <1>5. CASE ~accepted
    <2>1. steered = fresh
      BY <1>5
    <2> QED BY <1>1, <1>2, <1>3, <2>1
  <1> QED BY <1>4, <1>5

\* A command keeps the invariant.
LEMMA CommandInStep ==
    ASSUME EngineInv, NEW m \in Commanded, NEW accepted \in BOOLEAN, NEW reading,
           accepted => Consumers(m.name) # {}, ApplyCommand(m, accepted, reading)
    PROVE  EngineInv'
  <1>1. PICK e : InStep(e, e.word, spec.owned) /\ EffectsFrom(e, m)
    BY CommandDoes
  <1> DEFINE done == Effects(e, spec.commands[m.name], m.name, m.args, spec.owned)
  <1>2. engine' = Kept(done) /\ lastWord' = done.word /\ spec' = spec
    BY <1>1 DEF EffectsFrom
  <1>3. spec.commands[m.name] \in Seq(Range(spec.commands[m.name]))
    BY SpecEffects, BehaviorAssumption DEF EngineInv
  <1>4. InStep(done, done.word, spec.owned)
    BY <1>1, <1>3, EffectsInStep
  <1> HIDE DEF done
  <1> QED BY <1>2, <1>4, InStepKept DEF EngineInv

\* A tick keeps the invariant: behaviors advance on their own fields, models
\* store in theirs.
LEMMA TickInStep ==
    ASSUME EngineInv, NEW draw, NEW reading, Tick(draw, reading)
    PROVE  EngineInv'
  <1> DEFINE a == AdvanceAll(engine, draw)
             b == [a EXCEPT !.wheelAmps = reading["wheelAmps"].num]
             c == StoreModels(b, spec.models, TRUE, reading)
  <1>1. engine' = Kept(c) /\ spec' = spec /\ lastWord' = lastWord
    BY DEF Tick, Ticked, AdvanceModels
  <1>2. Continues(engine, a)
    BY AllAdvanced DEF EngineInv, InStep, Apart
  <1> HIDE DEF a
  <1>3. InStep(a, lastWord, spec.owned)
    BY <1>2, InStepContinued DEF EngineInv
  <1>4. IsEngine(b) /\ b.behaviors = a.behaviors /\ b.overlay = a.overlay
    BY <1>3 DEF InStep, IsEngine, Parts
  <1> HIDE DEF b
  <1>5. InStep(b, lastWord, spec.owned)
    BY <1>3, <1>4, InStepSame
  <1>6. InStep(c, lastWord, spec.owned)
    BY <1>5, InStepModels DEF EngineInv
  <1> HIDE DEF c
  <1> QED BY <1>1, <1>6, InStepKept DEF EngineInv

\* Every state of the engine is in step.
LEMMA EngineInvariance == BehaviorSpec => []EngineInv
  <1>1. BehaviorInit => EngineInv
    <2> SUFFICES ASSUME BehaviorInit PROVE EngineInv
      OBVIOUS
    <2>1. IsSpec(spec) /\ lastWord = NoWord
      BY DEF BehaviorInit, IsSpec
    <2>2. PICK reading \in Readings : engine = Kept(Built(spec, reading))
      BY DEF BehaviorInit
    <2> QED BY <2>1, <2>2, BuiltInStep DEF EngineInv
  <1>2. EngineInv /\ [BehaviorNext]_behaviorVars => EngineInv'
    <2> SUFFICES ASSUME EngineInv, [BehaviorNext]_behaviorVars PROVE EngineInv'
      OBVIOUS
    <2>1. CASE \E m \in Commanded, accepted \in BOOLEAN, reading \in Readings :
                   (accepted => Consumers(m.name) # {}) /\ ApplyCommand(m, accepted, reading)
      BY <2>1, CommandInStep
    <2>2. CASE \E draw \in [Driven -> Draws], reading \in Readings : Tick(draw, reading)
      BY <2>2, TickInStep
    <2>3. CASE PopImmediateApids
      <3>1. engine' = [engine EXCEPT !.pending = {}] /\ spec' = spec /\ lastWord' = lastWord
        BY <2>3 DEF PopImmediateApids
      <3>2. IsEngine(engine') /\ engine'.behaviors = engine.behaviors
            /\ engine'.overlay = engine.overlay /\ engine'.skipped = {}
        BY <3>1 DEF EngineInv, InStep, IsEngine, Parts
      <3> QED BY <3>1, <3>2, InStepSame DEF EngineInv
    <2>4. CASE UNCHANGED behaviorVars
      BY <2>4 DEF behaviorVars, EngineInv
    <2> QED BY <2>1, <2>2, <2>3, <2>4 DEF BehaviorNext
  <1> QED BY <1>1, <1>2, PTL DEF BehaviorSpec

(***************************************************************************)
(* A field has one writer at a time, whatever the files of a satellite     *)
(* hold, if they load: what the last command that reached a field did to   *)
(* it stands until the next one, and nobody but a model writes its fields. *)
(***************************************************************************)
THEOREM WritersAreAlone == BehaviorSpec => []OneWriterPerField
  <1>1. EngineInv => OneWriterPerField
    <2> SUFFICES ASSUME EngineInv PROVE OneWriterPerField
      OBVIOUS
    <2> DEFINE bs == engine.behaviors
    <2>1. Registry(bs) /\ Apart(engine, lastWord, spec.owned) /\ Stands(engine, lastWord)
      BY DEF EngineInv, InStep
    <2>2. \A f : Index(engine, f) = {i \in DOMAIN bs : bs[i].on = f}
      BY DEF Index
    <2>3. ASSUME NEW f \in DOMAIN lastWord
          PROVE  IF lastWord[f].by = "write"
                 THEN Index(engine, f) = {} /\ engine.overlay[f] = lastWord[f].value
                 ELSE \A i \in Index(engine, f) :
                          \/ bs[i].verb = lastWord[f].by
                          \/ bs[i].verb = "hold" /\ lastWord[f].by = "ramp_to"
      <3>1. StandsAt(engine, f, lastWord[f])
        BY <2>1 DEF Stands
      <3>2. \A i \in DOMAIN bs : bs[i] \in Range(bs)
        BY RangeIs
      <3> QED BY <2>2, <3>1, <3>2 DEF StandsAt
    <2>4. ASSUME NEW f \in Driven PROVE Cardinality(Index(engine, f)) = 1
      <3>1. PICK i \in DOMAIN bs : bs[i].on = f
        BY DEF Driven
      <3>2. Index(engine, f) = {i}
        BY <2>1, <2>2, <3>1 DEF Registry
      <3> QED BY <3>2, FS_Singleton
    <2>5. (Driven \union DOMAIN lastWord) \cap spec.owned = {}
      BY <2>1, RangeIs DEF Driven, Apart
    <2> QED BY <2>3, <2>4, <2>5 DEF OneWriterPerField
  <1> QED BY <1>1, EngineInvariance, PTL

-----------------------------------------------------------------------------
(***************************************************************************)
(* What the loader knows of an effect of the command c when it accepts it. *)
(***************************************************************************)
SoundEffect(n, c, owned) ==
    /\ TemplateSound(n.key, c, FALSE) /\ EffectSound(n.key, n.body, c)
    /\ ~IsTemplated(n.key) => Plain(n.key) \notin owned
    /\ n.body.value.text = "" \/ n.body.value.num = 0

\* The effects of a command are sound and have keys of their own.
LEMMA SpecCommands ==
    ASSUME NEW bs, IsSpec(bs), NEW c \in DOMAIN CommandDefs
    PROVE  /\ \A n \in Range(bs.commands[c]) : c # Signals /\ SoundEffect(n, c, bs.owned)
           /\ \A n, o \in Range(bs.commands[c]) : n.key = o.key => n = o
  <1>1. PICK files \in Sidecars : Loads(files) /\ bs = Parsed(files)
    BY DEF IsSpec
  <1>2. bs.commands[c] = (IF c \in Reserved THEN <<>> ELSE Entries(files, c))
        /\ bs.owned = Owned(Models(files))
    BY <1>1 DEF Parsed
  <1>3. CASE c \in Reserved
    <2>1. Range(bs.commands[c]) = {}
      BY <1>2, <1>3, RangeIs
    <2> QED BY <2>1
  <1>4. CASE c \notin Reserved
    <2> DEFINE ns == Entries(files, c)
               of(i) == files[i].tables[c]
    <2>1. \A n \in Range(ns) : \E i \in DOMAIN files :
              c \in DOMAIN files[i].tables /\ n \in Range(of(i))
      BY EntriesAreOfFiles
    <2>2. bs.commands[c] = ns
      BY <1>2, <1>4
    <2> HIDE DEF ns
    <2>3. c # Signals /\ c \notin {"_initial", "_models", "_environment"}
      BY <1>4 DEF Reserved
    <2>4. ASSUME NEW n \in Range(ns) PROVE SoundEffect(n, c, bs.owned)
      <3>1. PICK i \in DOMAIN files : c \in DOMAIN files[i].tables /\ n \in Range(of(i))
        BY <2>1
      <3>2. EntrySound(c, n)
        BY <1>1, <3>1 DEF Loads
      <3>3. TemplateSound(n.key, c, FALSE) /\ EffectSound(n.key, n.body, c)
        BY <3>2, <2>3 DEF EntrySound
      <3>4. n.body.value.text = "" \/ n.body.value.num = 0
        <4>1. /\ files \in Seq(Range(files))
              /\ c \notin {"_models", "_environment"} =>
                     \A o \in Range(of(i)) : o.body.value.text = "" \/ o.body.value.num = 0
          BY <3>1, SidecarAssumption
        <4> QED BY <4>1, <3>1, <2>3
      <3>5. ~IsTemplated(n.key) => Plain(n.key) \notin bs.owned
        <4>1. Owned(Models(files)) \cap Writers(files) = {}
          BY <1>1 DEF Loads
        <4>2. ~IsTemplated(n.key) => Plain(n.key) \in Writers(files)
          BY <3>1, <2>3 DEF Writers
        <4> QED BY <4>1, <4>2, <1>2
      <3> QED BY <3>3, <3>4, <3>5 DEF SoundEffect
    <2>5. ASSUME NEW n \in Range(ns), NEW o \in Range(ns), n.key = o.key PROVE n = o
      <3>1. PICK i \in DOMAIN files : c \in DOMAIN files[i].tables /\ n \in Range(of(i))
        BY <2>1
      <3>2. PICK j \in DOMAIN files : c \in DOMAIN files[j].tables /\ o \in Range(of(j))
        BY <2>1
      <3>3. i = j
        <4>1. ClaimsSound(files)
          BY <1>1 DEF Loads
        <4>2. Rows(files[j], c) = of(j)
          BY <3>2 DEF Rows
        <4> QED BY <4>1, <4>2, <3>1, <3>2, <2>5 DEF ClaimsSound
      <3>4. \A k, l \in DOMAIN of(i) : of(i)[k].key = of(i)[l].key => k = l
        BY <3>1, SidecarAssumption
      <3>5. PICK k \in DOMAIN of(i) : of(i)[k] = n
        BY <3>1, RangeIs
      <3>6. PICK l \in DOMAIN of(i) : of(i)[l] = o
        BY <3>2, <3>3, RangeIs
      <3> QED BY <2>5, <3>4, <3>5, <3>6
    <2> QED BY <2>2, <2>3, <2>4, <2>5
  <1> QED BY <1>3, <1>4

\* The whole numbers between two bounds in halves are those of the expansion.
LEMMA WholesInside ==
    ASSUME NEW lo \in Int, NEW hi \in Int, NEW h \in lo..hi, Whole(h)
    PROVE  Floor(h) \in Ceil(lo)..Floor(hi)
  BY DEF Whole, Floor, Ceil

\* Every name of the template that this command can ask for was checked at
\* load time.
Checked(t, m) ==
    Bounded(t, m.name) /\ (IsTemplated(t) => ~Unexpanded(m.name, t.arg, m.args[t.arg]))

\* The text of an argument is one of those that were expanded, unless the
\* argument is a float between them.
LEMMA TextIsExpanded ==
    ASSUME NEW m \in Commanded, NEW a \in DOMAIN CommandDefs[m.name], HasFewValues(m.name, a),
           ~Unexpanded(m.name, a, m.args[a])
    PROVE  ArgText(m.name, a, m.args[a]) \subseteq ArgValues(m.name, a)
  <1> DEFINE p == CommandDefs[m.name][a]
             raw == m.args[a]
  <1>1. CASE DOMAIN p.labels # {}
    <2>1. ArgValues(m.name, a) = DOMAIN p.labels
      BY <1>1 DEF ArgValues
    <2>2. ArgText(m.name, a, m.args[a]) \subseteq DOMAIN p.labels
      BY <1>1 DEF ArgText
    <2> QED BY <2>1, <2>2
  <1>2. CASE DOMAIN p.labels = {}
    <2>1. p.bounded
      BY <1>2 DEF HasFewValues
    <2>2. /\ p.lo \in Int /\ p.hi \in Int
          /\ ~p.float => Whole(raw) /\ raw \in p.lo..p.hi
      BY <1>2, <2>1, BehaviorAssumption
    <2>3. ArgText(m.name, a, raw) = {IF Whole(raw) THEN ToString(Floor(raw)) ELSE Decimals(raw)}
      BY <1>2 DEF ArgText
    <2>4. ArgValues(m.name, a) = {ToString(v) : v \in Ceil(p.lo)..Floor(p.hi)}
      BY <1>2 DEF ArgValues
    <2>5. p.float => Whole(raw) /\ Floor(raw) \in Ceil(p.lo)..Floor(p.hi)
      BY <1>2 DEF Unexpanded
    <2> HIDE DEF p, raw
    <2>6. Whole(raw) /\ Floor(raw) \in Ceil(p.lo)..Floor(p.hi)
      BY <2>2, <2>5, WholesInside
    <2>7. ToString(Floor(raw)) \in {ToString(v) : v \in Ceil(p.lo)..Floor(p.hi)}
      BY <2>6
    <2> QED BY <2>3, <2>4, <2>6, <2>7 DEF raw
  <1> QED BY <1>1, <1>2

\* What a template that was expanded resolves to is of its expansions, and
\* it resolves unless the argument has no text.
LEMMA ResolvedIsExpanded ==
    ASSUME NEW m \in Commanded, m.name # Signals, NEW t, NEW numeric,
           TemplateSound(t, m.name, numeric), Checked(t, m)
    PROVE  /\ Resolved(t, m.name, m.args) \subseteq Expansions(t, m.name)
           /\ Resolved(t, m.name, m.args) = {} =>
                  IsTemplated(t) /\ ArgText(m.name, t.arg, m.args[t.arg]) = {}
  <1> DEFINE c == m.name
             text == ArgText(c, t.arg, m.args[t.arg])
  <1>1. \A f \in Expansions(t, c) : f \in DOMAIN Telemetry
    BY DEF TemplateSound
  <1>2. CASE IsTemplated(t)
    <2>1. /\ t.arg \in DOMAIN CommandDefs[c] /\ HasFewValues(c, t.arg)
          /\ ~Unexpanded(c, t.arg, m.args[t.arg])
      BY <1>2 DEF Checked, Bounded, HasArg
    <2>2. text \subseteq ArgValues(c, t.arg)
      BY <2>1, TextIsExpanded
    <2>3. Expansions(t, c) = {Filled(t, v) : v \in ArgValues(c, t.arg)}
      BY <1>2 DEF Checked, Expansions
    <2>4. Resolved(t, c, m.args) = {Filled(t, x) : x \in text} \cap DOMAIN Telemetry
      BY <1>2 DEF Resolved
    <2> HIDE DEF text
    <2>5. {Filled(t, x) : x \in text} \subseteq Expansions(t, c)
      BY <2>2, <2>3
    <2>6. Resolved(t, c, m.args) = {Filled(t, x) : x \in text}
      BY <1>1, <2>4, <2>5
    <2> QED BY <1>2, <2>5, <2>6 DEF text
  <1>3. CASE ~IsTemplated(t)
    <2>1. Expansions(t, c) = {Plain(t)}
      BY <1>3 DEF Expansions
    <2>2. Resolved(t, c, m.args) = {Plain(t)} \cap DOMAIN Telemetry
      BY <1>3 DEF Resolved
    <2> QED BY <1>1, <2>1, <2>2
  <1> QED BY <1>2, <1>3

\* A label, a text in a field of texts, and a number elsewhere have a wire form.
LEMMA FittingValues ==
    ASSUME NEW f \in DOMAIN Telemetry, Invertible(f)
    PROVE  /\ \A v : Fits(v, f) /\ (v.text = "" \/ v.num = 0) => WireValue(f, v) # Unfit
           /\ ~Telemetry[f].text => \A n : WireValue(f, Num(n)) # Unfit
  <1>1. \A n : Num(n) # Unfit /\ Num(n).text = "" /\ Num(n).num = n
    <2>1. \A n : Num(n).text = "" /\ Num(n).num = n
      BY DEF Num
    <2>2. Unfit.text = "unfit"
      BY DEF Unfit
    <2> QED BY <2>1, <2>2
  <1>2. ASSUME NEW v, Fits(v, f), v.text = "" \/ v.num = 0 PROVE WireValue(f, v) # Unfit
    <2>1. CASE v.text # ""
      <3>1. v # Unfit
        <4>1. v.num = 0
          BY <1>2, <2>1
        <4>2. Unfit.num = 1
          BY DEF Unfit
        <4> QED BY <4>1, <4>2
      <3>2. v.text \in Labels(f) \/ Telemetry[f].text
        BY <1>2, <2>1 DEF Fits
      <3> QED BY <2>1, <3>1, <3>2, <1>1 DEF WireValue
    <2>2. CASE v.text = ""
      <3>1. ~Telemetry[f].text
        BY <1>2, <2>2 DEF Fits
      <3> QED BY <2>2, <3>1, <1>1 DEF WireValue
    <2> QED BY <2>1, <2>2
  <1>3. ASSUME ~Telemetry[f].text, NEW n PROVE WireValue(f, Num(n)) # Unfit
    BY <1>1, <1>3 DEF WireValue
  <1> QED BY <1>2, <1>3

\* Starting, storing and ending a behavior are not skipping.
LEMMA SkippedKept ==
    ASSUME NEW e, IsEngine(e)
    PROVE  /\ \A key, f, w : Applied(e, key, f, w).skipped = e.skipped
           /\ \A b : IsEngine(With(e, b)) /\ With(e, b).skipped = e.skipped
           /\ \A f : IsEngine(Without(e, f)) /\ Without(e, f).skipped = e.skipped
           /\ \A p : LET s == [e EXCEPT !.pending = p]
                     IN  IsEngine(s) /\ s.skipped = e.skipped
           /\ \A key : Skipped(e, key).skipped = e.skipped \union {key}
  <1>1. \A key, f, w : Applied(e, key, f, w).skipped = e.skipped
    BY DEF Applied, IsEngine, Parts
  <1>2. \A b : IsEngine(With(e, b)) /\ With(e, b).skipped = e.skipped
    BY DEF With, IsEngine, Parts
  <1>3. \A f : IsEngine(Without(e, f)) /\ Without(e, f).skipped = e.skipped
    BY DEF Without, IsEngine, Parts
  <1>4. ASSUME NEW p
        PROVE  LET s == [e EXCEPT !.pending = p] IN IsEngine(s) /\ s.skipped = e.skipped
    BY DEF IsEngine, Parts
  <1>5. \A key : Skipped(e, key).skipped = e.skipped \union {key}
    BY DEF Skipped, IsEngine, Parts
  <1> QED BY <1>1, <1>2, <1>3, <1>4, <1>5

\* A behavior that is started skips its effect or applies it.
LEMMA StartedSkips ==
    ASSUME NEW e, IsEngine(e), NEW n, NEW c, NEW args, NEW f
    PROVE  LET s == Started(e, n, c, args, f)
           IN  s = Skipped(e, n.key) \/ s.skipped = e.skipped
  <1>1. \/ Started(e, n, c, args, f) = Skipped(e, n.key)
        \/ \E b, w : Started(e, n, c, args, f) = Applied(With(e, b), n.key, f, w)
    BY DEF Started
  <1>2. ASSUME NEW b, NEW w PROVE Applied(With(e, b), n.key, f, w).skipped = e.skipped
    <2>1. IsEngine(With(e, b)) /\ With(e, b).skipped = e.skipped
      BY SkippedKept
    <2> QED BY <2>1, SkippedKept
  <1> QED BY <1>1, <1>2

\* A write skips its effect only for a field that takes no value or not this one.
LEMMA WroteSkips ==
    ASSUME NEW e, IsEngine(e), NEW n, NEW c, NEW args, NEW f
    PROVE  LET s == Wrote(e, n, c, args, f)
               v == ValueFor(e, n, c, args, f)
           IN  \/ s = Skipped(e, n.key) /\ (~Invertible(f) \/ WireValue(f, v) = Unfit)
               \/ s.skipped = e.skipped
  <1> DEFINE v == ValueFor(e, n, c, args, f)
             stored == Store(e, f, v)
             w == Without(stored, f)
             s == Wrote(e, n, c, args, f)
  <1>1. \/ s = Skipped(e, n.key) /\ (~Invertible(f) \/ WireValue(f, v) = Unfit)
        \/ \E p, x : s = Applied([w EXCEPT !.pending = p], n.key, f, x)
    BY DEF Wrote, Displaced
  <1>2. IsEngine(stored) /\ stored.skipped = e.skipped
    <2>1. ButOverlay(e, stored)
      BY StoreKeeps
    <2> QED BY <2>1 DEF ButOverlay
  <1> HIDE DEF s, stored, v
  <1>3. IsEngine(w) /\ w.skipped = e.skipped
    BY <1>2, SkippedKept
  <1> HIDE DEF w
  <1>4. ASSUME NEW p, NEW x
        PROVE  Applied([w EXCEPT !.pending = p], n.key, f, x).skipped = e.skipped
    <2> DEFINE d == [w EXCEPT !.pending = p]
    <2>1. IsEngine(d) /\ d.skipped = w.skipped
      BY <1>3, SkippedKept
    <2> HIDE DEF d
    <2>2. Applied(d, n.key, f, x).skipped = d.skipped
      BY <2>1, SkippedKept
    <2> QED BY <1>3, <2>1, <2>2 DEF d
  <1> QED BY <1>1, <1>4 DEF s, v

\* A behavior starts unless its center is excused.
LEMMA StartSkipsExcused ==
    ASSUME NEW e, IsEngine(e), NEW m \in Commanded, m.name # Signals, NEW n, NEW owned,
           SoundEffect(n, m.name, owned), Checked(n.key, m),
           VerbOf(n.body) \in Continuous,
           NEW f \in Resolved(n.key, m.name, m.args)
    PROVE  \/ Started(e, n, m.name, m.args, f).skipped = e.skipped
           \/ Excused(n, m.name, m.args)
              /\ Started(e, n, m.name, m.args, f).skipped = e.skipped \union {n.key}
  <1> DEFINE c == m.name
             verb == VerbOf(n.body)
             center == n.body.refs[verb]
             at == IF IsLive(center) THEN Resolved(center.at, c, m.args) ELSE {NoName}
             s == Started(e, n, c, m.args, f)
  <1>1. s = Skipped(e, n.key) \/ s.skipped = e.skipped
    BY StartedSkips
  <1>2. s.skipped = e.skipped
        \/ (s.skipped = e.skipped \union {n.key}
            /\ (Telemetry[f].text \/ ~Invertible(f) \/ at = {} \/ f \in at))
    <2>1. CASE Telemetry[f].text \/ ~Invertible(f) \/ at = {} \/ f \in at
      BY <1>1, <2>1, SkippedKept
    <2>2. CASE ~(Telemetry[f].text \/ ~Invertible(f) \/ at = {} \/ f \in at)
      <3>1. PICK b, w : s = Applied(With(e, b), n.key, f, w)
        BY <2>2 DEF Started
      <3>2. IsEngine(With(e, b)) /\ With(e, b).skipped = e.skipped
        BY SkippedKept
      <3> HIDE DEF s
      <3> QED BY <3>1, <3>2, SkippedKept
    <2> QED BY <2>1, <2>2
  <1> HIDE DEF s
  <1>3. f \in DOMAIN Telemetry /\ f \in Expansions(n.key, c)
    BY ResolvedIsExpanded DEF Resolved, SoundEffect
  <1>4. verb # "set" /\ verb \in Verbs[verb].operands
    BY DEF Continuous, Verbs, VerbIs
  <1>5. ~Telemetry[f].text /\ Invertible(f)
    BY <1>3, <1>4 DEF SoundEffect, EffectSound, NumericSound
  <1>6. CenterSound(center, n.key, c)
    BY <1>4 DEF SoundEffect, EffectSound, OperandsSound
  <1>7. Excused(n, c, m.args) <=>
            \/ n.body.arg # ""
            \/ \E t \in {n.key, center.at} :
                   IsTemplated(t) /\ (~Checked(t, m) \/ ArgText(c, t.arg, m.args[t.arg]) = {})
            \/ IsTemplated(n.key) /\ Resolved(n.key, c, m.args) \cap spec.owned # {}
            \/ center.at # n.key /\ Resolved(center.at, c, m.args) \cap Resolved(n.key, c, m.args) # {}
    BY DEF Excused, Checked
  <1>8. ASSUME at = {} PROVE Excused(n, c, m.args)
    <2>1. IsLive(center) /\ Resolved(center.at, c, m.args) = {}
      BY <1>8
    <2>2. TemplateSound(center.at, c, TRUE)
      BY <1>6, <2>1 DEF CenterSound
    <2>3. CASE Checked(center.at, m)
      <3>1. IsTemplated(center.at) /\ ArgText(c, center.at.arg, m.args[center.at.arg]) = {}
        BY <2>1, <2>2, <2>3, ResolvedIsExpanded
      <3> QED BY <3>1, <1>7
    <2>4. CASE ~Checked(center.at, m)
      BY <2>4, <1>7 DEF Checked, Bounded
    <2> QED BY <2>3, <2>4
  <1>9. ASSUME f \in at PROVE Excused(n, c, m.args)
    <2>1. IsLive(center)
      BY <1>3, <1>9, DefinitionAssumption DEF NoName
    <2>2. center.at # n.key
      BY <1>6, <2>1 DEF CenterSound
    <2> QED BY <1>7, <1>9, <2>1, <2>2
  <1> HIDE DEF at, center
  <1> QED BY <1>2, <1>5, <1>8, <1>9 DEF s

\* A write is carried out unless it copies an argument.
LEMMA WriteSkipsExcused ==
    ASSUME NEW e, IsEngine(e), NEW m \in Commanded, m.name # Signals, NEW n, NEW owned,
           SoundEffect(n, m.name, owned), Checked(n.key, m),
           VerbOf(n.body) \notin Continuous,
           NEW f \in Resolved(n.key, m.name, m.args)
    PROVE  \/ Wrote(e, n, m.name, m.args, f).skipped = e.skipped
           \/ Excused(n, m.name, m.args)
              /\ Wrote(e, n, m.name, m.args, f).skipped = e.skipped \union {n.key}
  <1> DEFINE c == m.name
             verb == VerbOf(n.body)
             v == ValueFor(e, n, c, m.args, f)
             s == Wrote(e, n, c, m.args, f)
  <1>1. CASE n.body.arg # ""
    <2>1. Excused(n, c, m.args)
      BY <1>1 DEF Excused
    <2>2. s = Skipped(e, n.key) \/ s.skipped = e.skipped
      BY WroteSkips
    <2> QED BY <2>1, <2>2, SkippedKept
  <1>2. CASE n.body.arg = ""
    <2>1. f \in DOMAIN Telemetry /\ f \in Expansions(n.key, c)
      BY ResolvedIsExpanded DEF Resolved, SoundEffect
    <2>2. verb \in {"set", "increment"}
      <3>1. Cardinality(n.body.keys \cap DOMAIN Verbs) = 1
        BY DEF SoundEffect, EffectSound, TableSound
      <3>2. n.body.keys \cap DOMAIN Verbs # {}
        BY <3>1, FS_EmptySet
      <3>3. verb \in DOMAIN Verbs
        BY <3>2 DEF VerbOf
      <3> HIDE DEF verb
      <3>4. verb \notin Continuous
        BY DEF verb
      <3> QED BY <3>3, <3>4 DEF Continuous, Verbs, VerbIs, Loop
    <2>3. Invertible(f) /\ WireValue(f, v) # Unfit
      <3>1. CASE verb = "set"
        <4>1. Fits(n.body.value, f) /\ Invertible(f)
          BY <1>2, <2>1, <3>1 DEF SoundEffect, EffectSound, ScalarSound
        <4>2. v = n.body.value
          BY <1>2, <3>1 DEF ValueFor
        <4>3. v.text = "" \/ v.num = 0
          BY <4>2 DEF SoundEffect
        <4> HIDE DEF v
        <4> QED BY <2>1, <4>1, <4>2, <4>3, FittingValues
      <3>2. CASE verb = "increment"
        <4>1. ~Telemetry[f].text /\ Invertible(f)
          BY <2>1, <3>2 DEF SoundEffect, EffectSound, NumericSound
        <4>2. \E k : v = Num(k)
          BY <3>2 DEF ValueFor
        <4> HIDE DEF v
        <4> QED BY <2>1, <4>1, <4>2, FittingValues
      <3> QED BY <2>2, <3>1, <3>2
    <2> QED BY <2>3, WroteSkips
  <1> QED BY <1>1, <1>2

\* An effect that is skipped has an excuse.
LEMMA EffectSkipsExcused ==
    ASSUME NEW e, IsEngine(e), NEW m \in Commanded, m.name # Signals, NEW n,
           SoundEffect(n, m.name, spec.owned)
    PROVE  LET s == Effect(e, n, m.name, m.args, spec.owned)
           IN  \/ s.skipped = e.skipped
               \/ Excused(n, m.name, m.args) /\ s.skipped = e.skipped \union {n.key}
  <1> DEFINE c == m.name
             s == Effect(e, n, c, m.args, spec.owned)
             at == Resolved(n.key, c, m.args) \ spec.owned
             f == CHOOSE x \in at : TRUE
  <1>1. s = IF at = {} THEN Skipped(e, n.key)
            ELSE IF VerbOf(n.body) \in Continuous THEN Started(e, n, c, m.args, f)
            ELSE Wrote(e, n, c, m.args, f)
    BY DEF Effect
  <1> HIDE DEF s
  <1>2. CASE ~Checked(n.key, m)
    <2>1. Excused(n, c, m.args)
      BY <1>2 DEF Excused, Checked, Bounded
    <2>2. s.skipped = e.skipped \/ s.skipped = e.skipped \union {n.key}
      <3> HIDE DEF f
      <3> QED BY <1>1, SkippedKept, StartedSkips, WroteSkips
    <2> QED BY <2>1, <2>2 DEF s
  <1>3. CASE Checked(n.key, m) /\ at = {}
    <2>1. Excused(n, c, m.args)
      <3>1. CASE Resolved(n.key, c, m.args) = {}
        <4>1. IsTemplated(n.key) /\ ArgText(c, n.key.arg, m.args[n.key.arg]) = {}
          BY <1>3, <3>1, ResolvedIsExpanded DEF SoundEffect
        <4> QED BY <4>1 DEF Excused
      <3>2. CASE Resolved(n.key, c, m.args) # {}
        <4>1. Resolved(n.key, c, m.args) \cap spec.owned # {}
          BY <1>3, <3>2
        <4>2. IsTemplated(n.key)
          <5>1. ~IsTemplated(n.key) => Resolved(n.key, c, m.args) \subseteq {Plain(n.key)}
            BY DEF Resolved
          <5> QED BY <4>1, <5>1 DEF SoundEffect
        <4> QED BY <4>1, <4>2 DEF Excused
      <3> QED BY <3>1, <3>2
    <2>2. s.skipped = e.skipped \union {n.key}
      BY <1>1, <1>3, SkippedKept
    <2> QED BY <2>1, <2>2 DEF s
  <1>4. CASE Checked(n.key, m) /\ at # {}
    <2>1. f \in Resolved(n.key, c, m.args)
      BY <1>4
    <2> HIDE DEF f
    <2>2. CASE VerbOf(n.body) \in Continuous
      BY SMTT(40), <1>1, <1>4, <2>1, <2>2, StartSkipsExcused DEF s
    <2>3. CASE VerbOf(n.body) \notin Continuous
      BY <1>1, <1>4, <2>1, <2>3, WriteSkipsExcused DEF s
    <2> QED BY <2>2, <2>3
  <1> QED BY <1>2, <1>3, <1>4

\* So has each effect that a command skips.
LEMMA EffectsSkipExcused ==
    ASSUME NEW e, InStep(e, e.word, spec.owned), e.skipped = {},
           NEW m \in Commanded, IsSpec(spec)
    PROVE  LET done == Effects(e, spec.commands[m.name], m.name, m.args, spec.owned)
           IN  \A n \in Range(spec.commands[m.name]) :
                   n.key \in done.skipped => Excused(n, m.name, m.args)
  <1> DEFINE c == m.name
             ns == spec.commands[c]
             k == Len(ns)
  <1>1. c \in DOMAIN CommandDefs
    BY BehaviorAssumption
  <1>2. ns \in Seq(Range(ns))
    BY <1>1, SpecEffects
  <1>3. k \in Nat /\ DOMAIN ns = 1..k
    BY <1>2, LenProperties
  <1>4. /\ \A n \in Range(ns) : c # Signals /\ SoundEffect(n, c, spec.owned)
        /\ \A n, o \in Range(ns) : n.key = o.key => n = o
    BY <1>1, SpecCommands
  <1>5. PICK a : RunOfEffects(a, e, ns, c, m.args, spec.owned)
    BY <1>2, EffectsInTurn
  <1>6. /\ a[0] = e
        /\ \A i \in 1..k : a[i] = Effect(a[i - 1], ns[i], c, m.args, spec.owned)
        /\ Effects(e, ns, c, m.args, spec.owned) = a[k]
    BY <1>5 DEF RunOfEffects
  <1> HIDE DEF ns
  <1> DEFINE Why(key) == \E n \in Range(ns) : n.key = key /\ Excused(n, c, m.args)
             Good(i) == InStep(a[i], a[i].word, spec.owned) /\ \A key \in a[i].skipped : Why(key)
             X == {i \in 0..k : Good(i)}
  <1>7. 0 \in X
    BY <1>3, <1>6
  <1>8. ASSUME NEW i \in 0..(k - 1), i \in X PROVE i + 1 \in X
    <2>1. i + 1 \in 1..k /\ (i + 1) - 1 = i /\ i + 1 \in 0..k
      BY <1>3
    <2> DEFINE n == ns[i + 1]
    <2>2. a[i + 1] = Effect(a[i], n, c, m.args, spec.owned) /\ n \in Range(ns)
      BY <2>1, <1>3, <1>6, RangeIs
    <2>3. InStep(a[i], a[i].word, spec.owned) /\ \A key \in a[i].skipped : Why(key)
      BY <1>8
    <2> HIDE DEF n
    <2>4. InStep(a[i + 1], a[i + 1].word, spec.owned)
      BY <2>2, <2>3, EffectInStep
    <2>5. c # Signals /\ SoundEffect(n, c, spec.owned)
      BY <2>2, <1>4
    <2>6. \/ a[i + 1].skipped = a[i].skipped
          \/ Excused(n, c, m.args) /\ a[i + 1].skipped = a[i].skipped \union {n.key}
      <3>1. IsEngine(a[i])
        BY <2>3 DEF InStep
      <3> DEFINE u == Effect(a[i], n, m.name, m.args, spec.owned)
      <3>2. \/ u.skipped = a[i].skipped
            \/ Excused(n, m.name, m.args) /\ u.skipped = a[i].skipped \union {n.key}
        BY <2>5, <3>1, EffectSkipsExcused
      <3>3. a[i + 1] = u
        BY <2>2
      <3> HIDE DEF u
      <3> QED BY <3>2, <3>3
    <2>7. \A key \in a[i + 1].skipped : Why(key)
      BY <2>2, <2>3, <2>6
    <2> HIDE DEF Why
    <2> QED BY <2>1, <2>4, <2>7
  <1>9. k \in X
    <2> HIDE DEF X
    <2>1. k \in 0..k
      BY <1>3
    <2> QED BY <1>3, <1>7, <1>8, <2>1, Climb
  <1>10. \A key \in a[k].skipped : Why(key)
    BY <1>9
  <1>11. ASSUME NEW n \in Range(ns), n.key \in a[k].skipped PROVE Excused(n, c, m.args)
    BY <1>4, <1>10, <1>11
  <1> QED BY <1>6, <1>11 DEF ns

\* What the last command skipped is excused.
LEMMA CommandSkipsExcused ==
    ASSUME EngineInv, NEW m \in Commanded, NEW accepted \in BOOLEAN, NEW reading,
           accepted => Consumers(m.name) # {}, ApplyCommand(m, accepted, reading)
    PROVE  LoadedEffectsApply'
  <1>1. PICK e : InStep(e, e.word, spec.owned) /\ e.skipped = {} /\ EffectsFrom(e, m)
    BY CommandDoes
  <1> DEFINE done == Effects(e, spec.commands[m.name], m.name, m.args, spec.owned)
  <1>2. \A n \in Range(spec.commands[m.name]) :
            n.key \in done.skipped => Excused(n, m.name, m.args)
    BY <1>1, EffectsSkipExcused DEF EngineInv
  <1>3. told'.command = m.name /\ told'.args = m.args /\ told'.skipped = done.skipped
        /\ spec' = spec
    BY <1>1 DEF EffectsFrom
  <1> HIDE DEF done
  <1>4. \A n : Excused(n, m.name, m.args)' <=> Excused(n, m.name, m.args)
    BY <1>3 DEF Excused
  <1> QED BY <1>2, <1>3, <1>4 DEF LoadedEffectsApply, Excused

(***************************************************************************)
(* What the loader checked the engine can do: whatever the files, whatever *)
(* the command, an effect that loaded is skipped only for the reasons that *)
(* are left to the execution, and for a float that is not one of the whole *)
(* numbers its range was expanded to.                                      *)
(***************************************************************************)
THEOREM LoadedEffectsAreApplied == BehaviorSpec => []LoadedEffectsApply
  <1>1. BehaviorInit => LoadedEffectsApply
    <2> SUFFICES ASSUME BehaviorInit PROVE LoadedEffectsApply
      OBVIOUS
    <2>1. told = [command |-> "", args |-> <<>>, applied |-> {},
                  skipped |-> {}, ticked |-> FALSE]
      BY DEF BehaviorInit
    <2>2. told.command = ""
      BY <2>1
    <2> QED BY <2>2 DEF LoadedEffectsApply
  <1>2. EngineInv /\ LoadedEffectsApply /\ [BehaviorNext]_behaviorVars => LoadedEffectsApply'
    <2> SUFFICES ASSUME EngineInv, LoadedEffectsApply, [BehaviorNext]_behaviorVars
                 PROVE  LoadedEffectsApply'
      OBVIOUS
    <2>1. CASE \E m \in Commanded, accepted \in BOOLEAN, reading \in Readings :
                   (accepted => Consumers(m.name) # {}) /\ ApplyCommand(m, accepted, reading)
      BY <2>1, CommandSkipsExcused
    <2>2. ASSUME told'.command = told.command, told'.args = told.args,
                 told'.skipped = told.skipped, spec' = spec
          PROVE  LoadedEffectsApply'
      BY <2>2 DEF LoadedEffectsApply, Excused
    <2>3. CASE \E draw \in [Driven -> Draws], reading \in Readings : Tick(draw, reading)
      <3>1. spec' = spec /\ told' = [told EXCEPT !.ticked = TRUE]
        BY <2>3 DEF Tick
      <3>2. told'.command = told.command /\ told'.args = told.args
            /\ told'.skipped = told.skipped
        BY <3>1
      <3> QED BY <2>2, <3>1, <3>2
    <2>4. CASE PopImmediateApids \/ UNCHANGED behaviorVars
      BY <2>2, <2>4 DEF PopImmediateApids, behaviorVars
    <2> QED BY <2>1, <2>3, <2>4 DEF BehaviorNext
  <1> QED BY <1>1, <1>2, EngineInvariance, PTL DEF BehaviorSpec

-----------------------------------------------------------------------------
(***************************************************************************)
(* Two engines that agree on what decides the draw of the loads of m.      *)
(***************************************************************************)
Agree(e, s, fields) ==
    /\ e.behaviors = s.behaviors /\ e.wheelAmps = s.wheelAmps
    /\ \A f \in fields : /\ f \in DOMAIN e.overlay <=> f \in DOMAIN s.overlay
                         /\ f \in DOMAIN e.overlay => e.overlay[f] = s.overlay[f]

\* Their loads draw the same.
LEMMA SameDraw ==
    ASSUME NEW m, NEW e, NEW s, Agree(e, s, Switches(m))
    PROVE  LoadCurrent(e, m) = LoadCurrent(s, m)
  <1> DEFINE W == Switches(m)
             on(x) == {k \in DOMAIN m.loads : Reads(x, Gate(k), "ON")}
  <1>1. \A f \in W : \A l : Reads(e, f, l) <=> Reads(s, f, l)
    BY DEF Agree, Reads, IsNumeric
  <1>2. ASSUME NEW k \in DOMAIN m.loads
        PROVE  /\ Gate(k) \in W /\ DOMAIN m.loads[k].by \subseteq W
               /\ \A i \in DOMAIN m.loads[k].elements : m.loads[k].elements[i].mode \in W
    <2> DEFINE Of(j) == {Gate(j)} \union DOMAIN m.loads[j].by
                        \union {m.loads[j].elements[i].mode : i \in DOMAIN m.loads[j].elements}
    <2>1. W = UNION {Of(j) : j \in DOMAIN m.loads}
      BY DEF Switches
    <2>2. Of(k) \subseteq W
      <3> HIDE DEF Of, W
      <3> QED BY <2>1
    <2>3. /\ Gate(k) \in Of(k) /\ DOMAIN m.loads[k].by \subseteq Of(k)
          /\ \A i \in DOMAIN m.loads[k].elements : m.loads[k].elements[i].mode \in Of(k)
      OBVIOUS
    <2> HIDE DEF Of, W
    <2> QED BY <2>2, <2>3
  <1> HIDE DEF W
  <1>3. \A f : ElementOn(e, f) <=> ElementOn(s, f)
    BY DEF Agree, ElementOn, Index
  <1>4. ASSUME NEW f \in W, NEW amps PROVE Drawn(e, f, amps) = Drawn(s, f, amps)
    <2> DEFINE lit(x) == {l \in DOMAIN amps : Reads(x, f, l)}
    <2>1. lit(e) = lit(s)
      BY <1>1
    <2>2. \A x : Drawn(x, f, amps) = IF lit(x) = {} THEN 0 ELSE amps[CHOOSE l \in lit(x) : TRUE]
      BY DEF Drawn
    <2> HIDE DEF lit
    <2> QED BY <2>1, <2>2
  <1>5. ASSUME NEW k \in DOMAIN m.loads PROVE Amps(e, m.loads[k]) = Amps(s, m.loads[k])
    <2> DEFINE l == m.loads[k]
               drawn(x) == [f \in DOMAIN l.by |-> Drawn(x, f, l.by[f])]
               lit(x) == {i \in DOMAIN l.elements : IsLit(x, l.elements[i])}
    <2>1. \A f \in DOMAIN l.by : Drawn(e, f, l.by[f]) = Drawn(s, f, l.by[f])
      BY <1>2, <1>4
    <2>2. drawn(e) = drawn(s)
      BY <2>1
    <2>3. lit(e) = lit(s)
      BY <1>1, <1>2, <1>3 DEF IsLit
    <2>4. e.wheelAmps = s.wheelAmps
      BY DEF Agree
    <2>5. \A x : Amps(x, l) = l.base + (IF l.wheels THEN x.wheelAmps ELSE 0)
                              + SumFunction(drawn(x)) + l.each * Cardinality(lit(x))
      BY DEF Amps
    <2> HIDE DEF l, drawn, lit
    <2> QED BY <2>2, <2>3, <2>4, <2>5 DEF l
  <1>6. on(e) = on(s)
    BY <1>1, <1>2
  <1>7. [k \in on(e) |-> Amps(e, m.loads[k])] = [k \in on(s) |-> Amps(s, m.loads[k])]
    BY <1>5, <1>6
  <1> QED BY <1>7 DEF LoadCurrent

\* The store of a model leaves the fields of no output of it alone.
LEMMA AgreeAfterStore ==
    ASSUME NEW e, IsEngine(e), NEW seen, NEW m, NEW reading, NEW fields,
           fields \cap DOMAIN m.outputs = {}
    PROVE  Agree(e, StoreOutputs(e, seen, m, reading), fields)
  <1> DEFINE wire == [f \in DOMAIN m.outputs |->
                         WireValue(f, Reported(seen, m, m.outputs[f], reading))]
             new == [f \in {f \in DOMAIN m.outputs : wire[f] # Unfit} |-> wire[f]]
             s == StoreOutputs(e, seen, m, reading)
             o == Merged(e.overlay, new)
  <1>1. s = [e EXCEPT !.overlay = o]
    BY DEF StoreOutputs
  <1>2. DOMAIN new \subseteq DOMAIN m.outputs
    OBVIOUS
  <1> HIDE DEF new, s
  <1>3. /\ DOMAIN o = DOMAIN e.overlay \union DOMAIN new
        /\ \A x \in DOMAIN e.overlay : x \notin DOMAIN new => o[x] = e.overlay[x]
    BY MergedFields, Zenon
  <1> HIDE DEF o
  <1>4. s.overlay = o /\ s.behaviors = e.behaviors /\ s.wheelAmps = e.wheelAmps
    BY <1>1 DEF IsEngine, Parts
  <1>5. \A f \in fields : f \notin DOMAIN new
    BY <1>2
  <1>6. Agree(e, s, fields)
    BY <1>3, <1>4, <1>5 DEF Agree
  <1> QED BY <1>6 DEF s

\* Agreement is transitive.
LEMMA AgreeTransitive ==
    ASSUME NEW e, NEW s, NEW t, NEW fields, Agree(e, s, fields), Agree(s, t, fields)
    PROVE  Agree(e, t, fields)
  BY DEF Agree

\* The current is only ever stored in a field that has a form for it.
LEMMA CurrentFits ==
    ASSUME NEW m, ModelSound(m), NEW f \in DOMAIN m.outputs,
           m.outputs[f].of = "battery_current", Invertible(f)
    PROVE  \A n : WireValue(f, Num(n)) # Unfit
  <1>1. f \in DOMAIN Telemetry /\ ~Telemetry[f].text
    <2>1. CASE m.kind = "adcs"
      <3>1. AdcsBinding(m, f, m.outputs[f])
        BY <2>1 DEF ModelSound, AdcsSound
      <3>2. m.outputs[f].of \notin {"mode"} \union DOMAIN SourceLabels
                                   \union BodySources \union WheelSources
        BY DEF SourceLabels, BodySources, WheelSources
      <3> QED BY <3>1, <3>2 DEF AdcsBinding
    <2>2. CASE m.kind = "power"
      BY <2>2 DEF ModelSound, PowerSound, PowerBinding
    <2>3. CASE m.kind = "nav"
      BY <2>3 DEF ModelSound, NavSound, NavBinding
    <2>4. CASE m.kind \notin {"adcs", "power", "nav"}
      BY <2>4 DEF ModelSound
    <2> QED BY <2>1, <2>2, <2>3, <2>4
  <1> QED BY <1>1, FittingValues

\* The battery shows its current.
Paid(e, m, f, sun, limit) ==
    e.overlay[f] = WireValue(f, Num(BatteryCurrent(e, m, sun, limit)))

(***************************************************************************)
(* The models store in turn: what the power model stored for the battery   *)
(* is still there at the end, and so are the switches that it saw.         *)
(***************************************************************************)
LEMMA BatteryIsPaid ==
    ASSUME NEW bs, IsSpec(bs), NEW e, NEW word, InStep(e, word, bs.owned), NEW reading,
           NEW i \in DOMAIN bs.models, NEW f \in DOMAIN bs.models[i].outputs,
           bs.models[i].outputs[f].of = "battery_current", Invertible(f),
           \A j \in i..Len(bs.models) :
               Switches(bs.models[i]) \cap DOMAIN bs.models[j].outputs = {}
    PROVE  LET s == StoreModels(e, bs.models, TRUE, reading)
           IN  Paid(s, bs.models[i], f, reading["sun"].num, reading["limit"].num)
  <1> DEFINE models == bs.models
             n == Len(models)
             m == models[i]
             W == Switches(m)
             battery(x) == WireValue(f, Num(BatteryCurrent(x, m,
                                          reading["sun"].num, reading["limit"].num)))
  <1>1. /\ n \in Nat /\ DOMAIN models = 1..n /\ models \in Seq(Range(models))
        /\ \A j \in 1..n : ModelSound(models[j]) /\ DOMAIN models[j].outputs \subseteq bs.owned
        /\ \A j, k \in 1..n : j # k => DOMAIN models[j].outputs \cap DOMAIN models[k].outputs = {}
    BY SpecModels, LenProperties
  <1>2. PICK a : RunOfModels(a, models, e, TRUE, reading)
    BY <1>1, ModelsInTurn
  <1>3. /\ a[0] = e
        /\ \A j \in 1..n : a[j] = StoreOutputs(a[j - 1], a[j - 1], models[j], reading)
        /\ StoreModels(e, models, TRUE, reading) = a[n]
    BY <1>2 DEF RunOfModels
  <1>4. i \in 1..n
    BY <1>1
  \* Every engine of the run is one.
  <1>5. \A j \in 0..n : IsEngine(a[j])
    <2> DEFINE X == {j \in 0..n : IsEngine(a[j])}
    <2>1. 0 \in X
      BY <1>1, <1>3 DEF InStep
    <2>2. ASSUME NEW j \in 0..(n - 1), j \in X PROVE j + 1 \in X
      <3>1. j + 1 \in 1..n /\ (j + 1) - 1 = j /\ j + 1 \in 0..n
        BY <1>1
      <3>2. a[j + 1] = StoreOutputs(a[j], a[j], models[j + 1], reading)
        BY <1>3, <3>1
      <3>3. ButOverlay(a[j], a[j + 1])
        BY <2>2, <3>2, StoreOutputsKeeps
      <3> QED BY <3>1, <3>3 DEF ButOverlay
    <2>3. \A j \in 0..n : j \in X
      <3> HIDE DEF X
      <3> QED BY <1>1, <2>1, <2>2, Climb
    <2> QED BY <2>3
  \* The power model stores the current.
  <1>6. f \in DOMAIN a[i].overlay /\ a[i].overlay[f] = battery(a[i - 1])
    <2> DEFINE wire == WireValue(f, Reported(a[i - 1], m, m.outputs[f], reading))
    <2>1. wire = battery(a[i - 1])
      BY DEF Reported
    <2>2. wire # Unfit
      BY <1>1, <1>4, <2>1, CurrentFits
    <2>3. a[i] = StoreOutputs(a[i - 1], a[i - 1], m, reading) /\ IsEngine(a[i - 1])
      <3>1. i - 1 \in 0..n
        BY <1>1, <1>4
      <3> QED BY <1>3, <1>4, <1>5, <3>1
    <2>4. wire # Unfit => f \in DOMAIN a[i].overlay /\ a[i].overlay[f] = wire
      BY <2>3, StoreOutputsKeeps
    <2> HIDE DEF wire
    <2> QED BY <2>1, <2>2, <2>4
  \* What it stored, and the switches, outlast the models after it.
  <1> DEFINE Good(j) == /\ f \in DOMAIN a[j].overlay /\ a[j].overlay[f] = battery(a[i - 1])
                        /\ Agree(a[i - 1], a[j], W)
             X == {k \in 0..(n - i) : Good(i + k)}
  <1>7. ASSUME NEW j \in i..n PROVE Agree(a[j - 1], a[j], W)
    <2>1. j \in 1..n /\ j - 1 \in 0..n
      BY <1>1, <1>4
    <2>2. a[j] = StoreOutputs(a[j - 1], a[j - 1], models[j], reading) /\ IsEngine(a[j - 1])
      BY <1>3, <1>5, <2>1
    <2> QED BY <2>2, AgreeAfterStore
  <1>8. 0 \in X
    <2>1. i \in i..n /\ i + 0 = i
      BY <1>1, <1>4
    <2>2. Good(i)
      BY <1>6, <1>7, <2>1
    <2> HIDE DEF Good
    <2> QED BY <1>1, <1>4, <2>1, <2>2
  <1>9. ASSUME NEW k \in 0..((n - i) - 1), k \in X PROVE k + 1 \in X
    <2> DEFINE j == i + k
    <2>1. /\ j \in 0..n /\ j + 1 \in i..n /\ (j + 1) - 1 = j /\ j + 1 \in 1..n /\ j + 1 # i
          /\ k + 1 \in 0..(n - i) /\ i + (k + 1) = j + 1
      <3>1. n \in Nat /\ i \in 1..n /\ k \in 0..((n - i) - 1)
        BY <1>1, <1>4
      <3> QED BY ONLY SMTT(40), <3>1
    <2>2. Good(j)
      BY <1>9
    <2> HIDE DEF j
    <2>3. a[j + 1] = StoreOutputs(a[j], a[j], models[j + 1], reading) /\ IsEngine(a[j])
      BY <1>3, <1>5, <2>1
    <2>4. f \notin DOMAIN models[j + 1].outputs
      BY <1>1, <1>4, <2>1
    <2>5. ButFields(a[j], a[j + 1], DOMAIN models[j + 1].outputs)
      BY <2>3, StoreOutputsKeeps
    <2>6. f \in DOMAIN a[j + 1].overlay /\ a[j + 1].overlay[f] = a[j].overlay[f]
      BY <2>2, <2>4, <2>5 DEF ButFields
    <2>7. Agree(a[j], a[j + 1], W)
      BY <1>7, <2>1
    <2>8. Agree(a[i - 1], a[j + 1], W)
      BY <2>2, <2>7, AgreeTransitive
    <2>9. Good(j + 1)
      BY <2>2, <2>6, <2>8
    <2> HIDE DEF Good
    <2> QED BY <2>1, <2>9
  <1>10. n - i \in X
    <2> HIDE DEF X
    <2>1. n - i \in Nat /\ n - i \in 0..(n - i)
      BY <1>1, <1>4
    <2> QED BY <1>8, <1>9, <2>1, Climb
  <1>11. Good(n)
    <2>1. i + (n - i) = n
      BY <1>1, <1>4
    <2>2. Good(i + (n - i))
      BY <1>10
    <2> HIDE DEF Good, n
    <2> QED BY <2>1, <2>2
  <1>12. battery(a[i - 1]) = battery(a[n])
    <2>1. LoadCurrent(a[i - 1], m) = LoadCurrent(a[n], m)
      BY <1>11, SameDraw
    <2> QED BY <2>1 DEF BatteryCurrent
  <1>13. Paid(a[n], m, f, reading["sun"].num, reading["limit"].num)
    BY <1>11, <1>12 DEF Paid
  <1> QED BY <1>3, <1>13

\* A step that touches none of its parts keeps the battery in step.
LEMMA PowerFollowsSame ==
    ASSUME PowerFollowsSwitches, spec' = spec, told'.ticked = told.ticked,
           engine'.overlay = engine.overlay, engine'.behaviors = engine.behaviors,
           engine'.wheelAmps = engine.wheelAmps
    PROVE  PowerFollowsSwitches'
  <1>1. ASSUME NEW m, NEW sun, NEW limit
        PROVE  BatteryCurrent(engine', m, sun, limit) = BatteryCurrent(engine, m, sun, limit)
    <2>1. Agree(engine', engine, Switches(m))
      BY DEF Agree
    <2>2. LoadCurrent(engine', m) = LoadCurrent(engine, m)
      BY <2>1, SameDraw
    <2> QED BY <2>2 DEF BatteryCurrent
  <1> QED BY <1>1 DEF PowerFollowsSwitches

\* A tick pays the battery what its switches draw.
LEMMA TickPaysBattery ==
    ASSUME EngineInv, NEW draw, NEW reading \in Readings, Tick(draw, reading)
    PROVE  PowerFollowsSwitches'
  <1> DEFINE a == AdvanceAll(engine, draw)
             b == [a EXCEPT !.wheelAmps = reading["wheelAmps"].num]
             c == StoreModels(b, spec.models, TRUE, reading)
  <1>1. engine' = Kept(c) /\ spec' = spec
    BY DEF Tick, Ticked, AdvanceModels
  <1>2. Continues(engine, a)
    BY AllAdvanced DEF EngineInv, InStep, Apart
  <1> HIDE DEF a
  <1>3. InStep(a, lastWord, spec.owned)
    BY <1>2, InStepContinued DEF EngineInv
  <1>4. IsEngine(b) /\ b.behaviors = a.behaviors /\ b.overlay = a.overlay
    BY <1>3 DEF InStep, IsEngine, Parts
  <1> HIDE DEF b
  <1>5. InStep(b, lastWord, spec.owned)
    BY <1>3, <1>4, InStepSame
  <1>6. InStep(c, lastWord, spec.owned)
    BY <1>5, InStepModels DEF EngineInv
  <1>7. engine'.overlay = c.overlay /\ engine'.behaviors = c.behaviors
        /\ engine'.wheelAmps = c.wheelAmps
    <2> HIDE DEF c
    <2> QED BY <1>1, <1>6 DEF InStep, IsEngine, Parts, Kept
  <1>8. reading["sun"] \in SourceValues["sun"] /\ reading["limit"] \in SourceValues["limit"]
    BY BehaviorAssumption DEF Readings
  <1>9. ASSUME NEW i \in DOMAIN spec.models, NEW f \in DOMAIN spec.models[i].outputs,
               spec.models[i].outputs[f].of = "battery_current", Invertible(f),
               \A j \in i..Len(spec.models) :
                   Switches(spec.models[i]) \cap DOMAIN spec.models[j].outputs = {}
        PROVE  Paid(engine', spec.models[i], f, reading["sun"].num, reading["limit"].num)
    <2> DEFINE sun == reading["sun"]
               limit == reading["limit"]
               m == spec.models[i]
    <2>0. IsSpec(spec)
      BY DEF EngineInv
    <2>1. Paid(c, m, f, sun.num, limit.num)
      BY <1>5, <1>9, <2>0, BatteryIsPaid
    <2> HIDE DEF c, m
    <2>2. Agree(engine', c, Switches(m))
      BY <1>7 DEF Agree
    <2>3. BatteryCurrent(engine', m, sun.num, limit.num) = BatteryCurrent(c, m, sun.num, limit.num)
      BY <2>2, SameDraw DEF BatteryCurrent
    <2> QED BY <1>7, <2>1, <2>3 DEF Paid, m
  <1>10. ASSUME NEW i \in DOMAIN spec.models, NEW f \in DOMAIN spec.models[i].outputs,
                spec.models[i].outputs[f].of = "battery_current", Invertible(f),
                \A j \in i..Len(spec.models) :
                    Switches(spec.models[i]) \cap DOMAIN spec.models[j].outputs = {}
         PROVE  \E sun \in SourceValues["sun"], limit \in SourceValues["limit"] :
                    engine'.overlay[f] = WireValue(f, Num(BatteryCurrent(engine', spec.models[i],
                                                                      sun.num, limit.num)))
    BY <1>8, <1>9, <1>10 DEF Paid
  <1> HIDE DEF c
  <1>11. spec' = spec
    BY <1>1
  <1>12. \A i \in DOMAIN spec'.models :
             LET m == spec'.models[i]
             IN  \A f \in DOMAIN m.outputs :
                     /\ m.outputs[f].of = "battery_current" /\ Invertible(f)
                     /\ \A j \in i..Len(spec'.models) :
                            Switches(m) \cap DOMAIN spec'.models[j].outputs = {}
                     => \E sun \in SourceValues["sun"], limit \in SourceValues["limit"] :
                            engine'.overlay[f] =
                                WireValue(f, Num(BatteryCurrent(engine', m, sun.num, limit.num)))
    BY <1>10, <1>11
  <1> QED BY <1>12 DEF PowerFollowsSwitches

(***************************************************************************)
(* After every tick the battery carries the loads as their switches and    *)
(* the elements of the thermostats then are, for all files that load.      *)
(***************************************************************************)
THEOREM BatteryFollowsSwitches == BehaviorSpec => []PowerFollowsSwitches
  <1>1. BehaviorInit => PowerFollowsSwitches
    <2> SUFFICES ASSUME BehaviorInit PROVE PowerFollowsSwitches
      OBVIOUS
    <2>1. told = [command |-> "", args |-> <<>>, applied |-> {},
                  skipped |-> {}, ticked |-> FALSE]
      BY DEF BehaviorInit
    <2>2. ~told.ticked
      BY <2>1
    <2> QED BY <2>2 DEF PowerFollowsSwitches
  <1>2. EngineInv /\ PowerFollowsSwitches /\ [BehaviorNext]_behaviorVars => PowerFollowsSwitches'
    <2> SUFFICES ASSUME EngineInv, PowerFollowsSwitches, [BehaviorNext]_behaviorVars
                 PROVE  PowerFollowsSwitches'
      OBVIOUS
    <2>1. CASE \E m \in Commanded, accepted \in BOOLEAN, reading \in Readings :
                   (accepted => Consumers(m.name) # {}) /\ ApplyCommand(m, accepted, reading)
      <3>1. PICK m \in Commanded, accepted \in BOOLEAN, reading \in Readings :
                   (accepted => Consumers(m.name) # {}) /\ ApplyCommand(m, accepted, reading)
        BY <2>1
      <3>2. PICK e : EffectsFrom(e, m)
        BY <3>1, CommandDoes
      <3>3. ~told'.ticked
        BY <3>2 DEF EffectsFrom
      <3> QED BY <3>3 DEF PowerFollowsSwitches
    <2>2. CASE \E draw \in [Driven -> Draws], reading \in Readings : Tick(draw, reading)
      BY <2>2, TickPaysBattery
    <2>3. CASE PopImmediateApids
      <3>1. engine' = [engine EXCEPT !.pending = {}] /\ spec' = spec /\ told' = told
        BY <2>3 DEF PopImmediateApids
      <3>2. /\ engine'.overlay = engine.overlay /\ engine'.behaviors = engine.behaviors
            /\ engine'.wheelAmps = engine.wheelAmps
        BY <3>1 DEF EngineInv, InStep, IsEngine, Parts
      <3> QED BY <3>1, <3>2, PowerFollowsSame
    <2>4. CASE UNCHANGED behaviorVars
      <3>1. engine' = engine /\ spec' = spec /\ told' = told
        BY <2>4 DEF behaviorVars
      <3> QED BY <3>1, PowerFollowsSame
    <2> QED BY <2>1, <2>2, <2>3, <2>4 DEF BehaviorNext
  <1> QED BY <1>1, <1>2, EngineInvariance, PTL DEF BehaviorSpec

==============================================================================
