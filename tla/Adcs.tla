-------------------------------- MODULE Adcs --------------------------------
(***************************************************************************)
(* The attitude control of the vehicle: the commands of dynamics/model.py, *)
(* the mode machine (modes.py), the controller (control.py) and the motors *)
(* of the wheels (plant.py).                                               *)
(*                                                                         *)
(* Attitude, rates and fields are vectors of floating-point numbers; what  *)
(* is kept of them is what the control flow reads.  The torque that the    *)
(* control law computes for a wheel, the axis of a wheel and whether a     *)
(* field is zero are choices; a wheel's momentum is a small integer.       *)
(***************************************************************************)
EXTENDS Integers, FiniteSets

CONSTANTS
    Wheels,    \* the wheels, numbered from 1
    WheelIds,  \* wheel numbers that commands carry
    Speeds,    \* speeds that commands carry
    Torques,   \* what the control law may ask of a motor
    MaxTorque, \* the limit of a motor
    MaxSpeed,  \* the rail of a wheel
    DesatStop  \* momentum at which a dump disengages

ASSUME AdcsAssumption ==
    /\ Wheels # {} /\ Wheels = 1..Cardinality(Wheels)
    /\ WheelIds \subseteq Int /\ Speeds \subseteq Int /\ Torques \subseteq Int
    /\ MaxTorque \in Nat \ {0} /\ MaxSpeed \in Nat \ {0} /\ DesatStop \in Nat

VARIABLES
    machine, \* ModeMachine and AttitudeController: mode, law, driven, ...
    motor,   \* WheelCommand of each wheel: torque, target speed, enabled
    speed,   \* the speed of each wheel
    fed      \* history: what each motor ran on in the last substep

adcsVars == <<machine, motor, speed, fed>>

Modes == {"DETUMBLE", "SUNSAFE", "NADIR", "TARGET_TRACK", "INERTIAL_POINT", "STANDBY"}
Resting == {"STANDBY", "DETUMBLE"}

NoTarget == MaxSpeed + 1000

\* A model is built idle, in STANDBY, and ticks once without a step.
AdcsInit ==
    /\ machine = [mode |-> "STANDBY", law |-> "idle", driven |-> {}, aimed |-> FALSE,
                  desaturating |-> FALSE, mtq |-> TRUE, sensed |-> TRUE,
                  dipole |-> {}]
    /\ motor = [w \in Wheels |-> [torque |-> 0, target |-> NoTarget, enabled |-> TRUE]]
    /\ speed = [w \in Wheels |-> 0]
    /\ fed = [w \in Wheels |-> "nothing"]

-----------------------------------------------------------------------------
\* AttitudeController.idle: what the controller wrote goes back to zero, on
\* wheels that were disabled since as well.
WithTorque(m, ws, u) ==
    [w \in Wheels |-> IF w \in ws THEN [m[w] EXCEPT !.torque = u[w], !.target = NoTarget]
                      ELSE m[w]]
\* Mutant: only the wheels that still run are zeroed.
HandedBackIfEnabled ==
    WithTorque(motor, {w \in machine.driven : motor[w].enabled}, [w \in Wheels |-> 0])
HandedBack == WithTorque(motor, machine.driven, [w \in Wheels |-> 0])

\* ModeMachine.set_mode, from a machine whose ground target may just be set.
SetModeFrom(old, mode) ==
    /\ mode = "TARGET_TRACK" => old.aimed
    /\ machine' = [old EXCEPT !.mode = mode, !.sensed = FALSE,
                              !.law = IF mode \in Resting THEN "idle" ELSE @,
                              !.driven = IF mode \in Resting THEN {} ELSE @]
    /\ motor' = IF mode \in Resting THEN HandedBack ELSE motor
    /\ UNCHANGED <<speed, fed>>

\* The commands of AdcsModel; what raises is logged and leaves no trace.
SetMode == \E mode \in Modes : SetModeFrom(machine, mode)
Slew == SetModeFrom(machine, "INERTIAL_POINT")
TrackTarget == SetModeFrom([machine EXCEPT !.aimed = TRUE], "TARGET_TRACK")

\* _wheel_index refuses a wheel that is not there.
OnWheel(changed) ==
    /\ \E id \in WheelIds \cap Wheels : motor' = [motor EXCEPT ![id] = changed[id]]
    /\ UNCHANGED <<machine, speed, fed>>

WheelSetSpeed ==
    \E s \in Speeds : OnWheel([w \in Wheels |-> [motor[w] EXCEPT !.target = s]])
WheelEnable == OnWheel([w \in Wheels |-> [motor[w] EXCEPT !.enabled = TRUE]])
WheelDisable == OnWheel([w \in Wheels |-> [motor[w] EXCEPT !.enabled = FALSE]])

Desaturate ==
    machine' = [machine EXCEPT !.desaturating = TRUE] /\ UNCHANGED <<motor, speed, fed>>
MtqEnable ==
    /\ \E on \in BOOLEAN : machine' = [machine EXCEPT !.mtq = on]
    /\ UNCHANGED <<motor, speed, fed>>

-----------------------------------------------------------------------------
\* ModeMachine._point: a pointing mode puts the controller on the attitude.
LawInForce == IF machine.mode \in Resting THEN machine.law ELSE "hold"

\* AttitudeController.update: the law writes the wheels that are enabled.
Writable == IF LawInForce = "idle" THEN {} ELSE {w \in Wheels : motor[w].enabled}

\* ModeMachine._mtq_command: the B-dot law needs two readings in a row, and a
\* dump a controller that takes up the reaction.
Stored == LET total[n \in 0..Cardinality(Wheels)] ==
                  IF n = 0 THEN 0 ELSE total[n - 1] + speed[n]
          IN total[Cardinality(Wheels)]
Dumped == Stored \in -DesatStop..DesatStop
Damps == machine.mode = "DETUMBLE" /\ machine.sensed
Dumps == machine.desaturating /\ ~Dumped /\ LawInForce = "hold"
DipoleCauses == {c \in {"damp", "dump"} : IF c = "damp" THEN Damps ELSE Dumps}

\* Plant._motor_torque, at the speed v.
Limited(u) == IF u > MaxTorque THEN MaxTorque ELSE IF u < -MaxTorque THEN -MaxTorque ELSE u
Delivered(m, v) ==
    LET u == Limited(IF m.target # NoTarget THEN m.target - v ELSE m.torque)
    IN IF ~m.enabled \/ (v >= MaxSpeed /\ u > 0) \/ (v <= -MaxSpeed /\ u < 0) THEN 0 ELSE u

\* Plant.step: the torque turns the wheel, and drag may slow it.
Towards0(v) == IF v > 0 THEN v - 1 ELSE IF v < 0 THEN v + 1 ELSE 0

FedBy(m, w) ==
    CASE ~m[w].enabled -> "nothing"
      [] m[w].enabled /\ m[w].target # NoTarget -> "target"
      [] OTHER -> IF m[w].torque = 0 THEN "nothing"
                  ELSE IF w \in Writable THEN "law" ELSE "leftover"

\* One substep of AdcsModel.advance: a tick of the mode machine and a step of
\* the plant.  An advance of several is several of these.
Substep ==
    \E u \in [Wheels -> Torques], drags \in BOOLEAN :
        LET m == WithTorque(motor, Writable, u)
        IN /\ motor' = m
           /\ speed' = [w \in Wheels |->
                           LET v == speed[w] + Delivered(m[w], speed[w])
                           IN IF drags THEN Towards0(v) ELSE v]
           /\ fed' = [w \in Wheels |-> FedBy(m, w)]
           /\ machine' = [machine EXCEPT
                 !.law = LawInForce, !.driven = @ \union Writable, !.sensed = TRUE,
                 !.desaturating = @ /\ ~Dumped,
                 !.dipole = IF machine.mtq THEN DipoleCauses ELSE {}]

-----------------------------------------------------------------------------
AdcsNext ==
    \/ SetMode \/ Slew \/ TrackTarget
    \/ WheelSetSpeed \/ WheelEnable \/ WheelDisable
    \/ Desaturate \/ MtqEnable
    \/ Substep

AdcsSpec == AdcsInit /\ [][AdcsNext]_adcsVars

-----------------------------------------------------------------------------
(***************************************************************************)
(* Properties                                                              *)
(***************************************************************************)
\* No motor ever runs on a torque of the controller that was not computed in
\* the same tick: not on one left from a law that has ended, not on one left
\* from before the wheel was disabled.  And while the controller is idle
\* there is none to run on, on any wheel (control.py, AttitudeController.idle).
NoStaleTorque ==
    /\ \A w \in Wheels : fed[w] # "leftover"
    /\ machine.law = "idle" => \A w \in Wheels : motor[w].torque = 0
    /\ machine.mode \in Resting => machine.law = "idle" /\ machine.driven = {}
=============================================================================
