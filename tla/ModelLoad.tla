----------------------------- MODULE ModelLoad -----------------------------
(***************************************************************************)
(* What the loader accepts of the physics models of a satellite: the       *)
(* [_models] tables of the kinds adcs, power and nav and the one           *)
(* [_environment] they share (dynamics/model.py, power.py, nav.py).  Every *)
(* problem refuses the whole sidecar, so that acceptance is a conjunction. *)
(***************************************************************************)
EXTENDS Integers, Sequences, SequencesExt, FiniteSets

CONSTANTS
    Telemetry,   \* field name |-> FieldInfo
    CommandDefs  \* command name |-> (argument |-> ParamInfo)

(***************************************************************************)
(* A field name is a pair of a base and a suffix.  FieldInfo: whether the  *)
(* field holds text, its enumeration (label |-> raw), its calibrator, the  *)
(* range of its wire form, its packet.  ParamInfo: an enumeration, or a    *)
(* valid range when it is bounded, and whether it is a float.              *)
(***************************************************************************)
ASSUME DefinitionAssumption ==
    /\ \A f \in DOMAIN Telemetry :
           /\ Telemetry[f].text \in BOOLEAN
           /\ Telemetry[f].cal \in {"none", "linear", "opaque"}
           /\ Telemetry[f].lo \in Int /\ Telemetry[f].hi \in Int
           /\ Telemetry[f].lo <= Telemetry[f].hi
    \* No field is without a name.
    /\ <<"", "">> \notin DOMAIN Telemetry
    /\ \A c \in DOMAIN CommandDefs : \A a \in DOMAIN CommandDefs[c] :
           CommandDefs[c][a].bounded \in BOOLEAN

Labels(f) == DOMAIN Telemetry[f].labels
Enumerated(f) == Labels(f) # {}
Invertible(f) == f \in DOMAIN Telemetry => Telemetry[f].cal # "opaque"

-----------------------------------------------------------------------------
\* The shared world.  bad: the keys whose value is not the number, vector
\* or table that it must be; keys: the keys of its orbit.
Ellipse == {"perigee_km", "apogee_km"}
OrbitKeys == Ellipse \union
    {"altitude_km", "argp_deg", "inclination_deg", "raan_deg", "phase_deg"}

EnvironmentSound(env) ==
    /\ env.bad = {} /\ env.keys \subseteq OrbitKeys
    /\ env.keys \cap Ellipse \in {{}, Ellipse}
    /\ IF Ellipse \subseteq env.keys
       THEN "altitude_km" \notin env.keys /\ env.perigee <= env.apogee
       ELSE "argp_deg" \notin env.keys

-----------------------------------------------------------------------------
\* Where a source of label values may be stored, and a source of numbers.
TakesLabels(f, labels) == Telemetry[f].text \/ labels \subseteq Labels(f)
TakesNumbers(f) == ~Telemetry[f].text /\ ~Enumerated(f) /\ Invertible(f)

ModeNames ==
    {"DETUMBLE", "SUNSAFE", "NADIR", "TARGET_TRACK", "INERTIAL_POINT", "STANDBY"}

\* _COMMAND_ROLES: the conventional command of each role, what it must carry.
Roles ==
    [set_mode |-> [default |-> "ADCS_SET_MODE", needs |-> {"Mode"}],
     slew_to_quaternion |-> [default |-> "ADCS_SLEW_TO_QUATERNION",
                             needs |-> {"Q1", "Q2", "Q3", "Q4"}],
     slew_to_angles |-> [default |-> "ADCS_SLEW_TO_ANGLES",
                         needs |-> {"Roll", "Pitch", "Yaw"}],
     track_target |-> [default |-> "ADCS_TRACK_TARGET", needs |-> {"Latitude", "Longitude"}],
     wheel_set_speed |-> [default |-> "ADCS_WHEEL_SET_SPEED", needs |-> {"WheelId", "Speed"}],
     wheel_enable |-> [default |-> "ADCS_WHEEL_ENABLE", needs |-> {"WheelId"}],
     wheel_disable |-> [default |-> "ADCS_WHEEL_DISABLE", needs |-> {"WheelId"}],
     desaturate |-> [default |-> "ADCS_DESATURATE", needs |-> {}],
     mtq_enable |-> [default |-> "ADCS_MTQ_ENABLE", needs |-> {"State"}],
     reset_estimator |-> [default |-> "ADCS_RESET_ESTIMATOR", needs |-> {}],
     set_gyro_bias |-> [default |-> "ADCS_SET_GYRO_BIAS",
                        needs |-> {"BiasX", "BiasY", "BiasZ"}]]

Named(m, role) ==
    IF role \in DOMAIN m.commands THEN m.commands[role] ELSE Roles[role].default

\* The roles whose command this satellite has; the others stay unwired.
Wired(m) == {r \in DOMAIN Roles : Named(m, r) \in DOMAIN CommandDefs}

CommandsSound(m) ==
    /\ DOMAIN m.commands \subseteq Wired(m)
    /\ \A r \in Wired(m) : Roles[r].needs \subseteq DOMAIN CommandDefs[Named(m, r)]

ModeLabels(m) == DOMAIN CommandDefs[Named(m, "set_mode")]["Mode"].labels

ReachableModes(m) ==
    {"STANDBY"}
    \union (IF Wired(m) \cap {"slew_to_quaternion", "slew_to_angles"} # {}
            THEN {"INERTIAL_POINT"} ELSE {})
    \union (IF "track_target" \in Wired(m) THEN {"TARGET_TRACK"} ELSE {})
    \union (IF "set_mode" \notin Wired(m) THEN {}
            ELSE IF ModeLabels(m) = {} THEN ModeNames ELSE ModeLabels(m))

\* _SOURCE_LABELS, and the numeric sources of _source_keys (the components
\* of one vector share a name here; a source of a wheel carries its number).
SourceLabels ==
    [est_state |-> {"CONVERGING", "VALID", "INVALID"},
     momentum_flag |-> {"OK", "NEAR_SATURATION"},
     st_health |-> {"OK", "FAULT"}, st_valid |-> {"OK", "FAULT"},
     mtq_state |-> {"ON", "OFF"}, sun_present |-> {"PRESENT", "ABSENT"}]
BodySources == {"pointing_err_deg", "momentum_total", "quat", "st_quat", "angle_deg",
                "rate_deg", "sun", "mag_ut"}
WheelSources == {"speed_rpm", "current_a", "temp_c"}

AdcsBinding(m, f, s) ==
    CASE s.of = "mode" -> TakesLabels(f, ReachableModes(m))
      [] s.of \in DOMAIN SourceLabels -> TakesLabels(f, SourceLabels[s.of])
      [] s.of \in BodySources -> TakesNumbers(f)
      [] s.of \in WheelSources -> s.wheel \in 1..m.wheels /\ TakesNumbers(f)
      [] OTHER -> FALSE

\* The physics step, in milliseconds, is bounded by the cost of a tick, by
\* the accuracy of the integration and by the bandwidth of the controller.
SubstepSound(m) == m.substep \in 1..1000 /\ 5 * m.substep <= m.response

AdcsSound(m) ==
    /\ m.bad = {} /\ m.wheels > 0
    /\ SubstepSound(m)
    /\ CommandsSound(m)
    /\ "set_mode" \in Wired(m) => ModeLabels(m) \subseteq ModeNames
    /\ \A f \in DOMAIN m.outputs : f \in DOMAIN Telemetry /\ AdcsBinding(m, f, m.outputs[f])

-----------------------------------------------------------------------------
NavBinding(f, s) ==
    CASE s.of = "gps_valid" -> TakesLabels(f, {"VALID"})
      [] s.of \in {"clock_s", "pos_km", "vel_kms"} -> TakesNumbers(f)
      [] OTHER -> FALSE

NavSound(m) ==
    /\ m.bad = {}
    /\ \A f \in DOMAIN m.outputs : f \in DOMAIN Telemetry /\ NavBinding(f, m.outputs[f])

-----------------------------------------------------------------------------
\* The switch of a load, which every load of the power model is gated by.
Gate(k) == <<"PWR", k>>
HasOn(f) == f \in DOMAIN Telemetry /\ "ON" \in Labels(f)

\* The elements of a load: each has a mode field and the field it regulates.
ElementSound(e) ==
    /\ HasOn(e.mode)
    /\ e.duty \in DOMAIN Telemetry /\ ~Telemetry[e.duty].text

\* A load: its flat amps, the activity fields with their amps per label, the
\* wheels of the ADCS model, the elements with the amps of each.
LoadSound(k, l) ==
    /\ HasOn(Gate(k))
    /\ l.bad = {} /\ l.keys # {}
    /\ l.keys \subseteq {"base", "by", "amps", "wheels", "per_element", "elements"}
    /\ ("per_element" \in l.keys) = ("elements" \in l.keys)
    /\ "by" \in l.keys => DOMAIN l.by # {}
    /\ "amps" \in l.keys => "by" \in l.keys /\ Cardinality(DOMAIN l.by) = 1
    /\ \A f \in DOMAIN l.by :
           f \in DOMAIN Telemetry /\ DOMAIN l.by[f] \in SUBSET Labels(f) \ {{}}
    /\ "elements" \in l.keys => l.elements # <<>>
    /\ \A i \in DOMAIN l.elements : ElementSound(l.elements[i])

PowerSources == {"solar_voltage", "solar_current", "battery_voltage", "battery_current"}

\* Unlike the other two kinds, only text is refused to a numeric source.
PowerBinding(f, s) == s.of \in PowerSources /\ ~Telemetry[f].text

PowerSound(m) ==
    /\ m.bad = {}
    /\ \A k \in DOMAIN m.loads : LoadSound(k, m.loads[k])
    /\ \A f \in DOMAIN m.outputs : f \in DOMAIN Telemetry /\ PowerBinding(f, m.outputs[f])

-----------------------------------------------------------------------------
ModelSound(m) ==
    /\ DOMAIN m.outputs # {}
    /\ CASE m.kind = "adcs" -> AdcsSound(m)
         [] m.kind = "power" -> PowerSound(m)
         [] m.kind = "nav" -> NavSound(m)
         [] OTHER -> FALSE

\* The commands a model consumes: only the ADCS has roles to wire.
Consumes(m) == IF m.kind = "adcs" THEN {Named(m, r) : r \in Wired(m)} ELSE {}

(***************************************************************************)
(* Across the models of all files: a field has one owner and a command one *)
(* consumer and one role, and a load of the wheels needs an ADCS model.    *)
(***************************************************************************)
OwnersAreUnique(models) ==
    /\ \A i, j \in DOMAIN models : i # j =>
           /\ DOMAIN models[i].outputs \cap DOMAIN models[j].outputs = {}
           /\ Consumes(models[i]) \cap Consumes(models[j]) = {}
    /\ \A i \in DOMAIN models : models[i].kind = "adcs" =>
           Cardinality(Consumes(models[i])) = Cardinality(Wired(models[i]))

LinksSound(models) ==
    (\A i \in DOMAIN models : models[i].kind # "adcs") =>
        \A i \in DOMAIN models : models[i].kind = "power" =>
            \A k \in DOMAIN models[i].loads : ~models[i].loads[k].wheels

Owned(models) == UNION {DOMAIN models[i].outputs : i \in DOMAIN models}
=============================================================================
