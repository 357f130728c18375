----------------------------- MODULE MCVehicle -----------------------------
(***************************************************************************)
(* The vehicle: its server, and the parts behind the dispatcher.  They are *)
(* checked side by side, one part in motion in a behaviour: the engine, an *)
(* attitude model, or the tasks of the server.                             *)
(***************************************************************************)
EXTENDS Behavior, Adcs, SimServer

VARIABLE part

\* The definition: two heaters, a setpoint in counts, a text, a quantity
\* without a way back from its calibration, and the fields of the models.
Field(text, labels, cal, lo, hi, apid) ==
    [text |-> text, labels |-> labels, cal |-> cal, lo |-> lo, hi |-> hi, apid |-> apid]
NoLabels == [l \in {} |-> 0]
OnOff == "OFF" :> 0 @@ "ON" :> 1
Quantity(apid) == Field(FALSE, NoLabels, "none", 0, 2, apid)

MCTelemetry ==
    <<"TEMP", "1">> :> Quantity(1) @@ <<"TEMP", "2">> :> Quantity(1)
    @@ <<"STATE", "1">> :> Field(FALSE, OnOff @@ "AUTO" :> 2, "none", 0, 3, 1)
    @@ <<"SETPOINT", "">> :> Field(FALSE, NoLabels, "linear", 0, 4, 1)
    @@ <<"OPAQUE", "">> :> Field(FALSE, NoLabels, "opaque", 0, 2, 1)
    @@ <<"NAME", "">> :> Field(TRUE, NoLabels, "none", 0, 0, 1)
    @@ <<"PWR", "HTR">> :> Field(FALSE, OnOff, "none", 0, 1, 2)
    @@ <<"BATTERY", "">> :> Field(FALSE, NoLabels, "none", -3, 3, 2)
    @@ <<"MODE", "">> :> Field(FALSE, "STANDBY" :> 5 @@ "SUNSAFE" :> 1, "none", 0, 7, 3)

\* Numbers are counted in halves: HEAT takes the integers from 1 to 2, TRIM
\* the floats from 1.5 to 2.5.
Arg(labels, bounded, lo, hi, float) ==
    [labels |-> labels, bounded |-> bounded, lo |-> lo, hi |-> hi, float |-> float]
Enum(labels) == Arg(labels, FALSE, 0, 0, FALSE)

MCCommandDefs ==
    [HEAT |-> [Heater |-> Arg(NoLabels, TRUE, 2, 4, FALSE)],
     TRIM |-> [Level |-> Arg(NoLabels, TRUE, 3, 5, TRUE)],
     SWITCH |-> [Load |-> Enum("HTR" :> 0), State |-> Enum(OnOff)],
     SET |-> [Id |-> Arg(NoLabels, FALSE, 0, 0, FALSE)],
     ADCS_SET_MODE |-> [Mode |-> Enum("STANDBY" :> 5 @@ "SUNSAFE" :> 1)]]

MCCommanded ==
    {[name |-> "HEAT", args |-> [Heater |-> h]] : h \in {2, 4}}
    \union {[name |-> "TRIM", args |-> [Level |-> l]] : l \in {3, 4}}
    \union {[name |-> "SWITCH", args |-> [Load |-> l, State |-> s]] : l \in 0..1, s \in 0..1}
    \union {[name |-> "SET", args |-> [Id |-> i]] : i \in {0, 2}}
    \union {[name |-> "ADCS_SET_MODE", args |-> [Mode |-> 5]]}

MCDraws == {[to |-> 0, off |-> 0, settles |-> TRUE], [to |-> 1, off |-> 1, settles |-> FALSE],
            [to |-> 2, off |-> 0, settles |-> TRUE]}

MCSourceValues ==
    [mode |-> {Text("SUNSAFE")}, sun |-> {Num(0), Num(3)},
     limit |-> {Num(1)}, wheelAmps |-> {Num(1)}]

\* Entries of the files.
Tpl(base, lit, arg) == [base |-> base, lit |-> lit, arg |-> arg]
Of(base) == Tpl(base, "", "")
In(table, key, body) == [table |-> table, key |-> key, body |-> body]
NoRef == [at |-> Nowhere, num |-> 0]
To(n) == [at |-> Nowhere, num |-> n]
At(t) == [at |-> t, num |-> 0]
Body(keys, value, arg, refs) ==
    [keys |-> keys, bad |-> {}, emit |-> "interval", value |-> value, arg |-> arg,
     refs |-> refs]
NoRefs == [k \in {} |-> NoRef]
SetTo(v) == Body({"set"}, v, "", NoRefs)
Copy(a) == Body({"set"}, Num(0), a, NoRefs)
Inc(n) == Body({"increment"}, Num(n), "", NoRefs)
Ramp(r) == Body({"ramp_to", "tau"}, Num(0), "", [ramp_to |-> r])
Hold(r) == Body({"hold"}, Num(0), "", [hold |-> r])
Osc(r, a) == Body({"oscillate", "amplitude", "period"}, Num(a), "", [oscillate |-> r])
Regulate(r, up, down) ==
    Body({"regulate"} \union Loop, Num(0), "",
         [regulate |-> r, heats_to |-> up, cools_to |-> down])
Noisy(b) == [b EXCEPT !.keys = @ \union {"noise"}]
AtOnce(b) == [b EXCEPT !.keys = @ \union {"emit"}, !.emit = "immediate"]

AttitudeModel == [kind |-> "adcs", bad |-> {}, wheels |-> 1, substep |-> 100, response |-> 10000,
         outputs |-> <<"MODE", "">> :> [of |-> "mode", wheel |-> 0],
         commands |-> [set_mode |-> "ADCS_SET_MODE"], loads |-> <<>>]
Heater(duty) ==
    [keys |-> {"per_element", "elements"}, bad |-> {}, base |-> 0, wheels |-> FALSE,
     by |-> <<>>, each |-> 1, elements |-> <<[mode |-> <<"STATE", "1">>, duty |-> duty]>>]
Power(load) ==
    [kind |-> "power", bad |-> {},
     outputs |-> <<"BATTERY", "">> :> [of |-> "battery_current", wheel |-> 0],
     commands |-> <<>>, loads |-> [HTR |-> load]]
ActivityLoad ==
    [keys |-> {"base", "by", "wheels"}, bad |-> {}, base |-> 1, wheels |-> TRUE,
     by |-> <<"STATE", "1">> :> [ON |-> 1], each |-> 0, elements |-> <<>>]

\* Sidecars of one or two files.
File(entries) ==
    [sound |-> TRUE,
     tables |-> [t \in {n.table : n \in Range(entries)} |->
                    LET ns == SelectSeq(entries, LAMBDA n : n.table = t)
                    IN  [i \in DOMAIN ns |-> [key |-> ns[i].key, body |-> ns[i].body]]]]
Temp(a) == Tpl("TEMP", "", a)

Thermal ==
    File(<<In("_initial", Tpl("STATE", "1", ""), SetTo(Text("AUTO"))),
           In("_initial", Of("SETPOINT"), SetTo(Num(1))),
           In("_signals", Tpl("TEMP", "2", ""), Osc(To(1), 1)),
           In("HEAT", Temp("Heater"), Regulate(At(Of("SETPOINT")), To(2), To(0))),
           In("SET", Tpl("TEMP", "1", ""), AtOnce(Inc(1))),
           In("SWITCH", Tpl("PWR", "", "Load"), Copy("State"))>>)
Bus == File(<<In("_models", Of("power"), Power(Heater(<<"TEMP", "1">>))),
              In("_initial", Tpl("PWR", "HTR", ""), SetTo(Text("ON")))>>)
Ramps ==
    File(<<In("HEAT", Temp("Heater"), Noisy(Ramp(At(Tpl("TEMP", "1", ""))))),
           In("HEAT", Of("SETPOINT"), Hold(To(2))),
           In("TRIM", Temp("Level"), Inc(1)),
           In("TRIM", Of("SETPOINT"), Copy("Level")),
           In("SET", Temp("Id"), AtOnce(SetTo(Num(1)))),
           In("SWITCH", Of("SETPOINT"), Ramp(To(0)))>>)
Vehicle ==
    File(<<In("_models", Of("adcs"), AttitudeModel),
           In("_models", Of("power"), Power(ActivityLoad)),
           In("ADCS_SET_MODE", Tpl("STATE", "1", ""), AtOnce(SetTo(Text("ON")))),
           In("ADCS_SET_MODE", Of("NAME"), SetTo(Text("moved"))),
           In("SWITCH", Tpl("PWR", "", "Load"), Copy("State"))>>)
SelfHeated ==
    File(<<In("HEAT", Temp("Heater"), Regulate(To(1), At(Tpl("TEMP", "1", "")), To(0)))>>)

\* Each of these has one problem that the loader must see.
Refused ==
    {File(<<In("HEAT", Temp("Heater"), SetTo(Text("warm")))>>),
     File(<<In("HEAT", Tpl("STATE", "", "Heater"), SetTo(Num(1)))>>),
     File(<<In("HEAT", Temp("Valve"), SetTo(Num(1)))>>),
     File(<<In("SET", Of("OPAQUE"), Hold(To(1)))>>),
     File(<<In("SET", Of("NAME"), Inc(1))>>),
     File(<<In("SET", Tpl("STATE", "1", ""), SetTo(Num(3)))>>),
     File(<<In("SET", Tpl("TEMP", "1", ""), Ramp(At(Tpl("TEMP", "1", ""))))>>),
     File(<<In("SET", Tpl("TEMP", "1", ""), Hold(At(Of("NAME"))))>>),
     File(<<In("SWITCH", Tpl("PWR", "", "Load"), SetTo(Num(1)))>>)}

MCSidecars ==
    {<<Thermal, Bus>>, <<Ramps>>, <<Vehicle>>, <<SelfHeated>>, <<Thermal, Ramps>>}
    \union {<<f>> : f \in Refused}

MCTorques == {-1, 2}

\* Commands as the server sees them: one that is not sound in each way, and
\* sound ones that different consumers claim.
Uplinked(fault, claims) ==
    [fault |-> fault, claims |-> claims,
     sends |-> [k \in claims |-> IF k = "sequence" THEN 0 ELSE 1]]
MCPackets ==
    {Uplinked(fault, {}) : fault \in {"none", "garbled", "unknown"}}
    \union {Uplinked("range", {"link"}), Uplinked("none", {"behavior", "sequence"}),
            Uplinked("none", {"file", "link"})}

-----------------------------------------------------------------------------
Init ==
    /\ part \in {"engine", "attitude", "server"}
    /\ BehaviorInit /\ (part = "engine" \/ spec = Parsed(<<Ramps>>))
    /\ AdcsInit /\ ServerInit

Next ==
    \/ part = "engine" /\ BehaviorNext
       /\ UNCHANGED <<part, adcsVars, serverVars>>
    \/ part = "attitude" /\ AdcsNext
       /\ UNCHANGED <<part, behaviorVars, serverVars>>
    \/ part = "server" /\ ServerNext
       /\ UNCHANGED <<part, behaviorVars, adcsVars>>

Spec ==
    /\ Init
    /\ [][Next]_<<part, behaviorVars, adcsVars, serverVars>>
    /\ ServerFairness
=============================================================================
