------------------------------ MODULE Behavior ------------------------------
(***************************************************************************)
(* The behavior engine (behavior/engine.py, the run time of the verbs, the *)
(* power model): an overlay of field values that commands write, that      *)
(* active behaviors move at every tick of the beacon loop, and that the    *)
(* physics models own in part.                                             *)
(***************************************************************************)
EXTENDS BehaviorLoad

CONSTANTS
    Sidecars,      \* what the directory of the satellite may hold
    Commanded,     \* what may be sent: records of a command and its raw arguments
    Draws,         \* outcomes of one advance: to, off (noise), settles
    CountsPerUnit, \* slope of a linear calibrator
    SourceValues   \* a source of the ADCS or the receiver |-> what it may read

\* What is out of range never reaches the engine (range_violations): an
\* integer is a whole number of its range.  Nothing is asked of a float, which
\* has fractions, and whose bounds are rounded to the wire before they are
\* compared.  An argument with labels is a number of the wire, any other one
\* is counted in halves.
ASSUME BehaviorAssumption ==
    /\ CountsPerUnit \in Nat \ {0}
    /\ \A m \in Commanded :
           /\ m.name \in DOMAIN CommandDefs
           /\ DOMAIN m.args = DOMAIN CommandDefs[m.name]
           /\ \A a \in DOMAIN m.args :
                  LET p == CommandDefs[m.name][a]
                  IN  p.bounded /\ DOMAIN p.labels = {} =>
                          /\ p.lo \in Int /\ p.hi \in Int /\ m.args[a] \in Int
                          /\ ~p.float => m.args[a] \in p.lo..p.hi /\ Whole(m.args[a])
    /\ \A d \in Draws : d.to \in Int /\ d.off \in Int /\ d.settles \in BOOLEAN
    /\ {"sun", "limit", "wheelAmps"} \subseteq DOMAIN SourceValues

\* TOML: tables are sequences of entries, a key stands once in a table of a
\* file, and a value is a number or a text.
ASSUME SidecarAssumption ==
    \A files \in Sidecars :
        /\ files \in Seq(Range(files))
        /\ \A i \in DOMAIN files : \A table \in DOMAIN files[i].tables :
               LET ns == files[i].tables[table]
               IN  /\ ns \in Seq(Range(ns))
                   /\ \A j, k \in DOMAIN ns : ns[j].key = ns[k].key => j = k
                   /\ table \notin {"_models", "_environment"} =>
                          \A n \in Range(ns) : n.body.value.text = "" \/ n.body.value.num = 0

VARIABLES
    spec,    \* what the engine was built from
    engine,  \* its overlay, registry of behaviors and pending emissions
    told,    \* what the last command did: the keys of the effects it applied
             \* and skipped; ticked: whether a tick came after it, and nothing else
    lastWord \* history: what the last command that reached a field did to it

behaviorVars == <<spec, engine, told, lastWord>>

-----------------------------------------------------------------------------
\* _wire_value: the wire form of a value in a field, Unfit when it has none.
Unfit == [text |-> "unfit", num |-> 1, half |-> 0]

Clamped(f, n) ==
    IF n < Telemetry[f].lo THEN Telemetry[f].lo
    ELSE IF n > Telemetry[f].hi THEN Telemetry[f].hi ELSE n

\* round() of so many halves: to the even number when it is a tie.
Rounded(h) ==
    IF Whole(h) \/ Whole(Floor(h)) THEN Floor(h) ELSE Ceil(h)

WireValue(f, v) ==
    IF v.text # ""
    THEN IF v.text \in Labels(f) THEN Num(Telemetry[f].labels[v.text])
         ELSE IF Telemetry[f].text THEN v ELSE Unfit
    ELSE IF Telemetry[f].text \/ ~Invertible(f) THEN Unfit
         ELSE LET h == 2 * v.num + v.half
              IN  Num(Clamped(f, Rounded(IF Telemetry[f].cal = "linear" THEN h * CountsPerUnit
                                         ELSE h)))

\* A dictionary that takes over the entries of another one.
Merged(old, new) ==
    [x \in DOMAIN old \union DOMAIN new |-> IF x \in DOMAIN new THEN new[x] ELSE old[x]]

\* _store: what does not fit leaves the field alone.
Store(e, f, v) ==
    IF WireValue(f, v) = Unfit THEN e
    ELSE [e EXCEPT !.overlay = Merged(@, [x \in {f} |-> WireValue(f, v)])]

\* The overlay in engineering units; _live_number and _current_engineering.
IsNumeric(e, f) == f \in DOMAIN e.overlay /\ e.overlay[f].text = ""
Engineering(e, f) ==
    IF Telemetry[f].cal = "linear" THEN e.overlay[f].num \div CountsPerUnit
    ELSE e.overlay[f].num
Current(e, f) == IF IsNumeric(e, f) THEN Engineering(e, f) ELSE 0

NoName == <<"", "">>
IsKnown(e, r) == r.at = NoName \/ IsNumeric(e, r.at)
Number(e, r) == IF r.at = NoName THEN r.num ELSE Engineering(e, r.at)

-----------------------------------------------------------------------------
\* The registry: a sequence, for a behavior is advanced in the order in
\* which its field was first driven.
Index(e, f) == {i \in DOMAIN e.behaviors : e.behaviors[i].on = f}
Without(e, f) ==
    IF Index(e, f) = {} THEN e
    ELSE [e EXCEPT !.behaviors = RemoveAt(@, CHOOSE i \in Index(e, f) : TRUE)]
With(e, b) ==
    [e EXCEPT !.behaviors =
        IF Index(e, b.on) = {} THEN Append(@, b)
        ELSE ReplaceAt(@, CHOOSE i \in Index(e, b.on) : TRUE, b)]

\* _template_arg: the label of an enumerated argument (one of several), none
\* of a value without a label; the digits of a whole number, an integral float
\* included; and of a fraction its decimals.
Decimals(h) ==
    IF h >= 0 THEN ToString(Floor(h)) \o ".5" ELSE "-" \o ToString(Floor(-h)) \o ".5"

ArgText(c, a, raw) ==
    LET labels == CommandDefs[c][a].labels
        named == {l \in DOMAIN labels : labels[l] = raw}
    IN  IF DOMAIN labels = {}
        THEN {IF Whole(raw) THEN ToString(Floor(raw)) ELSE Decimals(raw)}
        ELSE IF named = {} THEN {} ELSE {CHOOSE l \in named : TRUE}

\* _resolve_template: the field it names, none when it names none.
Resolved(t, c, args) ==
    (IF IsTemplated(t) THEN {Filled(t, x) : x \in ArgText(c, t.arg, args[t.arg])}
     ELSE {Plain(t)}) \cap DOMAIN Telemetry

\* Mutant of Displaced: a direct write leaves the behavior of the field.
DisplacedNothing(e, f) == e

\* Last command wins: a direct write ends the behavior of the field.
Displaced(e, f) == Without(e, f)

Skipped(e, key) == [e EXCEPT !.skipped = @ \union {key}]
Applied(e, key, f, verb) ==
    [e EXCEPT !.applied = @ \union {key}, !.word = Merged(@, [x \in {f} |-> verb])]

\* _start_behavior for an effect n that has resolved to the field f.
Started(e, n, c, args, f) ==
    LET verb == VerbOf(n.body)
        center == n.body.refs[verb]
        at == IF IsLive(center) THEN Resolved(center.at, c, args) ELSE {NoName}
        side(k) == IF k \in Verbs[verb].operands
                   THEN [at |-> Plain(n.body.refs[k].at), num |-> n.body.refs[k].num]
                   ELSE [at |-> NoName, num |-> 0]
    IN  IF Telemetry[f].text \/ ~Invertible(f) \/ at = {} \/ f \in at THEN Skipped(e, n.key)
        ELSE Applied(With(e, [on |-> f, verb |-> verb,
                              ref |-> [at |-> CHOOSE x \in at : TRUE, num |-> center.num],
                              heats |-> side("heats_to"), cools |-> side("cools_to"),
                              noisy |-> "noise" \in n.body.keys, amplitude |-> n.body.value.num,
                              seeded |-> FALSE, value |-> 0, element |-> FALSE]),
                     n.key, f, [by |-> verb, value |-> Unfit])

\* _raw_arg: what a copy stores of an argument.
Copied(c, a, raw) ==
    IF DOMAIN CommandDefs[c][a].labels # {} THEN Num(raw)
    ELSE [text |-> "", num |-> Floor(raw), half |-> raw % 2]

\* value_for of set, copy and increment.
ValueFor(e, n, c, args, f) ==
    IF VerbOf(n.body) = "increment" THEN Num(Current(e, f) + n.body.value.num)
    ELSE IF n.body.arg # "" THEN Copied(c, n.body.arg, args[n.body.arg])
    ELSE n.body.value

\* _apply_effect for an effect n that has resolved to the field f.
Wrote(e, n, c, args, f) ==
    LET v == ValueFor(e, n, c, args, f)
    IN  IF ~Invertible(f) \/ WireValue(f, v) = Unfit THEN Skipped(e, n.key)
        ELSE LET w == Displaced(Store(e, f, v), f)
             IN  Applied([w EXCEPT !.pending = IF n.body.emit = "immediate"
                                               THEN @ \union {Telemetry[f].apid} ELSE @],
                         n.key, f, [by |-> "write", value |-> WireValue(f, v)])

\* One effect: its field must resolve and belong to no model.
Effect(e, n, c, args, owned) ==
    LET at == Resolved(n.key, c, args) \ owned
    IN  IF at = {} THEN Skipped(e, n.key)
        ELSE LET f == CHOOSE x \in at : TRUE
             IN  IF VerbOf(n.body) \in Continuous THEN Started(e, n, c, args, f)
                 ELSE Wrote(e, n, c, args, f)

\* The effects of a command in turn, or the signals.
Effects(e, ns, c, args, owned) ==
    LET after[i \in 0..Len(ns)] ==
            IF i = 0 THEN e ELSE Effect(after[i - 1], ns[i], c, args, owned)
    IN  after[Len(ns)]

-----------------------------------------------------------------------------
\* advance() of the four verbs; d is what the arithmetic comes to.
Between(a, b, x) ==
    IF a <= b THEN (IF x < a THEN a ELSE IF x > b THEN b ELSE x)
    ELSE (IF x < b THEN b ELSE IF x > a THEN a ELSE x)

Emitted(e, b, d, n) == Store(e, b.on, Num(IF b.noisy THEN n + d.off ELSE n))

AdvanceHold(e, b, d) ==
    IF IsKnown(e, b.ref) THEN Emitted(e, b, d, Number(e, b.ref)) ELSE e

AdvanceOscillate(e, b, d) ==
    IF ~IsKnown(e, b.ref) THEN e
    ELSE LET c == Number(e, b.ref)
         IN  Emitted(e, b, d, Between(c - b.amplitude, c + b.amplitude, d.to))

\* The trajectory moves toward the target; within its tolerance, or without
\* progress, the ramp lands: exactly on the target, and retires, a noisy
\* one into a hold of the number.
AdvanceRamp(e, b, d) ==
    IF ~IsKnown(e, b.ref) THEN e
    ELSE LET target == Number(e, b.ref)
             from == IF b.seeded THEN b.value ELSE Current(e, b.on)
             to == Between(from, target, d.to)
             moved == Emitted(With(e, [b EXCEPT !.seeded = TRUE, !.value = to]), b, d, to)
             landed == Store(moved, b.on, Num(target))
         IN  IF ~(to = target /\ (d.settles \/ from = target)) THEN moved
             ELSE IF b.noisy
             THEN With(landed, [b EXCEPT !.verb = "hold", !.seeded = FALSE, !.value = 0,
                                         !.ref = [at |-> NoName, num |-> target]])
             ELSE Without(landed, b.on)

\* The loop of a thermostat, which flips its element at the edges of a band
\* of one unit on either side of the center.
AdvanceRegulate(e, b, d) ==
    IF ~IsKnown(e, b.ref) THEN e
    ELSE LET center == Number(e, b.ref)
             s == IF b.seeded THEN b
                  ELSE [b EXCEPT !.seeded = TRUE, !.value = Current(e, b.on),
                                 !.element = Current(e, b.on) < center]
             side == IF s.element THEN s.heats ELSE s.cools
             to == Between(s.value, Number(e, side), d.to)
             element == IF s.element THEN to < center + 1 ELSE to <= center - 1
         IN  IF ~IsKnown(e, side) THEN With(e, s)
             ELSE Emitted(With(e, [s EXCEPT !.value = to, !.element = element]), b, d, to)

Advance(e, b, d) ==
    CASE b.verb = "hold" -> AdvanceHold(e, b, d)
      [] b.verb = "oscillate" -> AdvanceOscillate(e, b, d)
      [] b.verb = "ramp_to" -> AdvanceRamp(e, b, d)
      [] b.verb = "regulate" -> AdvanceRegulate(e, b, d)

\* Every behavior of the snapshot in turn: a behavior changes only its own
\* entry, so that the snapshot is the registry.
AdvanceAll(e, draw) ==
    LET bs == e.behaviors
        after[i \in 0..Len(bs)] ==
            IF i = 0 THEN e ELSE Advance(after[i - 1], bs[i], draw[bs[i].on])
    IN  after[Len(bs)]

-----------------------------------------------------------------------------
\* The power model: what its loads draw while their gates read ON.
Reads(e, f, label) ==
    label \in Labels(f) /\ IsNumeric(e, f) /\ e.overlay[f].num = Telemetry[f].labels[label]

\* _regulate_element_on.
ElementOn(e, f) == \E i \in Index(e, f) : e.behaviors[i].element

IsLit(e, el) ==
    Reads(e, el.mode, "ON") \/ (Reads(e, el.mode, "AUTO") /\ ElementOn(e, el.duty))

\* Of two labels of one value, one counts.
Drawn(e, f, amps) ==
    LET on == {x \in DOMAIN amps : Reads(e, f, x)}
    IN  IF on = {} THEN 0 ELSE amps[CHOOSE x \in on : TRUE]

Amps(e, l) ==
    l.base + (IF l.wheels THEN e.wheelAmps ELSE 0)
    + SumFunction([f \in DOMAIN l.by |-> Drawn(e, f, l.by[f])])
    + l.each * Cardinality({i \in DOMAIN l.elements : IsLit(e, l.elements[i])})

LoadCurrent(e, m) ==
    SumFunction([k \in {k \in DOMAIN m.loads : Reads(e, Gate(k), "ON")} |-> Amps(e, m.loads[k])])

\* _step: a surplus charges up to a limit, a deficit is the battery's.
BatteryCurrent(e, m, sun, limit) ==
    LET net == sun - LoadCurrent(e, m) IN IF net > limit THEN limit ELSE net

\* What a model reports of its sources: reading gives those that the orbit,
\* the attitude and the sensors decide.
Reported(e, m, source, reading) ==
    IF source.of = "battery_current"
    THEN Num(BatteryCurrent(e, m, reading["sun"].num, reading["limit"].num))
    ELSE reading[source.of]

\* _store_model_outputs; seen: the engine at the time of the physics.
StoreOutputs(e, seen, m, reading) ==
    LET wire == [f \in DOMAIN m.outputs |->
                    WireValue(f, Reported(seen, m, m.outputs[f], reading))]
    IN  [e EXCEPT !.overlay =
            Merged(@, [f \in {f \in DOMAIN m.outputs : wire[f] # Unfit} |-> wire[f]])]

\* The models in turn; in a tick (live) each sees what those before it stored.
StoreModels(e, models, live, reading) ==
    LET after[i \in 0..Len(models)] ==
            IF i = 0 THEN e
            ELSE StoreOutputs(after[i - 1], IF live THEN after[i - 1] ELSE e, models[i], reading)
    IN  after[Len(models)]

AdvanceModels(e, reading) ==
    StoreModels([e EXCEPT !.wheelAmps = reading["wheelAmps"].num], spec.models, TRUE, reading)

Readings ==
    {r \in [DOMAIN SourceValues -> UNION {SourceValues[s] : s \in DOMAIN SourceValues}] :
        \A s \in DOMAIN SourceValues : r[s] \in SourceValues[s]}

-----------------------------------------------------------------------------
NoWord == [f \in {} |-> [by |-> "none", value |-> Unfit]]

Blank ==
    [overlay |-> [f \in {} |-> Num(0)], behaviors |-> <<>>, pending |-> {}, wheelAmps |-> 0,
     applied |-> {}, skipped |-> {}, word |-> NoWord]

\* The parts of an accumulator that outlive the call.
Kept(e) == [e EXCEPT !.applied = {}, !.skipped = {}, !.word = NoWord]

\* The initial values, each of a field of its own.
Initial(ns) ==
    LET fit == {n \in Range(ns) : WireValue(Plain(n.key), n.body.value) # Unfit}
    IN  [f \in {Plain(n.key) : n \in fit} |->
            WireValue(f, (CHOOSE n \in fit : Plain(n.key) = f).body.value)]

\* __init__: the initial values, the signals, then the models, all of which
\* are made before one of them stores.
Built(bs, reading) ==
    LET blank == [Blank EXCEPT !.overlay = Initial(bs.initial),
                               !.wheelAmps = reading["wheelAmps"].num]
        booted == Effects(blank, bs.signals, Signals, <<>>, bs.owned)
    IN  StoreModels(booted, bs.models, FALSE, reading)

BehaviorInit ==
    /\ spec \in {Parsed(s) : s \in {s \in Sidecars : Loads(s)}}
    /\ \E reading \in Readings : engine = Kept(Built(spec, reading))
    /\ told = [command |-> "", args |-> <<>>, applied |-> {}, skipped |-> {}, ticked |-> FALSE]
    /\ lastWord = NoWord

\* The model that consumes a command; the ADCS accepts it or refuses it.
Consumers(c) == {i \in DOMAIN spec.models : c \in Consumes(spec.models[i])}

\* apply_command.
ApplyCommand(m, accepted, reading) ==
    LET fresh == [engine EXCEPT !.pending = {}, !.word = lastWord]
        cfg == spec.models[CHOOSE i \in Consumers(m.name) : TRUE]
        steered == IF ~accepted THEN fresh
                   ELSE [StoreOutputs(fresh, fresh, cfg, reading) EXCEPT
                            !.pending = @ \union {Telemetry[f].apid : f \in DOMAIN cfg.outputs}]
        done == Effects(steered, spec.commands[m.name], m.name, m.args, spec.owned)
    IN  /\ engine' = Kept(done)
        /\ told' = [command |-> m.name, args |-> m.args,
                    applied |-> done.applied, skipped |-> done.skipped, ticked |-> FALSE]
        /\ lastWord' = done.word
        /\ UNCHANGED spec

\* Mutant of Ticked: the models go before the behaviors.
TickedModelsFirst(draw, reading) == AdvanceAll(AdvanceModels(engine, reading), draw)

\* tick(dt) with a positive dt: the behaviors, then the models.
Ticked(draw, reading) == AdvanceModels(AdvanceAll(engine, draw), reading)

Tick(draw, reading) ==
    /\ engine' = Kept(Ticked(draw, reading))
    /\ told' = [told EXCEPT !.ticked = TRUE]
    /\ UNCHANGED <<spec, lastWord>>

\* pop_immediate_apids.
PopImmediateApids ==
    /\ engine.pending # {}
    /\ engine' = [engine EXCEPT !.pending = {}]
    /\ UNCHANGED <<spec, told, lastWord>>

Driven == {engine.behaviors[i].on : i \in DOMAIN engine.behaviors}

BehaviorNext ==
    \/ \E m \in Commanded, accepted \in BOOLEAN, reading \in Readings :
           /\ accepted => Consumers(m.name) # {}
           /\ ApplyCommand(m, accepted, reading)
    \/ \E draw \in [Driven -> Draws], reading \in Readings :
           Tick(draw, reading)
    \/ PopImmediateApids

BehaviorSpec == BehaviorInit /\ [][BehaviorNext]_behaviorVars
-----------------------------------------------------------------------------
(***************************************************************************)
(* One writer at a time per field: what the last command that reached a    *)
(* field did to it stands.  A value that a command wrote is still there,   *)
(* whatever ticks and commands for other fields did since, and a field     *)
(* under a behavior is under the one of that command (a noisy ramp that    *)
(* has landed holds).  The fields of the models are nobody else's.         *)
(***************************************************************************)
OneWriterPerField ==
    /\ \A f \in DOMAIN lastWord :
           IF lastWord[f].by = "write"
           THEN Index(engine, f) = {} /\ engine.overlay[f] = lastWord[f].value
           ELSE \A i \in Index(engine, f) :
                    \/ engine.behaviors[i].verb = lastWord[f].by
                    \/ engine.behaviors[i].verb = "hold" /\ lastWord[f].by = "ramp_to"
    /\ \A f \in Driven : Cardinality(Index(engine, f)) = 1
    /\ (Driven \union DOMAIN lastWord) \cap spec.owned = {}

\* A float that is none of the whole numbers its range was expanded to.
Unexpanded(c, a, raw) ==
    LET p == CommandDefs[c][a]
    IN  /\ DOMAIN p.labels = {} /\ p.float
        /\ Whole(raw) => Floor(raw) \notin Ceil(p.lo)..Floor(p.hi)

\* Why an effect that was loaded may still be skipped: it copies an argument,
\* a template of it was not bounded, the argument has no label or is a float
\* between the numbers of its range, or it resolves to a field of a model or
\* refers to itself.
Excused(n, c, args) ==
    LET verb == VerbOf(n.body)
        center == IF verb \in Continuous THEN n.body.refs[verb].at ELSE Nowhere
    IN  \/ n.body.arg # ""
        \/ \E t \in {n.key, center} :
               /\ IsTemplated(t)
               /\ \/ ~Bounded(t, c) \/ Unexpanded(c, t.arg, args[t.arg])
                  \/ ArgText(c, t.arg, args[t.arg]) = {}
        \/ IsTemplated(n.key) /\ Resolved(n.key, c, args) \cap spec.owned # {}
        \/ center # n.key /\ Resolved(center, c, args) \cap Resolved(n.key, c, args) # {}

(***************************************************************************)
(* Validation is strict and total: of the effects of a command that loaded *)
(* clean none is skipped when the command executes, except for the reasons *)
(* that the loader leaves to the execution, and for a fraction of a float, *)
(* which its expansion of a range (_arg_values) passes over.               *)
(***************************************************************************)
LoadedEffectsApply ==
    told.command # "" =>
        \A n \in Range(spec.commands[told.command]) :
            n.key \in told.skipped => Excused(n, told.command, told.args)

\* The fields that decide what the loads of a power model draw.
Switches(m) ==
    UNION {{Gate(k)} \union DOMAIN m.loads[k].by
           \union {m.loads[k].elements[i].mode : i \in DOMAIN m.loads[k].elements} :
               k \in DOMAIN m.loads}

(***************************************************************************)
(* After a tick the battery carries the loads as the switches and the      *)
(* elements of the thermostats then are: a loop that lit its element in    *)
(* this tick is already paid for.  Only a switch that the model itself or  *)
(* one after it writes is paid for a tick later, and a field without a way *)
(* back from its calibration does not show the current at all.             *)
(***************************************************************************)
PowerFollowsSwitches ==
    told.ticked =>
        \A i \in DOMAIN spec.models :
            LET m == spec.models[i]
            IN  \A f \in DOMAIN m.outputs :
                    /\ m.outputs[f].of = "battery_current" /\ Invertible(f)
                    /\ \A j \in i..Len(spec.models) :
                           Switches(m) \cap DOMAIN spec.models[j].outputs = {}
                    => \E sun \in SourceValues["sun"], limit \in SourceValues["limit"] :
                           engine.overlay[f] =
                               WireValue(f, Num(BatteryCurrent(engine, m, sun.num, limit.num)))
=============================================================================
