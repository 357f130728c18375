---------------------------- MODULE BehaviorLoad ----------------------------
(***************************************************************************)
(* What the loader accepts of the behavior files beside an XTCE definition *)
(* (behavior/loader.py, validate.py and the parsers of the verbs).  The    *)
(* files of a satellite are merged; one problem anywhere refuses them all. *)
(***************************************************************************)
EXTENDS ModelLoad, TLC

CONSTANT MaxExpansions \* _MAX_EXPANSIONS

(***************************************************************************)
(* A template is a field name whose suffix is a literal or the text of an  *)
(* argument of the command; without an argument it is a plain name.        *)
(***************************************************************************)
Nowhere == [base |-> "", lit |-> "", arg |-> ""]
IsTemplated(t) == t.arg # ""
Plain(t) == <<t.base, t.lit>>
Filled(t, text) == <<t.base, text>>

\* A value is a number or a text, never both (there is no empty text).  A
\* copied argument may be half more than the whole number num.
Num(n) == [text |-> "", num |-> n, half |-> 0]
Text(s) == [text |-> s, num |-> 0, half |-> 0]

\* A number-or-@FIELD operand.
IsLive(r) == r.at # Nowhere

\* The table that stands for the absence of a command.
Signals == "_signals"
HasArg(c, a) == c # Signals /\ a \in DOMAIN CommandDefs[c]

-----------------------------------------------------------------------------
\* The finite substitution set of an argument, when it has one: its labels,
\* or the whole numbers inside its range.  Arguments without labels, and the
\* bounds of their ranges, are counted in halves.
Whole(h) == h % 2 = 0
Floor(h) == h \div 2
Ceil(h) == (h + 1) \div 2

HasFewValues(c, a) ==
    LET p == CommandDefs[c][a]
    IN  \/ DOMAIN p.labels # {}
        \/ p.bounded /\ Ceil(p.lo) <= Floor(p.hi) /\ Floor(p.hi) - Ceil(p.lo) < MaxExpansions

ArgValues(c, a) ==
    LET p == CommandDefs[c][a]
    IN  IF DOMAIN p.labels # {} THEN DOMAIN p.labels
        ELSE {ToString(v) : v \in Ceil(p.lo)..Floor(p.hi)}

\* Whether every name that a template can stand for is known at load time.
Bounded(t, c) ==
    \/ ~IsTemplated(t)
    \/ /\ HasArg(c, t.arg) /\ HasFewValues(c, t.arg)
       /\ Cardinality(ArgValues(c, t.arg)) <= MaxExpansions

\* Mutant of Expansions: a template is not expanded.
ExpansionsOfPlainNames(t, c) == IF IsTemplated(t) THEN {} ELSE {Plain(t)}

\* The names a template can stand for; none of an unbounded one, whose
\* checks are deferred to the execution.
Expansions(t, c) ==
    IF ~IsTemplated(t) THEN {Plain(t)}
    ELSE IF Bounded(t, c) THEN {Filled(t, v) : v \in ArgValues(c, t.arg)}
    ELSE {}

-----------------------------------------------------------------------------
\* _check_field_template.
TemplateSound(t, c, numeric) ==
    /\ IsTemplated(t) => HasArg(c, t.arg)
    /\ \A f \in Expansions(t, c) : f \in DOMAIN Telemetry /\ (numeric => ~Telemetry[f].text)

\* _check_numeric_field: every expansion that exists holds numbers.
NumericSound(t, c) ==
    \A f \in Expansions(t, c) \cap DOMAIN Telemetry : ~Telemetry[f].text /\ Invertible(f)

\* _parse_center: a number, or another field that holds numbers.
CenterSound(r, t, c) == IsLive(r) => r.at # t /\ TemplateSound(r.at, c, TRUE)

\* _check_scalar_against.
Fits(v, f) ==
    IF v.text # ""
    THEN v.text \in Labels(f) \/ (~Enumerated(f) /\ Telemetry[f].text)
    ELSE /\ ~Telemetry[f].text
         /\ Enumerated(f) => v.num \in {Telemetry[f].labels[l] : l \in Labels(f)}

\* A set, an initial value, or the copy of an argument.
ScalarSound(t, e, c) ==
    IF e.arg # "" THEN HasArg(c, e.arg) /\ \A f \in Expansions(t, c) : Invertible(f)
    ELSE \A f \in Expansions(t, c) \cap DOMAIN Telemetry : Fits(e.value, f) /\ Invertible(f)

-----------------------------------------------------------------------------
\* The registry of verbs: the attributes each may have, those it must have,
\* and the operands that are numbers or references.
VerbIs(attrs, needs, operands) == [attrs |-> attrs, needs |-> needs, operands |-> operands]
Loop == {"band", "heats_to", "tau_heat", "cools_to", "tau_cool"}

Verbs ==
    [set |-> VerbIs({}, {}, {}),
     increment |-> VerbIs({}, {}, {}),
     ramp_to |-> VerbIs({"tau", "noise"}, {"tau"}, {"ramp_to"}),
     oscillate |-> VerbIs({"amplitude", "period", "shape", "phase", "noise"},
                          {"amplitude", "period"}, {"oscillate"}),
     hold |-> VerbIs({"noise"}, {}, {"hold"}),
     regulate |-> VerbIs(Loop \union {"noise"}, Loop, {"regulate", "heats_to", "cools_to"})]

Continuous == {v \in DOMAIN Verbs : Verbs[v].operands # {}}
VerbKeys == DOMAIN Verbs \union {"emit"} \union UNION {Verbs[v].attrs : v \in DOMAIN Verbs}

(***************************************************************************)
(* An effect: keys of its table (a bare scalar is a set), the keys whose   *)
(* value is not what its check asks for, its emit, and its operands.       *)
(***************************************************************************)
VerbOf(e) == CHOOSE v \in DOMAIN Verbs : v \in e.keys

TableSound(e) ==
    /\ e.keys \subseteq VerbKeys
    /\ e.emit \in {"interval", "immediate"}
    /\ Cardinality(e.keys \cap DOMAIN Verbs) = 1
    /\ e.keys \ {VerbOf(e), "emit"} \subseteq Verbs[VerbOf(e)].attrs
    /\ e.emit = "immediate" => VerbOf(e) \notin Continuous

OperandsSound(t, e, c) ==
    /\ Verbs[VerbOf(e)].needs \subseteq e.keys
    /\ \A k \in Verbs[VerbOf(e)].operands : CenterSound(e.refs[k], t, c)
    \* Only the center of a loop is resolved at execution.
    /\ \A k \in {"heats_to", "cools_to"} \cap Verbs[VerbOf(e)].operands :
           ~IsTemplated(e.refs[k].at)

EffectSound(t, e, c) ==
    /\ TableSound(e) /\ e.bad = {}
    /\ IF VerbOf(e) = "set" THEN ScalarSound(t, e, c)
       ELSE OperandsSound(t, e, c) /\ NumericSound(t, c)

\* An entry of a table of a file: its key and its body.
EntrySound(table, n) ==
    CASE table = "_initial" ->
             /\ ~IsTemplated(n.key) /\ Plain(n.key) \in DOMAIN Telemetry
             /\ n.body.bad = {} /\ ScalarSound(n.key, n.body, Signals)
      [] table = Signals ->
             /\ ~IsTemplated(n.key) /\ Plain(n.key) \in DOMAIN Telemetry
             /\ n.body.keys \cap Continuous # {} /\ EffectSound(n.key, n.body, Signals)
      [] table = "_models" -> ModelSound(n.body)
      [] table = "_environment" -> EnvironmentSound(n.body)
      [] OTHER ->
             /\ table \in DOMAIN CommandDefs
             /\ TemplateSound(n.key, table, FALSE)
             /\ EffectSound(n.key, n.body, table)

-----------------------------------------------------------------------------
(***************************************************************************)
(* A file: whether it is TOML at all, and its tables, each a sequence of   *)
(* entries; TOML knows a key of a table once.                              *)
(***************************************************************************)
Rows(file, table) == IF table \in DOMAIN file.tables THEN file.tables[table] ELSE <<>>

\* The entries of one table of a satellite, in the order of the files.
Entries(files, table) == FlattenSeq([i \in DOMAIN files |-> Rows(files[i], table)])

Models(files) ==
    LET ns == Entries(files, "_models") IN [i \in DOMAIN ns |-> ns[i].body]

\* One file claims a key of a table, the others are in conflict with it.
ClaimsSound(files) ==
    \A i, j \in DOMAIN files : i # j =>
        \A table \in DOMAIN files[i].tables :
            \A n \in Range(files[i].tables[table]), o \in Range(Rows(files[j], table)) :
                n.key # o.key

\* The tables that are not of a command.
Reserved == {"_initial", Signals, "_models", "_environment"}

\* The literal names that other tables write; a template is left to the
\* guard of the engine.
Writers(files) ==
    {Plain(n.key) : n \in {n \in UNION {UNION {Range(files[i].tables[table]) :
        table \in DOMAIN files[i].tables \ {"_models", "_environment"}} : i \in DOMAIN files} :
            ~IsTemplated(n.key)}}

(***************************************************************************)
(* load_behavior: the files make a spec, or they are all refused.          *)
(***************************************************************************)
Loads(files) ==
    /\ files # <<>>
    /\ \A i \in DOMAIN files :
           /\ files[i].sound
           /\ \A table \in DOMAIN files[i].tables :
                  \A n \in Range(files[i].tables[table]) : EntrySound(table, n)
    /\ ClaimsSound(files)
    /\ OwnersAreUnique(Models(files)) /\ LinksSound(Models(files))
    /\ Owned(Models(files)) \cap Writers(files) = {}

\* The engine instantiates the ADCS first, for the power model is wired to it.
InOrder(models) ==
    LET kind(k) == FlattenSeq([i \in DOMAIN models |->
                       IF models[i].kind = k THEN <<models[i]>> ELSE <<>>])
    IN  kind("adcs") \o kind("power") \o kind("nav")

Parsed(files) ==
    [initial |-> Entries(files, "_initial"), signals |-> Entries(files, Signals),
     commands |-> [c \in DOMAIN CommandDefs |->
                      IF c \in Reserved THEN <<>> ELSE Entries(files, c)],
     models |-> InOrder(Models(files)), owned |-> Owned(Models(files))]
=============================================================================
