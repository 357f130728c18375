------------------------------ MODULE Exercise ------------------------------
(***************************************************************************)
(* Arguments of commands from the ground to the vehicle: how the exerciser *)
(* picks them (exercise.py), how the ground encodes and checks them and    *)
(* the vehicle decodes and checks them again (codec.py), and the sweep     *)
(* that sends valid commands with invalid ones sprinkled in.               *)
(*                                                                         *)
(* Integer types are narrow, and a float of 32 bits rounds to even numbers *)
(* up to a largest one: two units are its finest step, and the least by    *)
(* which a probe goes beyond a bound.  A value is a number or a word, and  *)
(* a word may spell a number.                                              *)
(***************************************************************************)
EXTENDS Integers, Sequences, FiniteSets, SequencesExt

CONSTANTS
    Surfaces,     \* command lists: sequences of commands, see SurfaceAssumption
    Spellings,    \* words that spell a number |-> that number
    Typed,        \* values that an operator may type
    Float32Max,   \* the largest number of a 32-bit float
    MaxProbes     \* probes of a sweep, at most

Integer == {"uint", "int"}
Floats == {"float32", "float64"}
Texts == {"string", "bytes"}

VARIABLES
    sweep \* the send plan, how far it is, and what became of the last send

exerciseVars == <<sweep>>

Bare(n) == [word |-> "", num |-> n]
Word(t) == [word |-> t, num |-> 0]
Nothing == [none |-> TRUE]
IsValue(v) == DOMAIN v = {"word", "num"} /\ v.num \in Int

LabelsOf(p) == {e[1] : e \in Range(p.enum)}
Raws(p) == {e[2] : e \in Range(p.enum)}
RawOf(p, label) == CHOOSE n \in Raws(p) : <<label, n>> \in Range(p.enum)

\* _int_wire_bounds.
WireLo(p) == IF p.type = "int" THEN -(2^(p.bits - 1)) ELSE 0
WireHi(p) == IF p.type = "int" THEN 2^(p.bits - 1) - 1 ELSE 2^p.bits - 1
Within(n, lo, hi) == IF n < lo THEN lo ELSE IF n > hi THEN hi ELSE n

\* An argument: its type and width, its declared smallest and largest value
\* (none or one number, in this order), its enumeration as <<label, value>>
\* pairs in the order of the declaration, each label once.  What it declares
\* can be met: a bound beyond a 32-bit float cannot even be checked (_f32
\* raises), and a value of an enumeration that its integer does not hold, or
\* a smallest value above the largest one, no command can carry.
ParameterSound(p) ==
    /\ p.type \in Integer \union Floats \union Texts /\ p.bits \in Nat \ {0}
    /\ p.type \in Integer => 2^(p.bits - 1) \in Nat \ {0} /\ 2^p.bits \in Nat \ {0}
    /\ p.type \in Texts => Len("T") <= p.bits
    /\ {p.min, p.max} \subseteq Seq(Int) /\ Len(p.min) <= 1 /\ Len(p.max) <= 1
    /\ \A lo \in Range(p.min), hi \in Range(p.max) : lo <= hi
    /\ p.type = "float32" =>
          Range(p.min) \union Range(p.max) \subseteq -Float32Max..Float32Max
    /\ p.enum \in Seq(LabelsOf(p) \X Int) /\ "" \notin LabelsOf(p)
    /\ \A i, j \in DOMAIN p.enum : p.enum[i][1] = p.enum[j][1] => i = j
    /\ p.enum # <<>> => p.type \in Integer /\ Raws(p) \subseteq WireLo(p)..WireHi(p)

\* A command has each argument once.  That 2^n is a number, for every number n
\* of bits, and that a text of one letter goes anywhere, the provers are told.
ASSUME SurfaceAssumption ==
    /\ Float32Max \in Nat /\ MaxProbes \in Nat
    /\ \A v \in Typed : IsValue(v)
    /\ \A t \in DOMAIN Spellings : Spellings[t] \in Int
    /\ \A surface \in Surfaces :
          /\ surface \in Seq(Range(surface))
          /\ \A c \in Range(surface) :
                /\ c.params \in Seq(Range(c.params))
                /\ \A i, j \in DOMAIN c.params : c.params[i].name = c.params[j].name => i = j
                /\ \A p \in Range(c.params) : ParameterSound(p)

-----------------------------------------------------------------------------
\* codec.py.  _wire_view: both ends compare what the wire can tell apart.
F32(n) == 2 * (n \div 2)
AsOnWire(p, n) == IF p.type = "float32" THEN F32(n) ELSE n
\* Mutant: the value is rounded, the bounds are not.
BoundAsDeclared(p, n) == n
BoundOnWire(p, n) == AsOnWire(p, n)

\* label_for: the first label that carries a value.
LabelFor(p, n) ==
    LET carriers == {i \in DOMAIN p.enum : p.enum[i][2] = n}
    IN IF carriers # {} THEN Word(p.enum[Min(carriers)][1]) ELSE Bare(n)

\* _arg_violation, on a coerced or a decoded value.
Violates(p, v) ==
    IF p.enum # <<>> THEN IF v.word # "" THEN v.word \notin LabelsOf(p) ELSE v.num \notin Raws(p)
    ELSE /\ v.word = "" /\ p.type \notin Texts
         /\ \/ \E b \in Range(p.min) : AsOnWire(p, v.num) < BoundOnWire(p, b)
            \/ \E b \in Range(p.max) : AsOnWire(p, v.num) > BoundOnWire(p, b)

\* _coerce_arg; Nothing when it raises.
Coerced(p, v) ==
    IF p.type \in Texts /\ p.enum = <<>>
    THEN IF v.word # "" /\ Len(v.word) <= p.bits THEN v ELSE Nothing
    ELSE IF v.word = "" THEN v
    ELSE IF v.word \in LabelsOf(p) THEN Bare(RawOf(p, v.word))
    ELSE IF v.word \in DOMAIN Spellings THEN Bare(Spellings[v.word])
    ELSE Nothing

\* struct.pack: what a field takes.
Packs(p, v) ==
    CASE p.type \in Integer -> v.num \in WireLo(p)..WireHi(p)
      [] p.type = "float32" -> v.num \in -Float32Max..Float32Max
      [] OTHER -> TRUE

\* encode_command: the wire values, or that it refuses.  What is missing packs
\* as zero and is checked like the rest.
Zero(p) == IF p.type \in Texts THEN Word("") ELSE Bare(0)
Encode(c, args, validate) ==
    LET value == [p \in Range(c.params) |->
                     IF p.name \in DOMAIN args THEN Coerced(p, args[p.name]) ELSE Zero(p)]
    IN IF \/ ~(DOMAIN args \subseteq {p.name : p \in Range(c.params)})
          \/ \E p \in Range(c.params) : value[p] = Nothing
          \/ validate /\ \E p \in Range(c.params) : Violates(p, value[p])
          \/ \E p \in Range(c.params) : ~Packs(p, value[p])
       THEN [sent |-> FALSE, wire |-> <<>>]
       ELSE [sent |-> TRUE,
             wire |-> [p \in Range(c.params) |->
                          IF value[p].word # "" THEN value[p]
                          ELSE Bare(AsOnWire(p, value[p].num))]]

\* decode_command and range_violations, on the vehicle.
Verdict(c, wire) ==
    IF \E p \in Range(c.params) :
          Violates(p, IF p.enum # <<>> THEN LabelFor(p, wire[p].num) ELSE wire[p])
    THEN "REJECTED" ELSE "EXECUTED"

-----------------------------------------------------------------------------
\* exercise.py.  example_values: labels, a short text, or the declared bounds
\* as far as the wire goes; empty when it raises.
Deduped(s) == IF Len(s) = 2 /\ s[1] = s[2] THEN <<s[1]>> ELSE s
Unsatisfiable(p) ==
    /\ p.type \in Integer /\ p.enum = <<>>
    /\ \/ \E b \in Range(p.min) : b > WireHi(p)
       \/ \E b \in Range(p.max) : b < WireLo(p)
ExampleValues(p) ==
    IF p.enum # <<>> THEN [i \in 1..Len(p.enum) |-> Word(p.enum[i][1])]
    ELSE IF p.type \in Texts THEN <<Word("T")>>
    ELSE IF p.min \o p.max = <<>> THEN <<Bare(0)>>
    ELSE LET b == p.min \o p.max
         IN Deduped([i \in 1..Len(b) |->
                Bare(CASE p.type \in Integer -> Within(b[i], WireLo(p), WireHi(p))
                       [] p.type = "float32" -> Within(b[i], -Float32Max, Float32Max)
                       [] OTHER -> b[i])])

\* _invalid_value: beyond the largest value if the wire goes on there, else
\* beyond the smallest, else nothing.  A 64-bit float has no ends.
Beyond(p, above, below) ==
    LET lo == IF p.type \in Integer THEN WireLo(p) ELSE -Float32Max
        hi == IF p.type \in Integer THEN WireHi(p) ELSE Float32Max
    IN IF \E n \in above : p.type = "float64" \/ n <= hi THEN Bare(CHOOSE n \in above : TRUE)
       ELSE IF \E n \in below : p.type = "float64" \/ n >= lo
       THEN Bare(CHOOSE n \in below : TRUE) ELSE Nothing
Half(n) == IF n < 0 THEN (-n) \div 2 ELSE n \div 2
Margin(p, n) == IF p.type \in Integer THEN 1 ELSE IF Half(n) < 2 THEN 2 ELSE Half(n)
InvalidValue(p) ==
    IF p.enum # <<>> THEN Beyond(p, {Max(Raws(p)) + 1}, {Min(Raws(p)) - 1})
    ELSE IF p.type \in Texts THEN Nothing
    ELSE Beyond(p, {n + Margin(p, n) : n \in Range(p.max)}, {n - Margin(p, n) : n \in Range(p.min)})

\* command_arg_sets: the baseline, and each argument varied alone.
Names(c) == {p.name : p \in Range(c.params)}
ParamOf(c, name) == CHOOSE p \in Range(c.params) : p.name = name
Baseline(c) == [n \in Names(c) |-> ExampleValues(ParamOf(c, n))[1]]
ArgSets(c) ==
    <<Baseline(c)>>
    \o FlattenSeq([i \in 1..Len(c.params) |->
           LET p == c.params[i]
           IN [k \in 1..(Len(ExampleValues(p)) - 1) |->
                  [Baseline(c) EXCEPT ![p.name] = ExampleValues(p)[k + 1]]]])

\* reject_probe: the first argument that can be pushed out is.
Broken(c) == \E p \in Range(c.params) : Unsatisfiable(p)
Pushable(c) == {i \in DOMAIN c.params : InvalidValue(c.params[i]) # Nothing}
RejectProbes(c) ==
    LET pushed == c.params[Min(Pushable(c))]
    IN IF Broken(c) \/ Pushable(c) = {} THEN {}
       ELSE {[Baseline(c) EXCEPT ![pushed.name] = InvalidValue(pushed)]}

\* build_send_plan: _scatter puts the probes anywhere.
Send(c, args, validate) == [command |-> c, args |-> args, validate |-> validate]
Normal(targets) ==
    FlattenSeq([i \in 1..Len(targets) |->
        IF Broken(targets[i]) THEN <<>>
        ELSE [k \in 1..Len(ArgSets(targets[i])) |->
                 Send(targets[i], ArgSets(targets[i])[k], TRUE)]])
Candidates(targets) ==
    UNION {{Send(c, args, FALSE) : args \in RejectProbes(c)} : c \in Range(targets)}
Sprinkled(plan, probe) ==
    {InsertAt(plan, i, probe) : i \in 1..(Len(plan) + 1)}
SendPlans(targets, probes) ==
    LET with[n \in 0..probes] ==
            IF n = 0 \/ Candidates(targets) = {} THEN {Normal(targets)}
            ELSE UNION {Sprinkled(plan, probe) :
                            plan \in with[n - 1], probe \in Candidates(targets)}
    IN with[probes]

-----------------------------------------------------------------------------
Idle == [plan |-> <<>>, at |-> 0, by |-> "nobody", last |-> <<>>]

ExerciseInit == sweep = Idle

\* What became of a send: whether it was transmitted, the vehicle's word on
\* it, and what the word would have been on a send that the ground refused.
Outcome(s) ==
    LET real == Encode(s.command, s.args, s.validate)
        forced == Encode(s.command, s.args, FALSE)
    IN [send |-> s, sent |-> real.sent,
        echo |-> IF forced.sent THEN Verdict(s.command, forced.wire) ELSE "unsendable"]

\* run_exercise plans once and sends in order; a send that fails is reported
\* and the sweep goes on.
PlanSweep ==
    /\ sweep.by = "nobody"
    /\ \E surface \in Surfaces, probes \in 0..MaxProbes :
          \E plan \in SendPlans(surface, probes) :
              sweep' = [Idle EXCEPT !.plan = plan, !.by = "sweep"]

SendNext ==
    /\ sweep.by = "sweep" /\ sweep.at < Len(sweep.plan)
    /\ sweep' = [sweep EXCEPT !.at = @ + 1, !.last = <<Outcome(sweep.plan[sweep.at + 1])>>]

\* An operator types a command, with any of its arguments left out.
OperatorSends ==
    /\ sweep.by = "nobody"
    /\ \E surface \in Surfaces : \E c \in Range(surface) :
          \E given \in SUBSET Names(c) : \E args \in [given -> Typed] :
              sweep' = [Idle EXCEPT !.by = "operator",
                                    !.last = <<Outcome(Send(c, args, TRUE))>>]

ExerciseNext == PlanSweep \/ SendNext \/ OperatorSends

ExerciseSpec == ExerciseInit /\ [][ExerciseNext]_exerciseVars

-----------------------------------------------------------------------------
(***************************************************************************)
(* Properties                                                              *)
(***************************************************************************)
\* Ground and vehicle reach the same verdict on a command, although one sees
\* labels, omissions and unrounded numbers and the other what the wire kept:
\* what the ground lets through the vehicle executes, what it refuses the
\* vehicle would have rejected (codec.py, range_violations).  The exerciser's
\* own sends are never refused, and each of its probes reaches the vehicle and
\* is rejected there (exercise.py, example_values and reject_probe).
VerdictsAgree ==
    \A o \in Range(sweep.last) :
        /\ o.send.validate /\ o.sent => o.echo = "EXECUTED"
        /\ o.send.validate /\ ~o.sent => o.echo \in {"REJECTED", "unsendable"}
        /\ sweep.by = "sweep" => o.sent
        /\ ~o.send.validate => o.echo = "REJECTED"
=============================================================================
