----------------------------- MODULE MCGround -----------------------------
(***************************************************************************)
(* The programs of the ground and what they share with the vehicle: the    *)
(* console, the bridge to the viewers, the exerciser, a framed stream, the *)
(* plans on their way from the operator's desk into a slot, the status     *)
(* packet of a slot, and the check of a vehicle's health.  They are        *)
(* checked side by side, one at most in motion in a behaviour.             *)
(***************************************************************************)
EXTENDS
    WebConsole, ViewerBridge, Framing, Exercise, SequencePlans, StatusTelemetry,
    TelemetryCheck, TLC

VARIABLE process

Sat(id, ok) == [kind |-> "satellite", sound |-> ok, sats |-> <<id>>]
Con(ids) == [kind |-> "constellation", sound |-> TRUE, sats |-> ids]

MCRosters ==
    {<<Sat("h", TRUE), Con(<<"p1", "p2">>)>>, <<Con(<<"p1", "p2">>)>>,
     <<Sat("p1", TRUE), Con(<<"p1", "p2">>)>>, <<Con(<<"p1">>), Sat("h", TRUE)>>,
     <<Sat("h", FALSE)>>, <<>>}

MCPayloads == {<<7>>}

-----------------------------------------------------------------------------
\* Command lists: bounds inside, at the end of and beyond what the wire holds,
\* a range that the wire cannot satisfy, an enumeration with an alias and one
\* on a signed type, bounds that a 32-bit float rounds, and optional texts.
Par(name, type, bits, min, max, enum) ==
    [name |-> name, type |-> type, bits |-> bits, min |-> min, max |-> max, enum |-> enum]
Whole(name, type, bits, min, max) == Par(name, type, bits, <<min>>, <<max>>, <<>>)
Switch(type, bits) ==
    Par("s", type, bits, <<>>, <<>>, <<<<"ON", 1>>, <<"OFF", 0>>, <<"HOT", 1>>>>)
Cmd(params) == [params |-> params]

MCSurfaces ==
    {<<Cmd(<<>>), Cmd(<<Whole("a", "uint", 2, 1, 9), Switch("uint", 1)>>)>>,
     <<Cmd(<<Whole("a", "int", 2, -4, 0), Whole("f", "float32", 32, 3, 7)>>),
       Cmd(<<Par("t", "string", 1, <<>>, <<>>, <<>>)>>)>>,
     <<Cmd(<<Whole("f", "float32", 32, -6, 8), Switch("int", 3)>>),
       Cmd(<<Whole("a", "uint", 2, 4, 9)>>)>>,
     <<Cmd(<<Par("f", "float64", 64, <<>>, <<3>>, <<>>)>>),
       Cmd(<<Whole("a", "int", 2, 0, 0)>>), Cmd(<<Par("f", "float32", 32, <<>>, <<2>>, <<>>)>>)>>,
     <<Cmd(<<Par("a", "uint", 2, <<>>, <<3>>, <<>>), Par("b", "uint", 2, <<>>, <<2>>, <<>>)>>)>>}

MCSpellings == "2" :> 2 @@ "1" :> 1
MCTyped ==
    {Bare(n) : n \in {-3, 0, 1, 2, 3, 5}} \union {Word(t) : t \in {"ON", "HOT", "2", "junk"}}

-----------------------------------------------------------------------------
\* Plans: out of order and with a tie, in three zones; relative ones; and
\* files that a tool or the vehicle must refuse, each for another reason.
Name(stem, ext) == [stem |-> stem, ext |-> ext]
At0(form, n, zone) == [form |-> form, at |-> n, zone |-> zone]
Utc(n) == At0("utc", n, 0)
Delay(n) == At0("delay", n, 0)
Id(n) == <<"Id", n>>
Draft(name, lines) == [name |-> name, text |-> [utf8 |-> TRUE, lines |-> lines]]
Burn == Name("burn", "ats")

MCSignatures == [HEAT |-> [Id |-> {"1", "2"}], MOVE |-> [Mode |-> {"NADIR", Omitted}]]

MCDrafts ==
    {Draft(Burn, <<<<Utc(4), "HEAT", Id("1")>>, <<>>, <<At0("zoned", 6, 3), "MOVE">>,
                   <<At0("naked", 4, 0), "HEAT", Id("2")>>>>),
     Draft(Name("loop", "RTS"), <<<<Delay(2), "MOVE">>, <<Delay(0), "HEAT", Id("1")>>>>),
     Draft(Name("plan", "txt"), <<<<Delay(1), "MOVE", <<"Mode", "NADIR">>>>>>),
     Draft(Burn, <<<<Utc(2), "MOVE">>, <<At0("date", 1, 0), "MOVE">>,
                   <<Utc(1), "MOVE", <<"Mode", "NADIR">>, <<"Mode", "NADIR">>>>>>),
     Draft(Burn, <<<<Utc(3), "HEAT", Id("9")>>, <<At0("zoned", 0, -2), "MOVE">>>>),
     Draft(Name("..", ""), <<<<Utc(1)>>>>), Draft(Burn, <<<<>>>>),
     [name |-> Burn, text |-> [utf8 |-> FALSE, lines |-> <<>>]]}

MCJailRefuses == {Name("..", "")}
MCSeqIds == {[number |-> 2], [label |-> "SLOT_1"]}
MCSlotLabels == "SLOT_1" :> 1

Unlabelled == [l \in {} |-> 0]

\* Status packets: one that tells all; one that is lean, with a field that
\* the service does not know and a name cut short; one with fields of the
\* wrong type; and one with a counter declared as a text.
Column(type, labels, width) == [type |-> type, labels |-> labels, width |-> width]
AllStates ==
    "IDLE" :> 0 @@ "LOADED" :> 1 @@ "RUNNING" :> 2 @@ "COMPLETE" :> 3 @@ "ERROR" :> 4
Counter == Column("uint", Unlabelled, 2)
MCLayouts ==
    {[state |-> Column("uint", AllStates, 3), cmd_total |-> Counter,
      seq_name |-> Column("string", Unlabelled, 3), timestamp |-> Column("uint", Unlabelled, 3)],
     [state |-> Column("uint", "IDLE" :> 0 @@ "RUNNING" :> 2, 3), cmd_totl |-> Counter,
      seq_name |-> Column("string", Unlabelled, 2), last_cmd_result |-> Column("uint",
          "SUCCESS" :> 0 @@ "FAILED" :> 1 @@ "PENDING" :> 2, 1)],
     [state |-> Column("uint", Unlabelled, 3), seq_name |-> Column("int", Unlabelled, 3),
      next_cmd_time |-> Column("int", Unlabelled, 3)],
     [cmd_total |-> Column("string", Unlabelled, 2), state |-> Column("uint", AllStates, 2)]}

MCProgress ==
    {[state |-> [text |-> s], cmd_total |-> [number |-> total],
      next_cmd_time |-> [number |-> next], seq_name |-> [text |-> IF total = 0 THEN "" ELSE "abc"],
      last_cmd_result |-> [text |-> IF s = "COMPLETE" THEN "FAILED" ELSE "PENDING"],
      timestamp |-> [number |-> 7]]
     : s \in DOMAIN AllStates, total \in {0, 2, 5}, next \in {0, 9}}

MCLengths == "" :> 0 @@ "abc" :> 3 @@ "PENDING" :> 7 @@ "FAILED" :> 6
    @@ [s \in DOMAIN AllStates |-> 5]
MCSynthetic == [state |-> [number |-> 1], cmd_total |-> [number |-> 3]]
MCOverlaid == {[f \in {} |-> 0], [state |-> [number |-> 0]]}

\* A packet without a period, one that is slower than the timeout, and one
\* on events; whatever may be wrong with a vehicle, one at a time.
MCBeaconed == "hk" :> 0 @@ "slow" :> 6 @@ "receipt" :> 0
NoAilment == [silent |-> FALSE, lost |-> {}, spoilt |-> {}, link |-> "sound"]
MCAilments ==
    {NoAilment, [NoAilment EXCEPT !.silent = TRUE], [NoAilment EXCEPT !.lost = {"slow"}]}
    \union {[NoAilment EXCEPT !.spoilt = {a}] : a \in {"hk", "receipt"}}
    \union {[NoAilment EXCEPT !.link = l] : l \in {"refused", "closes", "garbled"}}

-----------------------------------------------------------------------------
Init ==
    /\ process \in {"ui", "bridge", "stream", "exercise", "plans", "status", "verify"}
    /\ WebInit /\ ViewerInit /\ FramingInit /\ ExerciseInit
    /\ PlansInit /\ (process = "plans" \/ desk.name.ext = "txt")
    /\ StatusInit
    /\ process = "status" \/ (DOMAIN layout = {"cmd_total", "state"}
                                 /\ status = CHOOSE s \in Progress : TRUE)
    /\ VerifyInit
    /\ process = "verify" \/ (ailment = NoAilment /\ \A a \in Wanted : due[a] = 0)

Next ==
    \/ process = "ui" /\ WebNext
       /\ UNCHANGED <<process, viewerVars, framingVars, exerciseVars, planVars, statusVars,
                      verifyVars>>
    \/ process = "bridge" /\ ViewerNext
       /\ UNCHANGED <<process, webVars, framingVars, exerciseVars, planVars, statusVars,
                      verifyVars>>
    \/ process = "stream" /\ FramingNext
       /\ UNCHANGED <<process, webVars, viewerVars, exerciseVars, planVars, statusVars,
                      verifyVars>>
    \/ process = "exercise" /\ ExerciseNext
       /\ UNCHANGED <<process, webVars, viewerVars, framingVars, planVars, statusVars,
                      verifyVars>>
    \/ process = "plans" /\ PlansNext
       /\ UNCHANGED <<process, webVars, viewerVars, framingVars, exerciseVars,
                      statusVars, verifyVars>>
    \/ process = "status" /\ StatusNext
       /\ UNCHANGED <<process, webVars, viewerVars, framingVars, exerciseVars,
                      planVars, verifyVars>>
    \/ process = "verify" /\ VerifyNext
       /\ UNCHANGED <<process, webVars, viewerVars, framingVars, exerciseVars,
                      planVars, statusVars>>

Spec ==
    /\ Init
    /\ [][Next]_<<process, webVars, viewerVars, framingVars, exerciseVars, planVars,
                  statusVars, verifyVars>>
    /\ WebFairness
=============================================================================
