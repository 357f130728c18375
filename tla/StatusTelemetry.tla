-------------------------- MODULE StatusTelemetry --------------------------
(***************************************************************************)
(* What the ground sees of a slot: the status packet of the vehicle, whose *)
(* fields are whatever its definition declares (values_for of              *)
(* xtce_sim/seqservice.py), laid over the behavior engine's values and the *)
(* synthetic ones (_packet_values of xtce_sim/server.py), then fitted to   *)
(* the width of each field (pack_telemetry of xtce_sim/codec.py).          *)
(*                                                                         *)
(* A value is [number] or [text]; a text on the wire has a length.         *)
(***************************************************************************)
EXTENDS Integers, FiniteSetsExt

CONSTANTS
    Layouts,      \* status packets: per field [type, labels, width]
    Progress,     \* what Sequencer.status() can answer, and the clock as "timestamp"
    Lengths,      \* the length of each text
    Synthetic,    \* the values of --live, for the fields it has one for
    Overlaid      \* the values the behavior engine may hold for a packet

\* status() answers with the same keys whatever the slot does.
ASSUME ProgressAssumption == \A s, t \in Progress : DOMAIN s = DOMAIN t

\* The labels that the sequencer can emit, per key of the status.
LabelSets ==
    [state |-> {"IDLE", "LOADED", "RUNNING", "COMPLETE", "ERROR"},
     last_cmd_result |-> {"SUCCESS", "FAILED", "PENDING"}]

VARIABLES
    layout,   \* the packet of the definition
    status,   \* Sequencer.status()
    logged,   \* the fields that the log names
    lastSent  \* the last packet, and whether there is one

statusVars == <<layout, status, logged, lastSent>>

-----------------------------------------------------------------------------
IsText(v) == "text" \in DOMAIN v
OfText(field) == layout[field].type \in {"string", "bytes"}
IsWhole(field) == layout[field].type \in {"uint", "int"}

\* The fields that carry a state and cannot express all of them.
EnumGaps(packetDef) ==
    {f \in DOMAIN packetDef \intersect DOMAIN LabelSets :
        ~(LabelSets[f] \subseteq DOMAIN packetDef[f].labels)}

\* What is reported when the service starts.
ReportDeclaration(packetDef) ==
    {f \in DOMAIN packetDef : \A s \in Progress : f \notin DOMAIN s}
    \union EnumGaps(packetDef)

Sized(v) == [text |-> v.text, length |-> Lengths[v.text]]

\* The wire form of a status value, in a sequence of at most one.
WireLabel(field, v) ==
    IF ~IsText(v) THEN <<v>>
    ELSE IF DOMAIN layout[field].labels # {}
    THEN IF v.text \in DOMAIN layout[field].labels
         THEN <<[number |-> layout[field].labels[v.text]]>>
         ELSE <<>>
    ELSE IF OfText(field) THEN <<Sized(v)>> ELSE <<>>

Known == DOMAIN layout \intersect DOMAIN status
Inexpressible == {f \in Known : WireLabel(f, status[f]) = <<>>}
ValuesFor == [f \in Known \ Inexpressible |-> WireLabel(f, status[f])[1]]

DefaultValue(field) ==
    IF OfText(field) THEN [text |-> "", length |-> 0] ELSE [number |-> 0]

Defaults == [f \in DOMAIN layout |-> DefaultValue(f)]

\* A layer of values on top of another.
OnTop(upper, lower) ==
    [f \in DOMAIN upper \union DOMAIN lower |->
        IF f \in DOMAIN upper THEN upper[f] ELSE lower[f]]

\* Mutant of PacketValues: the synthetic values lie on top.
PacketValuesLiveFirst(overlay) ==
    OnTop(Synthetic, OnTop(ValuesFor, OnTop(overlay, Defaults)))

\* The layers of a packet: the service over the engine over the synthetic
\* values, and zeros for what is in none of them.
PacketValues(overlay) ==
    OnTop(ValuesFor, OnTop(overlay, OnTop(Synthetic, Defaults)))

WireLow(field) ==
    IF layout[field].type = "uint" THEN 0 ELSE -(2 ^ (layout[field].width - 1))
WireHigh(field) ==
    IF layout[field].type = "uint" THEN 2 ^ layout[field].width - 1
    ELSE 2 ^ (layout[field].width - 1) - 1

\* Downlink is liberal: a text is cut and a number saturated to its field.
Fitted(field, v) ==
    CASE IsText(v) /\ OfText(field) ->
           [v EXCEPT !.length = Min({@, layout[field].width})]
      [] ~IsText(v) /\ IsWhole(field) ->
           [number |-> Max({WireLow(field), Min({v.number, WireHigh(field)})})]
      [] OTHER -> v

\* struct takes bytes for a text and a number for anything else.
PacksInto(field, v) == IsText(v) = OfText(field)

-----------------------------------------------------------------------------
StatusInit ==
    /\ layout \in Layouts /\ status \in Progress
    /\ logged = ReportDeclaration(layout)
    /\ lastSent = [made |-> FALSE, of |-> status, fields |-> <<>>]

SlotMoves ==
    /\ status' \in Progress
    /\ UNCHANGED <<layout, logged, lastSent>>

\* One status packet, from the beacon or on an event.  A field that does not
\* take its value ends the packet, and the traceback goes to the log.
SendStatus(overlay) ==
    LET values == [f \in DOMAIN layout |-> PacketValues(overlay)[f]]
        fits == [f \in DOMAIN layout |-> Fitted(f, values[f])]
        packs == \A f \in DOMAIN layout : PacksInto(f, values[f])
    IN  /\ logged' = logged \union Inexpressible
               \union {f \in DOMAIN layout : fits[f] # values[f]}
               \union {f \in DOMAIN layout : ~PacksInto(f, values[f])}
        /\ lastSent' = [made |-> packs, of |-> status, fields |-> fits]
        /\ UNCHANGED <<layout, status>>

StatusNext == SlotMoves \/ \E overlay \in Overlaid : SendStatus(overlay)

StatusSpec == StatusInit /\ [][StatusNext]_statusVars

-----------------------------------------------------------------------------
Shows(field) ==
    LET v == lastSent.of[field] IN
    IF IsText(v) /\ DOMAIN layout[field].labels # {}
    THEN /\ v.text \in DOMAIN layout[field].labels
         /\ lastSent.fields[field] = [number |-> layout[field].labels[v.text]]
    ELSE IF IsText(v)
    THEN lastSent.fields[field] = Sized(v)
    ELSE lastSent.fields[field] = v

(***************************************************************************)
(* A status packet that does not show the slot as it is was never sent     *)
(* without a word: a field that shows anything but its key of the status,  *)
(* be it a default, a value of another layer, a text cut off or a number   *)
(* at its limit, is named in the log.  And a field that carries a state it *)
(* may not be able to express is named before the first packet leaves.     *)
(***************************************************************************)
StatusIsHonest ==
    /\ lastSent.made =>
          \A f \in DOMAIN layout \ logged : f \in DOMAIN lastSent.of /\ Shows(f)
    /\ \A f \in DOMAIN layout \intersect DOMAIN LabelSets :
          (\E l \in LabelSets[f] : l \notin DOMAIN layout[f].labels) => f \in logged
=============================================================================
