----------------------------- MODULE MCBeacon -----------------------------
(***************************************************************************)
(* Beacon with a packet that may be retimed, also to a period below the    *)
(* floor, and an event-only one, on a host that is up for less than a      *)
(* period or for longer.                                                   *)
(***************************************************************************)
EXTENDS Beacon, TLC

CONSTANTS hk, receipt

MCDeclared == (hk :> 3) @@ (receipt :> 4)
MCPriorities == {"NORMAL", "URGENT"}
=============================================================================
