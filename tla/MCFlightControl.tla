--------------------------- MODULE MCFlightControl ---------------------------
(***************************************************************************)
(* Instances of FlightControl whose uptime stays below the wrap of the     *)
(* millisecond counter.  One unit of time is half an interval of the       *)
(* control task: a pass may come at once, in time, or late.                *)
(***************************************************************************)
EXTENDS FlightControl

ASSUME NoWrapHere == NoWrap
=============================================================================
