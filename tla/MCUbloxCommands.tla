--------------------------- MODULE MCUbloxCommands ---------------------------
(* UbloxCommands with short commands for those of 40, 44, 16, 12, 33 and 11 *)
(* bytes: a start, the length or another byte of a line, data, and an end.   *)
EXTENDS UbloxCommands

MCLengths == [TP5 |-> 4, NAV5 |-> 4, PMREQ |-> 3, RST |-> 3, PUBX |-> 3, MSG |-> 3]
=============================================================================
