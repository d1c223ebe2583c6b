----------------------------- MODULE MCMagSensor -----------------------------
(***************************************************************************)
(* MagSensor with two values of the field, one of them negative.  Their    *)
(* bytes mix to values below either and above both.                        *)
(***************************************************************************)
EXTENDS MagSensor

MCFields == {-40, 300}
=============================================================================
