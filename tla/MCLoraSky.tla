------------------------------ MODULE MCLoraSky ------------------------------
(***************************************************************************)
(* LoraSky with short times: the auxiliary never goes off by itself, the   *)
(* other switches after different times.                                   *)
(***************************************************************************)
EXTENDS LoraSky

MCAutoOff == <<-1, 2, 1, 1>>
=============================================================================
