--------------------------- MODULE MCPatroniRoll ---------------------------
(* The roll has no parameter: three members, any number of interruptions   *)
(* and elections, at most two requested switchovers.                       *)
EXTENDS PatroniRoll
=============================================================================
