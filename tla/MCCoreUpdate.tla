---------------------------- MODULE MCCoreUpdate ----------------------------
(***************************************************************************)
(* CoreUpdate for TLC: the plan of a Core with shared SQL, in its order:   *)
(* PostgreSQL, then OpenBao and Keycloak behind their adapters.            *)
(***************************************************************************)
EXTENDS CoreUpdate

SQL == 1
Secrets == 2
Identity == 3

MCN == 3
MCBound == {Secrets, Identity}
MCCore == {SQL, Secrets}
=============================================================================
