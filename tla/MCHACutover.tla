----------------------------- MODULE MCHACutover -----------------------------
(***************************************************************************)
(* HACutover for TLC: a PostgreSQL leader and one replica, two etcd        *)
(* members.                                                                *)
(***************************************************************************)
EXTENDS HACutover

CONSTANTS pg1, pg2, etcd1, etcd2

MCWriters == {pg1, pg2}
MCEtcd == {etcd1, etcd2}
=============================================================================
