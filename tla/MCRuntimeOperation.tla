------------------------- MODULE MCRuntimeOperation -------------------------
(***************************************************************************)
(* TLC instance of RuntimeOperation: two creates of one resource, one of   *)
(* them under a key a third request reuses for another resource, and a     *)
(* delete.                                                                 *)
(***************************************************************************)
EXTENDS RuntimeOperation

CONSTANTS i1, i2, i3

Req(op, res, key) ==
  [capability |-> "s3", operation |-> op, resource |-> res, key |-> key]

MCRequests == {Req("runtime.create", "bucket", "a"),
               Req("runtime.create", "other", "a"),
               Req("runtime.create", "bucket", "b"),
               Req("runtime.delete", "bucket", "a")}

MCExecutorSets == {{ExecutorKey(r) : r \in Requests},
                   {ExecutorKey(r) : r \in {q \in Requests : q.operation = "runtime.delete"}}}

MCIds == {i1, i2, i3}
=============================================================================
