--------------------------- MODULE OperationLedger ---------------------------
(***************************************************************************)
(* What the runtime operation manager promises its clients: for each       *)
(* idempotency key at most one operation, accepted before it has an        *)
(* outcome, never forgotten once accepted, and with an outcome that never  *)
(* changes once it is durable.  One write may settle several keys, because *)
(* a write of the journal carries every outcome an earlier failed write    *)
(* left in memory.                                                         *)
(***************************************************************************)
CONSTANT Keys
VARIABLE ledger

LedgerStates == {"absent", "accepted", "succeeded", "failed"}

LedgerTypeOK == ledger \in [Keys -> LedgerStates]

Init == ledger = [k \in Keys |-> "absent"]

MayBecome(old, new) ==
  \/ new = old
  \/ old = "absent" /\ new = "accepted"
  \/ old = "accepted" /\ new \in {"succeeded", "failed"}

(* A durable step: at most one key is newly accepted by it.                *)
Advance ==
  /\ ledger' \in [Keys -> LedgerStates]
  /\ \A k \in Keys : MayBecome(ledger[k], ledger'[k])
  /\ \A k, l \in Keys :
       /\ ledger[k] = "absent" /\ ledger'[k] # "absent"
       /\ ledger[l] = "absent" /\ ledger'[l] # "absent"
       => k = l

Spec == Init /\ [][Advance]_ledger

=============================================================================
