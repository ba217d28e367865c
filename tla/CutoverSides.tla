----------------------------- MODULE CutoverSides -----------------------------
(***************************************************************************)
(* What the HA point recovery promises of the two sides of its cutover,    *)
(* the original and the restored data.  A member is only ever started on   *)
(* the side the Compose manifest names; the manifest is switched to the    *)
(* restored side only while no member runs on the original one.  Nothing   *)
(* but the template that `baha up` writes switches it back: until then the *)
(* two sides never run together.                                           *)
(***************************************************************************)
CONSTANT Members
VARIABLES side, on

Sides == {"old", "new"}

Init == side = "old" /\ on = [m \in Members |-> "old"]

(* Some members are stopped, some are started on the current side.         *)
Restart ==
  /\ side' = side
  /\ on' \in [Members -> Sides \cup {"off"}]
  /\ \A m \in Members : on'[m] \in {on[m], "off", side}

(* The recovery switches the manifest.                                     *)
Switch ==
  /\ side' = "new"
  /\ \A m \in Members : on[m] # "old"
  /\ on' = on

(* `baha up` writes it from the template.                                  *)
Rewrite == side' = "old" /\ on' = on

Spec == Init /\ [][Restart \/ Switch \/ Rewrite]_<<side, on>>

===============================================================================
