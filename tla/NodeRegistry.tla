---------------------------- MODULE NodeRegistry ----------------------------
(***************************************************************************)
(* What Connector sessions rely on: the registry of a node's admissible    *)
(* certificates.  A certificate is admitted at most once and, once it has  *)
(* lost admission, never regains it; a node that was revoked admits        *)
(* nothing any more.                                                       *)
(***************************************************************************)
EXTENDS Naturals

CONSTANT Serials

VARIABLES
  admitted,  \* serials that are admitted now
  spent,     \* serials that were admitted and no longer are
  current,   \* the one recorded last (0: none)
  closed     \* the node is revoked

TypeOK ==
  /\ admitted \subseteq Serials /\ spent \subseteq Serials
  /\ current \in Serials \cup {0} /\ closed \in BOOLEAN

Init == admitted = {} /\ spent = {} /\ current = 0 /\ closed = FALSE

(* A certificate is recorded; the one it replaces may stay admitted. *)
Admit(s) ==
  /\ ~closed /\ s \notin admitted \cup spent
  /\ \E kept \in SUBSET (admitted \cap {current}) :
       /\ admitted' = kept \cup {s}
       /\ spent' = spent \cup (admitted \ kept)
  /\ current' = s
  /\ UNCHANGED closed

(* Certificates expire, or their overlap ends. *)
Retire ==
  /\ \E gone \in SUBSET admitted :
       admitted' = admitted \ gone /\ spent' = spent \cup gone
  /\ UNCHANGED <<current, closed>>

Revoke ==
  /\ admitted' = {} /\ spent' = spent \cup admitted /\ closed' = TRUE
  /\ UNCHANGED current

Next == Retire \/ Revoke \/ \E s \in Serials : Admit(s)

Spec == Init /\ [][Next]_<<admitted, spent, current, closed>>
=============================================================================
