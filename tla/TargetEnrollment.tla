-------------------------- MODULE TargetEnrollment --------------------------
(***************************************************************************)
(* Enrollment of one Connector node: Authority (internal/targetenrollment) *)
(* over the PostgreSQL store (internal/database).  An operator creates     *)
(* one-use grants; a Connector exchanges a grant for a signed certificate, *)
(* which is admitted only once its serial is recorded in the node's row;   *)
(* renewal replaces it and keeps one predecessor for a while; a disconnect *)
(* revokes the row before the issuer's certificate.                        *)
(*                                                                         *)
(* A transaction is one step; its commit may be applied and its answer     *)
(* lost.  Enroll requests interleave between their transactions, are       *)
(* repeated with the same token, and die anywhere.  Time passes by Lapse,  *)
(* OverlapEnds and Expire.  Abstractions: a token stands for its token,    *)
(* nonce and CSR digests; tenant, Target, node and runtime are one scope,  *)
(* which every statement of the store compares, so scopes do not meet.     *)
(***************************************************************************)
EXTENDS Naturals, FiniteSets

CONSTANTS
  Tokens,     \* bound: grants
  Requests,   \* concurrent Enroll requests
  MaxSerial   \* bound: certificates signed

ASSUME LimitAssumption == MaxSerial \in Nat /\ Tokens # {}

Serials == 1..MaxSerial
None == 0          \* no serial

VARIABLES
  node,      \* connector_nodes: current serial, revoked
  overlap,   \* connector_certificate_overlap: the predecessor
  grants,    \* connector_enrollment_grants
  calls,     \* Enroll requests
  leaving,   \* serial a disconnect still has to revoke at the issuer
  signed,    \* certificates the issuer signed so far
  crl,       \* serials revoked at the issuer
  expired,   \* serials past their expiry
  held,      \* serials that reached a Connector
  origin,    \* history: the token a serial was signed for
  lineage    \* history: the serial a recorded one replaced

db == <<node, overlap, grants>>
history == <<origin, lineage>>
vars == <<db, calls, leaving, signed, crl, expired, held, history>>

NoNode == [serial |-> None, revoked |-> FALSE]
NoOverlap == [serial |-> None, open |-> FALSE, revoked |-> FALSE]
NoGrant == [state |-> "free", previous |-> None]
Idle == [step |-> "idle", token |-> CHOOSE t \in Tokens : TRUE, serial |-> None]

SomeSerial == Serials \cup {None}

TypeOK ==
  /\ node \in [serial : SomeSerial, revoked : BOOLEAN]
  /\ overlap \in [serial : SomeSerial, open : BOOLEAN, revoked : BOOLEAN]
  /\ grants \in [Tokens -> [state : {"free", "open", "consumed", "lapsed"},
                            previous : SomeSerial]]
  /\ calls \in [Requests -> [step : {"idle", "sign", "record", "revoke", "reply"},
                             token : Tokens, serial : SomeSerial]]
  /\ leaving \in SomeSerial
  /\ signed \in 0..MaxSerial
  /\ crl \subseteq Serials /\ expired \subseteq Serials /\ held \subseteq Serials
  /\ origin \in [Serials -> SUBSET Tokens]
  /\ lineage \in [Serials -> SomeSerial]

Init ==
  /\ node = NoNode
  /\ overlap = NoOverlap
  /\ grants = [t \in Tokens |-> NoGrant]
  /\ calls = [c \in Requests |-> Idle]
  /\ leaving = None
  /\ signed = 0
  /\ crl = {} /\ expired = {} /\ held = {}
  /\ origin = [s \in Serials |-> {}]
  /\ lineage = [s \in Serials |-> None]

(* AdmitCertificate: the current certificate or its open predecessor. *)
Admitted(s) ==
  /\ node.serial # None /\ ~node.revoked /\ s \notin expired
  /\ \/ s = node.serial
     \/ s = overlap.serial /\ overlap.open /\ ~overlap.revoked

(* The node's certificate may authorize its replacement. *)
Active == node.serial # None /\ ~node.revoked /\ node.serial \notin expired
Pending == \E t \in Tokens : grants[t].state = "open"

-----------------------------------------------------------------------------
(* Store.Create: an initial grant, for a node without a certificate. *)
Create(t) ==
  /\ grants[t].state = "free"
  /\ node.serial = None /\ ~Pending
  /\ grants' = [grants EXCEPT ![t] = [state |-> "open", previous |-> None]]
  /\ UNCHANGED <<node, overlap, calls, leaving, signed, crl, expired, held, history>>

(* CreateRenewal: a grant pinned to the current serial. *)
CreateRenewal(t) ==
  /\ grants[t].state = "free"
  /\ Active /\ ~Pending
  /\ grants' = [grants EXCEPT ![t] = [state |-> "open", previous |-> node.serial]]
  /\ UNCHANGED <<node, overlap, calls, leaving, signed, crl, expired, held, history>>

(* Consume: a compare-and-set of one row.  Mutant: a consumed grant is     *)
(* accepted again.                                                         *)
ConsumableTwice(t) == grants[t].state \in {"open", "consumed"}
Consumable(t) ==
  /\ grants[t].state = "open"
  /\ grants[t].previous # None => Active /\ node.serial = grants[t].previous

Consume(c, t) ==
  /\ calls[c].step = "idle"
  /\ Consumable(t)
  /\ grants' = [grants EXCEPT ![t].state = "consumed"]
  /\ \/ calls' = [calls EXCEPT ![c] = [step |-> "sign", token |-> t, serial |-> None]]
     \/ UNCHANGED calls                               \* the answer is lost
  /\ UNCHANGED <<node, overlap, leaving, signed, crl, expired, held, history>>

(* SignCSR, TrustBundle and ValidateSignedCSR: a failure after the         *)
(* signature leaves a certificate that nobody recorded or revoked.         *)
Sign(c) ==
  /\ calls[c].step = "sign" /\ signed < MaxSerial
  /\ signed' = signed + 1
  /\ origin' = [origin EXCEPT ![signed + 1] = {calls[c].token}]
  /\ \/ calls' = [calls EXCEPT ![c].step = "record", ![c].serial = signed + 1]
     \/ calls' = [calls EXCEPT ![c] = Idle]
  /\ UNCHANGED <<db, leaving, crl, expired, held, lineage>>

(* RecordIssued and recordConnectorRenewal.  Mutants: a renewal does not   *)
(* look at the row again; it looks, and does not compare the serial.       *)
RecordableUnseen(c) ==
  LET g == grants[calls[c].token]
  IN  g.state = "consumed" /\ (g.previous = None => node.serial = None)
RecordableWhileActive(c) ==
  LET g == grants[calls[c].token]
  IN  /\ g.state = "consumed"
      /\ calls[c].serial \notin expired
      /\ IF g.previous = None THEN node.serial = None ELSE Active
Recordable(c) ==
  LET g == grants[calls[c].token]
  IN  /\ g.state = "consumed"
      /\ calls[c].serial \notin expired
      /\ IF g.previous = None THEN node.serial = None
         ELSE Active /\ node.serial = g.previous

(* The new serial and its one predecessor, in one transaction. *)
Apply(c) ==
  LET s == calls[c].serial
      p == grants[calls[c].token].previous
  IN  /\ node' = [node EXCEPT !.serial = s]
      /\ overlap' = IF p = None THEN overlap
                    ELSE [serial |-> p, open |-> TRUE, revoked |-> FALSE]
      /\ lineage' = [lineage EXCEPT ![s] = p]

Record(c) ==
  /\ calls[c].step = "record"
  /\ \/ /\ Recordable(c) /\ Apply(c)
        /\ \E next \in {"reply", "revoke"} :          \* "revoke": the answer is lost
             calls' = [calls EXCEPT ![c].step = next]
     \/ /\ calls' = [calls EXCEPT ![c].step = "revoke"]
        /\ UNCHANGED <<node, overlap, lineage>>
  /\ UNCHANGED <<grants, leaving, signed, crl, expired, held, origin>>

(* What could not be recorded is revoked at the issuer; the error is       *)
(* ignored.                                                                *)
RevokeUnrecorded(c) ==
  /\ calls[c].step = "revoke"
  /\ crl' \in {crl, crl \cup {calls[c].serial}}
  /\ calls' = [calls EXCEPT ![c] = Idle]
  /\ UNCHANGED <<db, leaving, signed, expired, held, history>>

Reply(c) ==
  /\ calls[c].step = "reply"
  /\ held' = held \cup {calls[c].serial}
  /\ calls' = [calls EXCEPT ![c] = Idle]
  /\ UNCHANGED <<db, leaving, signed, crl, expired, history>>

(* Signing fails, the request is cancelled, its answer lost, or Core dies. *)
Abandon(c) ==
  /\ calls[c].step # "idle"
  /\ calls' = [calls EXCEPT ![c] = Idle]
  /\ UNCHANGED <<db, leaving, signed, crl, expired, held, history>>

-----------------------------------------------------------------------------
(* Authority.Disconnect: RevokeCurrent, then the issuer. *)
RevokeCurrent == /\ node' = [node EXCEPT !.revoked = TRUE]
                 /\ overlap' = [overlap EXCEPT !.revoked = TRUE]

Disconnect ==
  /\ node.serial # None /\ leaving = None
  /\ RevokeCurrent
  /\ leaving' = node.serial
  /\ UNCHANGED <<grants, calls, signed, crl, expired, held, history>>

RevokeIssued ==
  /\ leaving # None
  /\ crl' \in {crl, crl \cup {leaving}}
  /\ leaving' = None
  /\ UNCHANGED <<db, calls, signed, expired, held, history>>

(* Store.RevokeCertificate: one serial; no command of the repository calls *)
(* it.                                                                     *)
RevokeCertificate(s) ==
  /\ node.serial # None
  /\ \/ s = node.serial /\ node' = [node EXCEPT !.revoked = TRUE] /\ UNCHANGED overlap
     \/ s # node.serial /\ s = overlap.serial
        /\ overlap' = [overlap EXCEPT !.revoked = TRUE] /\ UNCHANGED node
  /\ UNCHANGED <<grants, calls, leaving, signed, crl, expired, held, history>>

(* Time. *)
Lapse(t) ==
  /\ grants[t].state = "open"
  /\ grants' = [grants EXCEPT ![t].state = "lapsed"]
  /\ UNCHANGED <<node, overlap, calls, leaving, signed, crl, expired, held, history>>

OverlapEnds ==
  /\ overlap.open
  /\ overlap' = [overlap EXCEPT !.open = FALSE]
  /\ UNCHANGED <<node, grants, calls, leaving, signed, crl, expired, held, history>>

Expire(s) ==
  /\ s <= signed /\ s \notin expired
  /\ expired' = expired \cup {s}
  /\ UNCHANGED <<db, calls, leaving, signed, crl, held, history>>

Enroll(c) == \/ Sign(c) \/ Record(c) \/ RevokeUnrecorded(c) \/ Reply(c) \/ Abandon(c)
             \/ \E t \in Tokens : Consume(c, t)

Next ==
  \/ \E c \in Requests : Enroll(c)
  \/ Disconnect \/ RevokeIssued \/ OverlapEnds
  \/ \E s \in Serials : RevokeCertificate(s) \/ Expire(s)
  \/ \E t \in Tokens : Create(t) \/ CreateRenewal(t) \/ Lapse(t)

Spec == Init /\ [][Next]_vars
-----------------------------------------------------------------------------
(* Properties *)

Recorded(s) == s = node.serial \/ \E r \in Serials : lineage[r] = s

(* One grant, one certificate: however often a token is presented, and     *)
(* whatever fails, at most one certificate is signed for it.               *)
GrantIsOneUse ==
  \A s, r \in Serials : origin[s] # {} /\ origin[s] = origin[r] => s = r

(* Material reaches a Connector only for a certificate the store recorded. *)
HeldIsRecorded == \A s \in held : Recorded(s)

(* A certificate the issuer revoked is not admitted when a Connector has   *)
(* it, though the store and the issuer share no transaction.               *)
RevokedIsNotAdmitted == \A s \in held \cap crl : ~Admitted(s)

(* Certificates are accounted for across two systems that share no         *)
(* transaction.                                                            *)
CertificatesAccounted == GrantIsOneUse /\ HeldIsRecorded /\ RevokedIsNotAdmitted

(* However renewals that were authorized by the same certificate and       *)
(* requests of theirs interleave, at most one replaces it: the recorded    *)
(* certificates form one chain that ends in the node's current one.        *)
RenewalsFormAChain ==
  /\ \A s, r \in Serials : lineage[s] # None /\ lineage[s] = lineage[r] => s = r
  /\ \A r \in Serials : lineage[r] # None => lineage[r] # node.serial

(* The registry sessions consult: admission is gained once, lost for ever, *)
(* kept by at most the last predecessor, and ends with the node's          *)
(* revocation.                                                             *)
Registry == INSTANCE NodeRegistry WITH
  admitted <- {s \in Serials : Admitted(s)},
  spent <- {s \in Serials : Recorded(s) /\ ~Admitted(s)},
  current <- node.serial,
  closed <- node.revoked

ImplementsRegistry == Registry!Spec
=============================================================================
