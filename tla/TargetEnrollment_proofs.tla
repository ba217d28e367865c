----------------------- MODULE TargetEnrollment_proofs -----------------------
(***************************************************************************)
(* Proofs about the enrollment of a node for every set of grants, every    *)
(* number of concurrent requests and every number of certificates: the     *)
(* certificates are accounted for across the store and the issuer, and the *)
(* store implements the registry that Connector sessions rely on.          *)
(***************************************************************************)
EXTENDS TargetEnrollment, TLAPS

CallSteps == {"idle", "sign", "record", "revoke", "reply"}
Call == [step : CallSteps, token : Tokens, serial : SomeSerial]
Grant == [state : {"free", "open", "consumed", "lapsed"}, previous : SomeSerial]

(* The request has a signed certificate in its hands.                      *)
InFlight(c) == calls[c].step \in {"record", "revoke", "reply"}

(* A grant pays for one signature: a request that may still sign is the    *)
(* only one with its consumed token, and nothing was signed for it yet.    *)
SignInv ==
  /\ \A c \in Requests : calls[c].step = "sign" =>
       /\ grants[calls[c].token].state = "consumed"
       /\ \A s \in Serials : calls[c].token \notin origin[s]
       /\ \A d \in Requests : calls[d].step = "sign" /\ calls[d].token = calls[c].token => d = c
  /\ \A s \in Serials : \A t \in origin[s] : s <= signed /\ grants[t].state = "consumed"
  /\ \A s, r \in Serials : \A t \in Tokens : t \in origin[s] /\ t \in origin[r] => s = r

(* Every serial anyone knows was signed, and one request holds it.         *)
SerialInv ==
  /\ \A c \in Requests : InFlight(c) =>
       /\ calls[c].serial \in Serials /\ calls[c].serial <= signed
       /\ \A d \in Requests : InFlight(d) /\ calls[d].serial = calls[c].serial => d = c
  /\ \A s \in held \cup crl : s <= signed
  /\ node.serial <= signed /\ leaving <= signed
  /\ \A r \in Serials : lineage[r] <= signed

(* The chain of recorded serials: the current one and its predecessors.    *)
LineageInv ==
  /\ \A r \in Serials : lineage[r] # None => Recorded(r)
  /\ overlap.serial # None => Recorded(overlap.serial)
  /\ node.serial = None => overlap.serial = None /\ ~node.revoked

(* How far a request is, and what the store knows of its certificate.      *)
PlaceInv ==
  \A c \in Requests :
    /\ calls[c].step = "record" => ~Recorded(calls[c].serial)
    /\ calls[c].step \in {"record", "revoke"} => calls[c].serial \notin held
    /\ calls[c].step = "reply" => Recorded(calls[c].serial)

(* Until the node is revoked, the issuer revokes only what nobody has.     *)
IssuerInv ==
  /\ leaving # None => node.revoked
  /\ ~node.revoked => /\ held \cap crl = {}
                      /\ \A c \in Requests : InFlight(c) => calls[c].serial \notin crl

IInv ==
  /\ TypeOK /\ SignInv /\ SerialInv /\ LineageInv /\ PlaceInv /\ IssuerInv
  /\ HeldIsRecorded

-----------------------------------------------------------------------------
(* A request at rest is one.                                               *)
LEMMA IdleTyped == Idle \in Call /\ Idle.step = "idle"
BY LimitAssumption DEF Idle, Call, CallSteps, SomeSerial

(* The type invariant speaks of those records.                             *)
LEMMA Typed ==
  ASSUME TypeOK
  PROVE  /\ calls \in [Requests -> Call] /\ grants \in [Tokens -> Grant]
         /\ node \in [serial : SomeSerial, revoked : BOOLEAN]
         /\ overlap \in [serial : SomeSerial, open : BOOLEAN, revoked : BOOLEAN]
         /\ signed \in Nat /\ node.serial \in Nat /\ leaving \in Nat
         /\ \A r \in Serials : lineage[r] \in Nat
<1>1. \A s \in SomeSerial : s \in Nat
  BY LimitAssumption DEF SomeSerial, Serials, None
<1>2. signed \in Nat
  BY LimitAssumption DEF TypeOK
<1>. QED  BY <1>1, <1>2 DEF TypeOK, Call, CallSteps, Grant

(* Nothing is not a serial.                                                *)
LEMMA SerialFacts ==
  /\ None \notin Serials /\ None = 0 /\ None \in SomeSerial
  /\ \A s \in Serials : s \in Nat /\ s \in SomeSerial
  /\ \A s \in SomeSerial : s = None \/ s \in Serials
  /\ \A n \in Nat : n < MaxSerial => n + 1 \in Serials
BY LimitAssumption DEF SomeSerial, Serials, None

(* An initial grant.                                                       *)
LEMMA CreateKeeps ==
  ASSUME IInv, NEW t \in Tokens, Create(t)
  PROVE  IInv'
<1>0. TypeOK /\ SignInv /\ SerialInv /\ LineageInv /\ PlaceInv /\ IssuerInv /\ HeldIsRecorded
  BY DEF IInv
<1>. USE IdleTyped, SerialFacts
<1>1. /\ calls \in [Requests -> Call] /\ grants \in [Tokens -> Grant]
      /\ node \in [serial : SomeSerial, revoked : BOOLEAN]
      /\ overlap \in [serial : SomeSerial, open : BOOLEAN, revoked : BOOLEAN]
      /\ signed \in Nat /\ node.serial \in Nat /\ leaving \in Nat
      /\ \A r \in Serials : lineage[r] \in Nat
  BY <1>0, Typed
<1>2. TypeOK'
  BY <1>0, <1>1, LimitAssumption DEF Create, history, TypeOK, Call, CallSteps, Grant
<1>3. SignInv'
  BY <1>0, <1>1 DEF Create, history, SignInv, Call, Grant
<1>4. SerialInv'
  BY <1>0, <1>1 DEF Create, history, SerialInv, InFlight, Call
<1>5. LineageInv'
  BY <1>0, <1>1 DEF Create, history, LineageInv, Recorded
<1>6. PlaceInv'
  BY <1>0, <1>1 DEF Create, history, PlaceInv, Recorded, Call
<1>7. IssuerInv'
  BY <1>0, <1>1 DEF Create, history, IssuerInv, InFlight, Call
<1>8. HeldIsRecorded'
  BY <1>0, <1>1 DEF Create, history, HeldIsRecorded, Recorded
<1>. QED  BY <1>2, <1>3, <1>4, <1>5, <1>6, <1>7, <1>8 DEF IInv

(* A grant for a renewal.                                                  *)
LEMMA CreateRenewalKeeps ==
  ASSUME IInv, NEW t \in Tokens, CreateRenewal(t)
  PROVE  IInv'
<1>0. TypeOK /\ SignInv /\ SerialInv /\ LineageInv /\ PlaceInv /\ IssuerInv /\ HeldIsRecorded
  BY DEF IInv
<1>. USE IdleTyped, SerialFacts
<1>1. /\ calls \in [Requests -> Call] /\ grants \in [Tokens -> Grant]
      /\ node \in [serial : SomeSerial, revoked : BOOLEAN]
      /\ overlap \in [serial : SomeSerial, open : BOOLEAN, revoked : BOOLEAN]
      /\ signed \in Nat /\ node.serial \in Nat /\ leaving \in Nat
      /\ \A r \in Serials : lineage[r] \in Nat
  BY <1>0, Typed
<1>2. TypeOK'
  BY <1>0, <1>1, LimitAssumption DEF CreateRenewal, history, TypeOK, Call, CallSteps, Grant
<1>3. SignInv'
  BY <1>0, <1>1 DEF CreateRenewal, history, SignInv, Call, Grant
<1>4. SerialInv'
  BY <1>0, <1>1 DEF CreateRenewal, history, SerialInv, InFlight, Call
<1>5. LineageInv'
  BY <1>0, <1>1 DEF CreateRenewal, history, LineageInv, Recorded
<1>6. PlaceInv'
  BY <1>0, <1>1 DEF CreateRenewal, history, PlaceInv, Recorded, Call
<1>7. IssuerInv'
  BY <1>0, <1>1 DEF CreateRenewal, history, IssuerInv, InFlight, Call
<1>8. HeldIsRecorded'
  BY <1>0, <1>1 DEF CreateRenewal, history, HeldIsRecorded, Recorded
<1>. QED  BY <1>2, <1>3, <1>4, <1>5, <1>6, <1>7, <1>8 DEF IInv

(* A grant lapses.                                                         *)
LEMMA LapseKeeps ==
  ASSUME IInv, NEW t \in Tokens, Lapse(t)
  PROVE  IInv'
<1>0. TypeOK /\ SignInv /\ SerialInv /\ LineageInv /\ PlaceInv /\ IssuerInv /\ HeldIsRecorded
  BY DEF IInv
<1>. USE IdleTyped, SerialFacts
<1>1. /\ calls \in [Requests -> Call] /\ grants \in [Tokens -> Grant]
      /\ node \in [serial : SomeSerial, revoked : BOOLEAN]
      /\ overlap \in [serial : SomeSerial, open : BOOLEAN, revoked : BOOLEAN]
      /\ signed \in Nat /\ node.serial \in Nat /\ leaving \in Nat
      /\ \A r \in Serials : lineage[r] \in Nat
  BY <1>0, Typed
<1>2. TypeOK'
  BY <1>0, <1>1, LimitAssumption DEF Lapse, history, TypeOK, Call, CallSteps, Grant
<1>3. SignInv'
  BY <1>0, <1>1 DEF Lapse, history, SignInv, Call, Grant
<1>4. SerialInv'
  BY <1>0, <1>1 DEF Lapse, history, SerialInv, InFlight, Call
<1>5. LineageInv'
  BY <1>0, <1>1 DEF Lapse, history, LineageInv, Recorded
<1>6. PlaceInv'
  BY <1>0, <1>1 DEF Lapse, history, PlaceInv, Recorded, Call
<1>7. IssuerInv'
  BY <1>0, <1>1 DEF Lapse, history, IssuerInv, InFlight, Call
<1>8. HeldIsRecorded'
  BY <1>0, <1>1 DEF Lapse, history, HeldIsRecorded, Recorded
<1>. QED  BY <1>2, <1>3, <1>4, <1>5, <1>6, <1>7, <1>8 DEF IInv

(* A grant is consumed, with or without an answer.                         *)
LEMMA ConsumeKeeps ==
  ASSUME IInv, NEW c \in Requests, NEW t \in Tokens, Consume(c, t)
  PROVE  IInv'
<1>0. TypeOK /\ SignInv /\ SerialInv /\ LineageInv /\ PlaceInv /\ IssuerInv /\ HeldIsRecorded
  BY DEF IInv
<1>. USE IdleTyped, SerialFacts
<1>1. /\ calls \in [Requests -> Call] /\ grants \in [Tokens -> Grant]
      /\ node \in [serial : SomeSerial, revoked : BOOLEAN]
      /\ overlap \in [serial : SomeSerial, open : BOOLEAN, revoked : BOOLEAN]
      /\ signed \in Nat /\ node.serial \in Nat /\ leaving \in Nat
      /\ \A r \in Serials : lineage[r] \in Nat
  BY <1>0, Typed
<1>2. TypeOK'
  <2>1. calls' \in [Requests -> Call]
    BY <1>1 DEF Consume, Call, CallSteps
  <2>2. grants' \in [Tokens -> Grant]
    BY <1>1 DEF Consume, Grant
  <2>. QED  BY <1>0, <2>1, <2>2 DEF Consume, history, TypeOK, Call, CallSteps, Grant
<1>3. SignInv'
  <2>1. grants[t].state = "open" /\ grants'[t].state = "consumed"
        /\ \A u \in Tokens \ {t} : grants'[u] = grants[u]
    BY <1>1 DEF Consume, Consumable, Grant
  <2>2. \A s \in Serials : t \notin origin[s]
    BY <1>0, <2>1 DEF SignInv
  <2>3. \A d \in Requests : calls[d].step = "sign" => calls[d].token # t
    BY <1>0, <2>1 DEF SignInv
  <2>4. /\ \A d \in Requests \ {c} : calls'[d] = calls[d]
        /\ calls[c].step = "idle"
        /\ calls'[c] = calls[c] \/ calls'[c].token = t
    BY <1>1 DEF Consume
  <2>5. ASSUME NEW d \in Requests, calls'[d].step = "sign"
        PROVE  /\ grants'[calls'[d].token].state = "consumed"
               /\ \A s \in Serials : calls'[d].token \notin origin'[s]
               /\ \A e \in Requests : calls'[e].step = "sign" /\ calls'[e].token = calls'[d].token => e = d
    BY <1>0, <1>1, <2>1, <2>2, <2>3, <2>4, <2>5 DEF SignInv, Consume, history, Call
  <2>6. \A s \in Serials : \A u \in origin'[s] : s <= signed' /\ grants'[u].state = "consumed"
    BY <1>0, <2>1, <2>2 DEF SignInv, Consume, history, TypeOK
  <2>7. \A s, r \in Serials : \A u \in Tokens : u \in origin'[s] /\ u \in origin'[r] => s = r
    BY <1>0 DEF SignInv, Consume, history
  <2>. QED  BY <2>5, <2>6, <2>7 DEF SignInv
<1>4. SerialInv'
  BY <1>0, <1>1 DEF Consume, Consumable, history, SerialInv, InFlight, Call
<1>5. LineageInv'
  BY <1>0, <1>1 DEF Consume, Consumable, history, LineageInv, Recorded
<1>6. PlaceInv'
  BY <1>0, <1>1 DEF Consume, Consumable, history, PlaceInv, Recorded, Call
<1>7. IssuerInv'
  BY <1>0, <1>1 DEF Consume, Consumable, history, IssuerInv, InFlight, Call
<1>8. HeldIsRecorded'
  BY <1>0, <1>1 DEF Consume, Consumable, history, HeldIsRecorded, Recorded
<1>. QED  BY <1>2, <1>3, <1>4, <1>5, <1>6, <1>7, <1>8 DEF IInv

(* A certificate is signed.                                                *)
LEMMA SignKeeps ==
  ASSUME IInv, NEW c \in Requests, Sign(c)
  PROVE  IInv'
<1>0. TypeOK /\ SignInv /\ SerialInv /\ LineageInv /\ PlaceInv /\ IssuerInv /\ HeldIsRecorded
  BY DEF IInv
<1>. USE IdleTyped, SerialFacts
<1>1. /\ calls \in [Requests -> Call] /\ grants \in [Tokens -> Grant]
      /\ node \in [serial : SomeSerial, revoked : BOOLEAN]
      /\ overlap \in [serial : SomeSerial, open : BOOLEAN, revoked : BOOLEAN]
      /\ signed \in Nat /\ node.serial \in Nat /\ leaving \in Nat
      /\ \A r \in Serials : lineage[r] \in Nat
  BY <1>0, Typed
<1>. DEFINE new == signed + 1
            had == calls[c].token
<1>2. /\ new \in Serials /\ signed' = new /\ had \in Tokens /\ calls[c].step = "sign"
      /\ origin' = [origin EXCEPT ![new] = {had}] /\ origin \in [Serials -> SUBSET Tokens]
      /\ UNCHANGED <<node, overlap, grants, leaving, crl, expired, held, lineage>>
  BY <1>0, <1>1 DEF Sign, TypeOK, Call, db
<1>3. /\ calls' \in [Requests -> Call]
      /\ \A d \in Requests \ {c} : calls'[d] = calls[d]
      /\ calls'[c].step = "idle" \/ (calls'[c].step = "record" /\ calls'[c].serial = new)
  BY SMTT(30), <1>1, <1>2 DEF Sign, Call, CallSteps
<1>. HIDE DEF new, had
<1>4. new \in Nat /\ \A n \in Nat : n <= signed => n <= new /\ n # new
  BY <1>1 DEF new
<1>5. TypeOK'
  <2>1. signed' \in 0..MaxSerial
    BY <1>1, <1>2, LimitAssumption DEF Serials
  <2>. QED  BY <1>0, <1>2, <1>3, <2>1 DEF TypeOK, Call, CallSteps, Grant
<1>6. SignInv'
  <2>1. \A s \in Serials : had \notin origin[s]
    BY <1>0, <1>2 DEF SignInv, had
  <2>2. grants[had].state = "consumed"
    BY <1>0, <1>2 DEF SignInv, had
  <2>3. ASSUME NEW d \in Requests, calls'[d].step = "sign"
        PROVE  d # c /\ calls'[d] = calls[d] /\ calls[d].token # had
    BY <1>0, <1>2, <1>3, <2>3 DEF SignInv, had
  <2>4. ASSUME NEW d \in Requests, calls'[d].step = "sign"
        PROVE  /\ grants'[calls'[d].token].state = "consumed"
               /\ \A s \in Serials : calls'[d].token \notin origin'[s]
               /\ \A e \in Requests : calls'[e].step = "sign" /\ calls'[e].token = calls'[d].token => e = d
    BY <1>0, <1>2, <2>3, <2>4 DEF SignInv
  <2>5. \A s \in Serials : \A t \in origin'[s] : s <= signed' /\ grants'[t].state = "consumed"
    <3>1. ASSUME NEW s \in Serials, NEW t \in origin'[s], s = new
          PROVE  s <= signed' /\ grants'[t].state = "consumed"
      BY <1>2, <1>4, <2>2, <3>1
    <3>2. ASSUME NEW s \in Serials, NEW t \in origin'[s], s # new
          PROVE  s <= signed' /\ grants'[t].state = "consumed"
      <4>1. t \in origin[s]
        BY <1>2, <3>2
      <4>2. s <= signed /\ grants[t].state = "consumed"
        BY <1>0, <4>1 DEF SignInv
      <4>. QED  BY <1>2, <1>4, <4>2
    <3>. QED  BY <3>1, <3>2
  <2>6. \A s, r \in Serials : \A t \in Tokens : t \in origin'[s] /\ t \in origin'[r] => s = r
    BY <1>0, <1>2, <2>1 DEF SignInv
  <2>. QED  BY <2>4, <2>5, <2>6 DEF SignInv
<1>7. SerialInv'
  <2>1. \A d \in Requests : InFlight(d) => calls[d].serial \in Serials /\ calls[d].serial <= signed
    BY <1>0 DEF SerialInv
  <2>2. ASSUME NEW d \in Requests, InFlight(d)'
        PROVE  /\ calls'[d].serial \in Serials /\ calls'[d].serial <= signed'
               /\ \A e \in Requests : InFlight(e)' /\ calls'[e].serial = calls'[d].serial => e = d
    <3>1. CASE d = c
      BY <1>2, <1>3, <1>4, <2>1, <2>2, <3>1 DEF InFlight
    <3>2. CASE d # c
      <4>1. InFlight(d) /\ calls'[d] = calls[d]
        BY <1>3, <2>2, <3>2 DEF InFlight
      <4>2. calls[d].serial \in Serials /\ calls[d].serial <= signed'
        BY <1>2, <1>4, <2>1, <4>1
      <4>3. ASSUME NEW e \in Requests, InFlight(e)', calls'[e].serial = calls'[d].serial
            PROVE  e = d
        <5>1. e # c
          BY <1>2, <1>3, <1>4, <2>1, <4>1, <4>3 DEF InFlight
        <5>. QED  BY <1>0, <1>3, <4>1, <4>3, <5>1 DEF SerialInv, InFlight
      <4>. QED  BY <4>1, <4>2, <4>3
    <3>. QED  BY <3>1, <3>2
  <2>3. \A s \in (held \cup crl)' : s <= signed'
    BY <1>0, <1>2, <1>4 DEF SerialInv, TypeOK
  <2>4. node'.serial <= signed' /\ leaving' <= signed' /\ \A r \in Serials : lineage'[r] <= signed'
    BY <1>0, <1>1, <1>2, <1>4 DEF SerialInv
  <2>. QED  BY <2>2, <2>3, <2>4 DEF SerialInv
<1>8. LineageInv'
  BY <1>0, <1>2 DEF LineageInv, Recorded
<1>9. ~Recorded(new) /\ new \notin held \cup crl
  BY <1>0, <1>1, <1>2, <1>4 DEF SerialInv, Recorded
<1>10. PlaceInv'
  BY <1>0, <1>2, <1>3, <1>9 DEF PlaceInv, Recorded
<1>11. IssuerInv'
  BY <1>0, <1>2, <1>3, <1>9 DEF IssuerInv, InFlight
<1>12. HeldIsRecorded'
  BY <1>0, <1>2 DEF HeldIsRecorded, Recorded
<1>. QED  BY <1>5, <1>6, <1>7, <1>8, <1>10, <1>11, <1>12 DEF IInv

(* Recording extends the chain by its new head and forgets nothing.        *)
LEMMA ApplyExtends ==
  ASSUME IInv, NEW c \in Requests, calls[c].step = "record", Recordable(c), Apply(c)
  PROVE  /\ calls[c].serial \in Serials /\ ~Recorded(calls[c].serial)
         /\ node'.serial = calls[c].serial /\ node'.revoked = node.revoked /\ ~node.revoked
         /\ lineage \in [Serials -> SomeSerial]
         /\ lineage' = [lineage EXCEPT ![calls[c].serial] = node.serial]
         /\ \A q \in Serials : Recorded(q)' <=> Recorded(q) \/ q = calls[c].serial
         /\ overlap'.serial = node.serial
         /\ overlap' = IF node.serial = None THEN overlap
                         ELSE [serial |-> node.serial, open |-> TRUE, revoked |-> FALSE]
<1>. USE SerialFacts
<1>0. TypeOK /\ SerialInv /\ LineageInv /\ PlaceInv
  BY DEF IInv
<1>1. /\ node \in [serial : SomeSerial, revoked : BOOLEAN]
      /\ lineage \in [Serials -> SomeSerial]
  BY <1>0 DEF TypeOK
<1>. DEFINE s == calls[c].serial
            p == grants[calls[c].token].previous
<1>2. s \in Serials /\ ~Recorded(s) /\ lineage[s] = None
  BY <1>0 DEF SerialInv, InFlight, PlaceInv, LineageInv
<1>3. p = node.serial /\ ~node.revoked /\ (p = None => overlap.serial = None)
  BY <1>0 DEF Recordable, Active, LineageInv
<1>4. /\ node' = [node EXCEPT !.serial = s] /\ lineage' = [lineage EXCEPT ![s] = p]
      /\ overlap' = IF p = None THEN overlap ELSE [serial |-> p, open |-> TRUE, revoked |-> FALSE]
  BY DEF Apply
<1>. HIDE DEF s, p
<1>5. node'.serial = s /\ node'.revoked = node.revoked
  BY <1>1, <1>4
<1>6. ASSUME NEW q \in Serials PROVE Recorded(q)' <=> Recorded(q) \/ q = s
  <2>1. CASE Recorded(q)
    <3>1. CASE q = node.serial
      BY <1>1, <1>2, <1>3, <1>4, <3>1 DEF Recorded
    <3>2. ASSUME NEW r \in Serials, lineage[r] = q PROVE Recorded(q)'
      BY <1>1, <1>2, <1>4, <3>2 DEF Recorded
    <3>. QED  BY <2>1, <3>1, <3>2 DEF Recorded
  <2>2. CASE q = s
    BY <1>5, <2>2 DEF Recorded
  <2>3. ASSUME Recorded(q)', q # s PROVE Recorded(q)
    BY <1>1, <1>2, <1>3, <1>4, <1>5, <2>3 DEF Recorded
  <2>. QED  BY <2>1, <2>2, <2>3
<1>. QED  BY <1>1, <1>2, <1>3, <1>4, <1>5, <1>6 DEF s

(* A certificate is recorded, or not.                                      *)
LEMMA RecordKeeps ==
  ASSUME IInv, NEW c \in Requests, Record(c)
  PROVE  IInv'
<1>0. TypeOK /\ SignInv /\ SerialInv /\ LineageInv /\ PlaceInv /\ IssuerInv /\ HeldIsRecorded
  BY DEF IInv
<1>. USE IdleTyped, SerialFacts
<1>1. /\ calls \in [Requests -> Call] /\ grants \in [Tokens -> Grant]
      /\ node \in [serial : SomeSerial, revoked : BOOLEAN]
      /\ overlap \in [serial : SomeSerial, open : BOOLEAN, revoked : BOOLEAN]
      /\ signed \in Nat /\ node.serial \in Nat /\ leaving \in Nat
      /\ \A r \in Serials : lineage[r] \in Nat
  BY <1>0, Typed
<1>2. /\ calls' \in [Requests -> Call] /\ calls[c].step = "record"
      /\ \A d \in Requests \ {c} : calls'[d] = calls[d]
      /\ calls'[c].step \in {"reply", "revoke"} /\ calls'[c].serial = calls[c].serial
      /\ UNCHANGED <<grants, leaving, signed, crl, expired, held, origin>>
  BY <1>1 DEF Record, Call, CallSteps
<1>3. SignInv'
  BY <1>0, <1>2 DEF SignInv
<1>4. \A d \in Requests : /\ InFlight(d)' <=> InFlight(d)
                           /\ calls'[d].serial = calls[d].serial
  BY <1>2 DEF InFlight
<1>5. CASE Recordable(c) /\ Apply(c)
  <2>1. /\ calls[c].serial \in Serials /\ ~Recorded(calls[c].serial)
        /\ node'.serial = calls[c].serial /\ node'.revoked = node.revoked /\ ~node.revoked
        /\ lineage \in [Serials -> SomeSerial]
        /\ lineage' = [lineage EXCEPT ![calls[c].serial] = node.serial]
        /\ \A q \in Serials : Recorded(q)' <=> Recorded(q) \/ q = calls[c].serial
        /\ overlap'.serial = node.serial
        /\ overlap' = IF node.serial = None THEN overlap
                        ELSE [serial |-> node.serial, open |-> TRUE, revoked |-> FALSE]
    BY <1>2, <1>5, ApplyExtends
  <2>2. TypeOK'
    <3>1. node' \in [serial : SomeSerial, revoked : BOOLEAN]
      BY <1>1, <1>5, <2>1 DEF Apply
    <3>2. overlap' \in [serial : SomeSerial, open : BOOLEAN, revoked : BOOLEAN]
      BY <1>1, <2>1
    <3>3. lineage' \in [Serials -> SomeSerial]
      BY <1>1, <2>1
    <3>. QED  BY <1>0, <1>2, <3>1, <3>2, <3>3 DEF TypeOK, Call, CallSteps, Grant
  <2>3. SerialInv'
    <3>1. ASSUME NEW d \in Requests, InFlight(d)'
          PROVE  /\ calls'[d].serial \in Serials /\ calls'[d].serial <= signed'
                 /\ \A e \in Requests : InFlight(e)' /\ calls'[e].serial = calls'[d].serial => e = d
      BY <1>0, <1>2, <1>4, <3>1 DEF SerialInv
    <3>2. \A s \in (held \cup crl)' : s <= signed'
      BY <1>0, <1>2 DEF SerialInv
    <3>3. node'.serial <= signed' /\ leaving' <= signed'
      BY <1>0, <1>2, <2>1 DEF SerialInv, InFlight
    <3>4. \A r \in Serials : lineage'[r] <= signed'
      BY <1>0, <1>2, <2>1 DEF SerialInv
    <3>. QED  BY <3>1, <3>2, <3>3, <3>4 DEF SerialInv
  <2>4. LineageInv'
    <3>1. \A r \in Serials : lineage'[r] # None => Recorded(r)'
      BY <1>0, <2>1 DEF LineageInv
    <3>2. (overlap.serial # None => Recorded(overlap.serial))'
      <4>1. node.serial # None => node.serial \in Serials /\ Recorded(node.serial)
        BY <1>1 DEF Recorded
      <4>. QED  BY <2>1, <4>1 DEF Recorded
    <3>. QED  BY <2>1, <3>1, <3>2 DEF LineageInv
  <2>5. PlaceInv'
    <3>1. ASSUME NEW d \in Requests, InFlight(d), d # c
          PROVE  calls[d].serial \in Serials /\ calls[d].serial # calls[c].serial
      BY <1>0, <1>2, <3>1 DEF SerialInv, InFlight
    <3>. QED  BY <1>0, <1>2, <2>1, <3>1 DEF PlaceInv, InFlight
  <2>6. IssuerInv'
    BY <1>0, <1>2, <1>4, <2>1 DEF IssuerInv
  <2>7. HeldIsRecorded'
    BY <1>0, <1>2, <2>1 DEF HeldIsRecorded, TypeOK
  <2>. QED  BY <1>3, <2>2, <2>3, <2>4, <2>5, <2>6, <2>7 DEF IInv
<1>6. CASE calls' = [calls EXCEPT ![c].step = "revoke"] /\ UNCHANGED <<node, overlap, lineage>>
  <2>1. TypeOK'
    BY <1>0, <1>2, <1>6 DEF TypeOK, Call, CallSteps, Grant
  <2>2. SerialInv' /\ IssuerInv'
    BY <1>0, <1>2, <1>4, <1>6 DEF SerialInv, IssuerInv
  <2>3. LineageInv' /\ HeldIsRecorded'
    BY <1>0, <1>2, <1>6 DEF LineageInv, HeldIsRecorded, Recorded
  <2>4. PlaceInv'
    BY <1>0, <1>1, <1>2, <1>6 DEF PlaceInv, Recorded, Call
  <2>. QED  BY <1>3, <2>1, <2>2, <2>3, <2>4 DEF IInv
<1>. QED  BY <1>5, <1>6 DEF Record

(* What was not recorded is revoked at the issuer.                         *)
LEMMA RevokeUnrecordedKeeps ==
  ASSUME IInv, NEW c \in Requests, RevokeUnrecorded(c)
  PROVE  IInv'
<1>0. TypeOK /\ SignInv /\ SerialInv /\ LineageInv /\ PlaceInv /\ IssuerInv /\ HeldIsRecorded
  BY DEF IInv
<1>. USE IdleTyped, SerialFacts
<1>1. /\ calls \in [Requests -> Call] /\ grants \in [Tokens -> Grant]
      /\ node \in [serial : SomeSerial, revoked : BOOLEAN]
      /\ overlap \in [serial : SomeSerial, open : BOOLEAN, revoked : BOOLEAN]
      /\ signed \in Nat /\ node.serial \in Nat /\ leaving \in Nat
      /\ \A r \in Serials : lineage[r] \in Nat
  BY <1>0, Typed
<1>2. TypeOK'
  BY <1>0, <1>1
  DEF RevokeUnrecorded, db, history, TypeOK, SerialInv, InFlight, Call, CallSteps, Grant
<1>3. SignInv'
  BY <1>0, <1>1 DEF RevokeUnrecorded, db, history, SignInv, Call, Grant
<1>4. SerialInv'
  BY <1>0, <1>1 DEF RevokeUnrecorded, db, history, SerialInv, InFlight, Call
<1>5. LineageInv'
  BY <1>0, <1>1 DEF RevokeUnrecorded, db, history, LineageInv, Recorded
<1>6. PlaceInv'
  BY <1>0, <1>1 DEF RevokeUnrecorded, db, history, PlaceInv, Recorded, Call
<1>7. IssuerInv'
  BY <1>0, <1>1 DEF RevokeUnrecorded, db, history, IssuerInv, SerialInv, PlaceInv, InFlight, Call
<1>8. HeldIsRecorded'
  BY <1>0, <1>1 DEF RevokeUnrecorded, db, history, HeldIsRecorded, Recorded
<1>. QED  BY <1>2, <1>3, <1>4, <1>5, <1>6, <1>7, <1>8 DEF IInv

(* The certificate reaches the Connector.                                  *)
LEMMA ReplyKeeps ==
  ASSUME IInv, NEW c \in Requests, Reply(c)
  PROVE  IInv'
<1>0. TypeOK /\ SignInv /\ SerialInv /\ LineageInv /\ PlaceInv /\ IssuerInv /\ HeldIsRecorded
  BY DEF IInv
<1>. USE IdleTyped, SerialFacts
<1>1. /\ calls \in [Requests -> Call] /\ grants \in [Tokens -> Grant]
      /\ node \in [serial : SomeSerial, revoked : BOOLEAN]
      /\ overlap \in [serial : SomeSerial, open : BOOLEAN, revoked : BOOLEAN]
      /\ signed \in Nat /\ node.serial \in Nat /\ leaving \in Nat
      /\ \A r \in Serials : lineage[r] \in Nat
  BY <1>0, Typed
<1>2. TypeOK'
  BY <1>0, <1>1 DEF Reply, db, history, TypeOK, SerialInv, InFlight, Call, CallSteps, Grant
<1>3. SignInv'
  BY <1>0, <1>1 DEF Reply, db, history, SignInv, Call, Grant
<1>4. SerialInv'
  BY <1>0, <1>1 DEF Reply, db, history, SerialInv, InFlight, Call
<1>5. LineageInv'
  BY <1>0, <1>1 DEF Reply, db, history, LineageInv, Recorded
<1>6. PlaceInv'
  BY <1>0, <1>1 DEF Reply, db, history, PlaceInv, SerialInv, InFlight, Recorded, Call
<1>7. IssuerInv'
  BY <1>0, <1>1 DEF Reply, db, history, IssuerInv, InFlight, Call
<1>8. HeldIsRecorded'
  BY <1>0, <1>1 DEF Reply, db, history, HeldIsRecorded, PlaceInv, Recorded
<1>. QED  BY <1>2, <1>3, <1>4, <1>5, <1>6, <1>7, <1>8 DEF IInv

(* A request ends early.                                                   *)
LEMMA AbandonKeeps ==
  ASSUME IInv, NEW c \in Requests, Abandon(c)
  PROVE  IInv'
<1>0. TypeOK /\ SignInv /\ SerialInv /\ LineageInv /\ PlaceInv /\ IssuerInv /\ HeldIsRecorded
  BY DEF IInv
<1>. USE IdleTyped, SerialFacts
<1>1. /\ calls \in [Requests -> Call] /\ grants \in [Tokens -> Grant]
      /\ node \in [serial : SomeSerial, revoked : BOOLEAN]
      /\ overlap \in [serial : SomeSerial, open : BOOLEAN, revoked : BOOLEAN]
      /\ signed \in Nat /\ node.serial \in Nat /\ leaving \in Nat
      /\ \A r \in Serials : lineage[r] \in Nat
  BY <1>0, Typed
<1>2. TypeOK'
  BY <1>0, <1>1, LimitAssumption DEF Abandon, db, history, TypeOK, Call, CallSteps, Grant
<1>3. SignInv'
  BY <1>0, <1>1 DEF Abandon, db, history, SignInv, Call, Grant
<1>4. SerialInv'
  BY <1>0, <1>1 DEF Abandon, db, history, SerialInv, InFlight, Call
<1>5. LineageInv'
  BY <1>0, <1>1 DEF Abandon, db, history, LineageInv, Recorded
<1>6. PlaceInv'
  BY <1>0, <1>1 DEF Abandon, db, history, PlaceInv, Recorded, Call
<1>7. IssuerInv'
  BY <1>0, <1>1 DEF Abandon, db, history, IssuerInv, InFlight, Call
<1>8. HeldIsRecorded'
  BY <1>0, <1>1 DEF Abandon, db, history, HeldIsRecorded, Recorded
<1>. QED  BY <1>2, <1>3, <1>4, <1>5, <1>6, <1>7, <1>8 DEF IInv

(* The node is revoked in the store,                                       *)
LEMMA DisconnectKeeps ==
  ASSUME IInv, Disconnect
  PROVE  IInv'
<1>0. TypeOK /\ SignInv /\ SerialInv /\ LineageInv /\ PlaceInv /\ IssuerInv /\ HeldIsRecorded
  BY DEF IInv
<1>. USE IdleTyped, SerialFacts
<1>1. /\ calls \in [Requests -> Call] /\ grants \in [Tokens -> Grant]
      /\ node \in [serial : SomeSerial, revoked : BOOLEAN]
      /\ overlap \in [serial : SomeSerial, open : BOOLEAN, revoked : BOOLEAN]
      /\ signed \in Nat /\ node.serial \in Nat /\ leaving \in Nat
      /\ \A r \in Serials : lineage[r] \in Nat
  BY <1>0, Typed
<1>2. TypeOK'
  BY <1>0, <1>1, LimitAssumption
  DEF Disconnect, RevokeCurrent, history, TypeOK, Call, CallSteps, Grant
<1>3. SignInv'
  BY <1>0, <1>1 DEF Disconnect, RevokeCurrent, history, SignInv, Call, Grant
<1>4. SerialInv'
  BY <1>0, <1>1 DEF Disconnect, RevokeCurrent, history, SerialInv, InFlight, Call
<1>5. LineageInv'
  BY <1>0, <1>1 DEF Disconnect, RevokeCurrent, history, LineageInv, Recorded
<1>6. PlaceInv'
  BY <1>0, <1>1 DEF Disconnect, RevokeCurrent, history, PlaceInv, Recorded, Call
<1>7. IssuerInv'
  BY <1>0, <1>1 DEF Disconnect, RevokeCurrent, history, IssuerInv, InFlight, Call
<1>8. HeldIsRecorded'
  BY <1>0, <1>1 DEF Disconnect, RevokeCurrent, history, HeldIsRecorded, Recorded
<1>. QED  BY <1>2, <1>3, <1>4, <1>5, <1>6, <1>7, <1>8 DEF IInv

(* ... and then at the issuer.                                             *)
LEMMA RevokeIssuedKeeps ==
  ASSUME IInv, RevokeIssued
  PROVE  IInv'
<1>0. TypeOK /\ SignInv /\ SerialInv /\ LineageInv /\ PlaceInv /\ IssuerInv /\ HeldIsRecorded
  BY DEF IInv
<1>. USE IdleTyped, SerialFacts
<1>1. /\ calls \in [Requests -> Call] /\ grants \in [Tokens -> Grant]
      /\ node \in [serial : SomeSerial, revoked : BOOLEAN]
      /\ overlap \in [serial : SomeSerial, open : BOOLEAN, revoked : BOOLEAN]
      /\ signed \in Nat /\ node.serial \in Nat /\ leaving \in Nat
      /\ \A r \in Serials : lineage[r] \in Nat
  BY <1>0, Typed
<1>2. TypeOK'
  BY <1>0, <1>1, LimitAssumption DEF RevokeIssued, db, history, TypeOK, Call, CallSteps, Grant
<1>3. SignInv'
  BY <1>0, <1>1 DEF RevokeIssued, db, history, SignInv, Call, Grant
<1>4. SerialInv'
  BY <1>0, <1>1 DEF RevokeIssued, db, history, SerialInv, InFlight, Call
<1>5. LineageInv'
  BY <1>0, <1>1 DEF RevokeIssued, db, history, LineageInv, Recorded
<1>6. PlaceInv'
  BY <1>0, <1>1 DEF RevokeIssued, db, history, PlaceInv, Recorded, Call
<1>7. IssuerInv'
  BY <1>0, <1>1 DEF RevokeIssued, db, history, IssuerInv, InFlight, Call
<1>8. HeldIsRecorded'
  BY <1>0, <1>1 DEF RevokeIssued, db, history, HeldIsRecorded, Recorded
<1>. QED  BY <1>2, <1>3, <1>4, <1>5, <1>6, <1>7, <1>8 DEF IInv

(* One certificate is revoked in the store.                                *)
LEMMA RevokeCertificateKeeps ==
  ASSUME IInv, NEW s \in Serials, RevokeCertificate(s)
  PROVE  IInv'
<1>0. TypeOK /\ SignInv /\ SerialInv /\ LineageInv /\ PlaceInv /\ IssuerInv /\ HeldIsRecorded
  BY DEF IInv
<1>. USE IdleTyped, SerialFacts
<1>1. /\ calls \in [Requests -> Call] /\ grants \in [Tokens -> Grant]
      /\ node \in [serial : SomeSerial, revoked : BOOLEAN]
      /\ overlap \in [serial : SomeSerial, open : BOOLEAN, revoked : BOOLEAN]
      /\ signed \in Nat /\ node.serial \in Nat /\ leaving \in Nat
      /\ \A r \in Serials : lineage[r] \in Nat
  BY <1>0, Typed
<1>2. TypeOK'
  BY <1>0, <1>1, LimitAssumption DEF RevokeCertificate, history, TypeOK, Call, CallSteps, Grant
<1>3. SignInv'
  BY <1>0, <1>1 DEF RevokeCertificate, history, SignInv, Call, Grant
<1>4. SerialInv'
  BY <1>0, <1>1 DEF RevokeCertificate, history, SerialInv, InFlight, Call
<1>5. LineageInv'
  BY <1>0, <1>1 DEF RevokeCertificate, history, LineageInv, Recorded
<1>6. PlaceInv'
  BY <1>0, <1>1 DEF RevokeCertificate, history, PlaceInv, Recorded, Call
<1>7. IssuerInv'
  BY <1>0, <1>1 DEF RevokeCertificate, history, IssuerInv, InFlight, Call
<1>8. HeldIsRecorded'
  BY <1>0, <1>1 DEF RevokeCertificate, history, HeldIsRecorded, Recorded
<1>. QED  BY <1>2, <1>3, <1>4, <1>5, <1>6, <1>7, <1>8 DEF IInv

(* The overlap of a predecessor ends.                                      *)
LEMMA OverlapEndsKeeps ==
  ASSUME IInv, OverlapEnds
  PROVE  IInv'
<1>0. TypeOK /\ SignInv /\ SerialInv /\ LineageInv /\ PlaceInv /\ IssuerInv /\ HeldIsRecorded
  BY DEF IInv
<1>. USE IdleTyped, SerialFacts
<1>1. /\ calls \in [Requests -> Call] /\ grants \in [Tokens -> Grant]
      /\ node \in [serial : SomeSerial, revoked : BOOLEAN]
      /\ overlap \in [serial : SomeSerial, open : BOOLEAN, revoked : BOOLEAN]
      /\ signed \in Nat /\ node.serial \in Nat /\ leaving \in Nat
      /\ \A r \in Serials : lineage[r] \in Nat
  BY <1>0, Typed
<1>2. TypeOK'
  BY <1>0, <1>1, LimitAssumption DEF OverlapEnds, history, TypeOK, Call, CallSteps, Grant
<1>3. SignInv'
  BY <1>0, <1>1 DEF OverlapEnds, history, SignInv, Call, Grant
<1>4. SerialInv'
  BY <1>0, <1>1 DEF OverlapEnds, history, SerialInv, InFlight, Call
<1>5. LineageInv'
  BY <1>0, <1>1 DEF OverlapEnds, history, LineageInv, Recorded
<1>6. PlaceInv'
  BY <1>0, <1>1 DEF OverlapEnds, history, PlaceInv, Recorded, Call
<1>7. IssuerInv'
  BY <1>0, <1>1 DEF OverlapEnds, history, IssuerInv, InFlight, Call
<1>8. HeldIsRecorded'
  BY <1>0, <1>1 DEF OverlapEnds, history, HeldIsRecorded, Recorded
<1>. QED  BY <1>2, <1>3, <1>4, <1>5, <1>6, <1>7, <1>8 DEF IInv

(* A certificate expires.                                                  *)
LEMMA ExpireKeeps ==
  ASSUME IInv, NEW s \in Serials, Expire(s)
  PROVE  IInv'
<1>0. TypeOK /\ SignInv /\ SerialInv /\ LineageInv /\ PlaceInv /\ IssuerInv /\ HeldIsRecorded
  BY DEF IInv
<1>. USE IdleTyped, SerialFacts
<1>1. /\ calls \in [Requests -> Call] /\ grants \in [Tokens -> Grant]
      /\ node \in [serial : SomeSerial, revoked : BOOLEAN]
      /\ overlap \in [serial : SomeSerial, open : BOOLEAN, revoked : BOOLEAN]
      /\ signed \in Nat /\ node.serial \in Nat /\ leaving \in Nat
      /\ \A r \in Serials : lineage[r] \in Nat
  BY <1>0, Typed
<1>2. TypeOK'
  BY <1>0, <1>1, LimitAssumption DEF Expire, db, history, TypeOK, Call, CallSteps, Grant
<1>3. SignInv'
  BY <1>0, <1>1 DEF Expire, db, history, SignInv, Call, Grant
<1>4. SerialInv'
  BY <1>0, <1>1 DEF Expire, db, history, SerialInv, InFlight, Call
<1>5. LineageInv'
  BY <1>0, <1>1 DEF Expire, db, history, LineageInv, Recorded
<1>6. PlaceInv'
  BY <1>0, <1>1 DEF Expire, db, history, PlaceInv, Recorded, Call
<1>7. IssuerInv'
  BY <1>0, <1>1 DEF Expire, db, history, IssuerInv, InFlight, Call
<1>8. HeldIsRecorded'
  BY <1>0, <1>1 DEF Expire, db, history, HeldIsRecorded, Recorded
<1>. QED  BY <1>2, <1>3, <1>4, <1>5, <1>6, <1>7, <1>8 DEF IInv

-----------------------------------------------------------------------------
(* The node has no certificate, the issuer signed none.                    *)
LEMMA InitIInv == Init => IInv
<1>. SUFFICES ASSUME Init PROVE IInv
  OBVIOUS
<1>. USE IdleTyped, SerialFacts
<1>1. calls \in [Requests -> Call] /\ \A c \in Requests : calls[c].step = "idle"
  BY DEF Init
<1>2. TypeOK
  BY <1>1, LimitAssumption
  DEF Init, TypeOK, NoNode, NoOverlap, NoGrant, Call, CallSteps
<1>3. SignInv /\ SerialInv /\ PlaceInv /\ IssuerInv /\ HeldIsRecorded
  BY <1>1 DEF Init, SignInv, SerialInv, PlaceInv, IssuerInv, HeldIsRecorded, InFlight, NoNode
<1>4. LineageInv
  BY DEF Init, LineageInv, NoNode, NoOverlap
<1>. QED  BY <1>2, <1>3, <1>4 DEF IInv

(* Every step of a request, a disconnect, the store and time keeps the     *)
(* inductive invariant.                                                    *)
LEMMA NextIInv == IInv /\ [Next]_vars => IInv'
<1>. SUFFICES ASSUME IInv, [Next]_vars PROVE IInv'
  OBVIOUS
<1>1. ASSUME NEW c \in Requests, Enroll(c) PROVE IInv'
  BY <1>1, SignKeeps, RecordKeeps, RevokeUnrecordedKeeps, ReplyKeeps, AbandonKeeps, ConsumeKeeps
  DEF Enroll
<1>2. CASE Disconnect \/ RevokeIssued \/ OverlapEnds
  BY <1>2, DisconnectKeeps, RevokeIssuedKeeps, OverlapEndsKeeps
<1>3. ASSUME NEW s \in Serials, RevokeCertificate(s) \/ Expire(s) PROVE IInv'
  BY <1>3, RevokeCertificateKeeps, ExpireKeeps
<1>4. ASSUME NEW t \in Tokens, Create(t) \/ CreateRenewal(t) \/ Lapse(t) PROVE IInv'
  BY <1>4, CreateKeeps, CreateRenewalKeeps, LapseKeeps
<1>5. CASE UNCHANGED vars
  BY <1>5
  DEF vars, db, history, IInv, TypeOK, SignInv, SerialInv, LineageInv, PlaceInv, IssuerInv,
     HeldIsRecorded, InFlight, Recorded
<1>. QED  BY <1>1, <1>2, <1>3, <1>4, <1>5 DEF Next

(* The inductive invariant holds of every state of every behaviour.        *)
THEOREM Invariance == Spec => []IInv
<1>. QED  BY InitIInv, NextIInv, PTL DEF Spec

(* The store's rows, the requests and the issuer keep their types.         *)
THEOREM TypeCorrect == Spec => []TypeOK
<1>1. IInv => TypeOK
  BY DEF IInv
<1>. QED  BY <1>1, Invariance, PTL

(* What the inductive invariant says of certificates.                      *)
LEMMA Accounts == IInv => CertificatesAccounted
<1>. SUFFICES ASSUME IInv PROVE CertificatesAccounted
  OBVIOUS
<1>1. GrantIsOneUse
  <2>. SUFFICES ASSUME NEW s \in Serials, NEW r \in Serials, origin[s] # {}, origin[s] = origin[r]
                PROVE  s = r
    BY DEF GrantIsOneUse
  <2>1. PICK t \in origin[s] : TRUE
    OBVIOUS
  <2>2. t \in Tokens
    BY DEF IInv, TypeOK
  <2>. QED  BY <2>1, <2>2 DEF IInv, SignInv
<1>2. HeldIsRecorded
  BY DEF IInv
<1>3. RevokedIsNotAdmitted
  BY DEF IInv, IssuerInv, RevokedIsNotAdmitted, Admitted
<1>. QED  BY <1>1, <1>2, <1>3 DEF CertificatesAccounted

(* However often a token is presented, whatever answer is lost and         *)
(* wherever a request dies, one grant pays for at most one certificate; a  *)
(* Connector only gets a certificate the store recorded; and one that the  *)
(* issuer revoked is not admitted when a Connector has it (Consume,        *)
(* RecordIssued, RevokeCurrent and the issuer's Revoke share no            *)
(* transaction).                                                           *)
THEOREM Accounted == Spec => []CertificatesAccounted
<1>. QED  BY Invariance, Accounts, PTL

(* The store records one certificate after the other: only recording moves *)
(* the chain, and it extends it at its end.                                *)
LEMMA ChainExtends ==
  ASSUME IInv, RenewalsFormAChain, [Next]_vars
  PROVE  RenewalsFormAChain'
<1>1. CASE UNCHANGED <<node.serial, lineage>>
  BY <1>1 DEF RenewalsFormAChain
<1>2. ASSUME NEW c \in Requests, calls[c].step = "record", Recordable(c), Apply(c)
      PROVE  RenewalsFormAChain'
  <2>. DEFINE n == calls[c].serial
  <2>1. /\ n \in Serials /\ ~Recorded(n) /\ node'.serial = n
        /\ lineage \in [Serials -> SomeSerial] /\ lineage' = [lineage EXCEPT ![n] = node.serial]
    BY <1>2, ApplyExtends
  <2>2. node.serial # n /\ \A r \in Serials : lineage[r] # n
    BY <2>1 DEF Recorded
  <2>. HIDE DEF n
  <2>. QED  BY <2>1, <2>2 DEF RenewalsFormAChain
<1>3. CASE \E c \in Requests : Enroll(c)
  <2>1. PICK c \in Requests : Enroll(c)
    BY <1>3
  <2>2. CASE Record(c)
    BY <1>1, <1>2, <2>2 DEF Record
  <2>3. CASE ~Record(c)
    BY <1>1, <2>1, <2>3 DEF Enroll, Sign, RevokeUnrecorded, Reply, Abandon, Consume, db, history
  <2>. QED  BY <2>2, <2>3
<1>4. CASE \E t \in Tokens : Create(t) \/ CreateRenewal(t) \/ Lapse(t)
  BY <1>1, <1>4 DEF Create, CreateRenewal, Lapse, history
<1>5. CASE Disconnect \/ \E s \in Serials : RevokeCertificate(s)
  <2>1. node \in [serial : SomeSerial, revoked : BOOLEAN]
    BY DEF IInv, TypeOK
  <2>. QED  BY <1>1, <1>5, <2>1 DEF Disconnect, RevokeCurrent, RevokeCertificate, history
<1>6. CASE RevokeIssued \/ OverlapEnds \/ \E s \in Serials : Expire(s)
  BY <1>1, <1>6 DEF RevokeIssued, OverlapEnds, Expire, db, history
<1>7. CASE UNCHANGED vars
  BY <1>1, <1>7 DEF vars, db, history
<1>. QED  BY <1>3, <1>4, <1>5, <1>6, <1>7 DEF Next

(* recordConnectorRenewal's comparison: renewals that race for the same    *)
(* certificate replace it at most once, for any number of them.            *)
THEOREM OneChain == Spec => []RenewalsFormAChain
<1>1. Init => RenewalsFormAChain
  BY DEF Init, RenewalsFormAChain
<1>. QED  BY <1>1, ChainExtends, Invariance, PTL DEF Spec

-----------------------------------------------------------------------------
(* The registry's view of the store.                                       *)
NowAdmitted == {s \in Serials : Admitted(s)}
NowSpent == {s \in Serials : Recorded(s) /\ ~Admitted(s)}
view == <<NowAdmitted, NowSpent, node.serial, node.revoked>>

(* Only recorded certificates are admitted.                                *)
LEMMA AdmittedIsRecorded ==
  ASSUME IInv, NEW s \in Serials, Admitted(s)
  PROVE  Recorded(s)
BY SerialFacts DEF IInv, LineageInv, Admitted, Recorded

(* A step that leaves the rows and the expiries alone changes nothing for  *)
(* a session.                                                              *)
LEMMA Silent ==
  ASSUME UNCHANGED <<node, overlap, expired, lineage>>
  PROVE  UNCHANGED view
BY DEF view, NowAdmitted, NowSpent, Admitted, Recorded

(* A step that only takes admissions away is a retirement.                 *)
LEMMA Retires ==
  ASSUME IInv, UNCHANGED <<node.serial, node.revoked, lineage>>,
         \A s \in Serials : Admitted(s)' => Admitted(s)
  PROVE  Registry!Retire
<1>1. \A s \in Serials : Recorded(s)' <=> Recorded(s)
  BY DEF Recorded
<1>2. NowAdmitted' = NowAdmitted \ (NowAdmitted \ NowAdmitted')
  BY DEF NowAdmitted
<1>3. NowSpent' = NowSpent \cup (NowAdmitted \ NowAdmitted')
  BY <1>1, AdmittedIsRecorded DEF NowAdmitted, NowSpent
<1>4. (NowAdmitted \ NowAdmitted') \in SUBSET NowAdmitted
  OBVIOUS
<1>. QED  BY <1>2, <1>3, <1>4 DEF Registry!Retire, NowAdmitted, NowSpent

(* Revoking the node's row ends every admission.                           *)
LEMMA Revokes ==
  ASSUME IInv, node'.serial = node.serial, node'.revoked = TRUE, UNCHANGED lineage
  PROVE  Registry!Revoke
<1>1. \A s \in Serials : (Recorded(s)' <=> Recorded(s)) /\ ~Admitted(s)'
  BY DEF Recorded, Admitted
<1>2. NowAdmitted' = {} /\ NowSpent' = NowSpent \cup NowAdmitted
  BY <1>1, AdmittedIsRecorded DEF NowAdmitted, NowSpent
<1>. QED  BY <1>2 DEF Registry!Revoke, NowAdmitted, NowSpent

(* Recording a certificate admits it once and keeps at most the one it     *)
(* replaces.                                                               *)
LEMMA Admits ==
  ASSUME IInv, NEW c \in Requests, calls[c].step = "record", Recordable(c), Apply(c),
         UNCHANGED expired
  PROVE  Registry!Admit(calls[c].serial) /\ calls[c].serial \in Serials
<1>. USE SerialFacts
<1>0. PICK s : s = calls[c].serial
  OBVIOUS
<1>1. /\ s \in Serials /\ ~Recorded(s)
      /\ node'.serial = s /\ node'.revoked = node.revoked /\ ~node.revoked
      /\ \A q \in Serials : Recorded(q)' <=> Recorded(q) \/ q = s
      /\ overlap'.serial = node.serial /\ s \notin expired
      /\ node.serial # None => node.serial \notin expired
  BY <1>0, ApplyExtends DEF Recordable, Active
<1>2. Admitted(s)' /\ ~Admitted(s)
  BY <1>1, AdmittedIsRecorded DEF Admitted
<1>3. ASSUME NEW q \in Serials, Admitted(q)', q # s PROVE Admitted(q) /\ q = node.serial
  BY <1>1, <1>3 DEF Admitted
<1>4. (NowAdmitted' \ {s}) \in SUBSET (NowAdmitted \cap {node.serial})
  BY <1>3 DEF NowAdmitted
<1>5. NowAdmitted' = (NowAdmitted' \ {s}) \cup {s}
  BY <1>1, <1>2 DEF NowAdmitted
<1>6. NowSpent' = NowSpent \cup (NowAdmitted \ (NowAdmitted' \ {s}))
  BY <1>1, <1>2, <1>3, AdmittedIsRecorded DEF NowAdmitted, NowSpent
<1>7. s \notin NowAdmitted \cup NowSpent
  BY <1>1, <1>2 DEF NowAdmitted, NowSpent
<1>8. Registry!Admit(s)
  BY <1>1, <1>4, <1>5, <1>6, <1>7 DEF Registry!Admit, NowAdmitted, NowSpent
<1>. QED  BY <1>0, <1>1, <1>8

(* Every step of the store is a step of the registry or none.              *)
LEMMA NextRefines == IInv /\ [Next]_vars => [Registry!Next]_view
<1>. SUFFICES ASSUME IInv, [Next]_vars PROVE Registry!Next \/ UNCHANGED view
  OBVIOUS
<1>0. /\ node \in [serial : SomeSerial, revoked : BOOLEAN]
      /\ overlap \in [serial : SomeSerial, open : BOOLEAN, revoked : BOOLEAN]
  BY DEF IInv, TypeOK
<1>1. ASSUME NEW c \in Requests, Record(c) PROVE Registry!Next \/ UNCHANGED view
  <2>1. CASE Recordable(c) /\ Apply(c)
    BY <1>1, <2>1, Admits DEF Record, Registry!Next
  <2>2. CASE UNCHANGED <<node, overlap, lineage>>
    BY <1>1, <2>2, Silent DEF Record
  <2>. QED  BY <1>1, <2>1, <2>2 DEF Record
<1>2. ASSUME NEW c \in Requests, Enroll(c), ~Record(c) PROVE UNCHANGED view
  BY <1>2, Silent DEF Enroll, Sign, RevokeUnrecorded, Reply, Abandon, Consume, db, history
<1>3. CASE Disconnect
  BY <1>0, <1>3, Revokes DEF Disconnect, RevokeCurrent, history, Registry!Next
<1>4. CASE RevokeIssued
  BY <1>4, Silent DEF RevokeIssued, db, history
<1>5. CASE OverlapEnds
  <2>1. \A s \in Serials : Admitted(s)' => Admitted(s)
    BY <1>0, <1>5 DEF OverlapEnds, Admitted
  <2>. QED  BY <1>5, <2>1, Retires DEF OverlapEnds, history, Registry!Next
<1>6. ASSUME NEW s \in Serials, RevokeCertificate(s) PROVE Registry!Next
  <2>1. CASE s = node.serial
    BY <1>0, <1>6, <2>1, Revokes DEF RevokeCertificate, history, Registry!Next
  <2>2. CASE s # node.serial
    <3>1. \A q \in Serials : Admitted(q)' => Admitted(q)
      BY <1>0, <1>6, <2>2 DEF RevokeCertificate, Admitted
    <3>. QED  BY <1>6, <2>2, <3>1, Retires DEF RevokeCertificate, history, Registry!Next
  <2>. QED  BY <2>1, <2>2
<1>7. ASSUME NEW s \in Serials, Expire(s) PROVE Registry!Next
  <2>1. \A q \in Serials : Admitted(q)' => Admitted(q)
    BY <1>7 DEF Expire, db, Admitted
  <2>. QED  BY <1>7, <2>1, Retires DEF Expire, db, history, Registry!Next
<1>8. ASSUME NEW t \in Tokens, Create(t) \/ CreateRenewal(t) \/ Lapse(t) PROVE UNCHANGED view
  BY <1>8, Silent DEF Create, CreateRenewal, Lapse, history
<1>9. CASE UNCHANGED vars
  BY <1>9, Silent DEF vars, db, history
<1>. QED  BY <1>1, <1>2, <1>3, <1>4, <1>5, <1>6, <1>7, <1>8, <1>9 DEF Next

(* A node without a certificate is the registry's first state.             *)
LEMMA InitRefines == Init => Registry!Init
BY SerialFacts DEF Init, Registry!Init, Admitted, Recorded, NoNode, None

(* The PostgreSQL store implements the registry that sessions consult: a   *)
(* certificate is admitted at most once, never regains admission, is       *)
(* outlived by at most the one it replaced, and nothing is admitted after  *)
(* the node's revocation (RecordIssued, recordConnectorRenewal,            *)
(* AdmitCertificate).                                                      *)
THEOREM RefinesRegistry == Spec => ImplementsRegistry
<1>1. IInv /\ [Next]_vars => [Registry!Next]_<<{s \in Serials : Admitted(s)},
        {s \in Serials : Recorded(s) /\ ~Admitted(s)}, node.serial, node.revoked>>
  BY NextRefines DEF view, NowAdmitted, NowSpent
<1>. QED  BY <1>1, InitRefines, Invariance, PTL DEF Spec, ImplementsRegistry, Registry!Spec

=============================================================================
