---------------------- MODULE CredentialRotation_proofs ----------------------
(***************************************************************************)
(* Proofs about the rotation of credentials for every number of keys and   *)
(* of replacements.  The state keeps its type whatever the keys share.     *)
(* What a rotation promises is proved of rotations that do not share a     *)
(* journal file with another one that may run (Alone): where they do, one  *)
(* of two read-change-write cycles is lost and the promise with it.        *)
(*                                                                         *)
(* The invariant is one of each key.  ControlAt: which journal entry and   *)
(* which pending write belong to a step.  NumberAt: replacements are newer *)
(* than what they replace.  PathAt: what the service accepts and what the  *)
(* consumer is bound to, at each entry of the journal.                     *)
(***************************************************************************)
EXTENDS CredentialRotation, TLAPS

(* No two rotations read, change and write one journal file.               *)
Alone == \A k \in Keys : Peers(k) = {k}

Saving(k) == pc[k] \in {"read", "write"}
Unbinding == {"unbind", "delete", "unread", "unwrite"}   \* before the journal is reset

(* Replacements are numbered as they are issued.                           *)
NumberAt(k) ==
  /\ bound[k] <= issued[k] /\ ident[k] <= issued[k]
  /\ \A c \in users[k] : c <= issued[k]
  /\ material[k] # None => /\ material[k].old < material[k].new
                           /\ material[k].user < material[k].new
                           /\ material[k].new <= issued[k]
  /\ pc[k] = "prepare" /\ (material[k] = None \/ kind[k] \in Keycloak) => issued[k] < MaxCred
  /\ pc[k] = "create" /\ kind[k] \in Keycloak => bound[k] < issued[k]
  /\ pc[k] = "delete" => kind[k] \notin Keycloak
  /\ kind[k] = "client" => \E c, d \in Creds : users[k] = {c, d}

(* The Core's phase and material are one file: there is no material        *)
(* without an entry, and no entry is written that is empty.                *)
OneFileAt(k) ==
  kind[k] = "core" =>
    /\ material[k] # None => journal[k] # ""
    /\ pc[k] = "read" => save[k] # ""
    /\ pc[k] = "write" => save[k] # "" /\ doc[k][k] # ""
    /\ pc[k] \notin Unbinding
    /\ pc[k] = "prepare" => journal[k] = ""

(* The entry that is written over another.                                 *)
Following(phase) ==
  CASE phase = "" -> "PREPARED"
    [] phase = "PREPARED" -> "RECONCILED"
    [] phase = "RECONCILED" -> "VERIFIED"
    [] phase = "VERIFIED" -> "RETIRED"
    [] phase = "RETIRED" -> ""

(* The journal entry that belongs to a step, and the one it is to write.   *)
ControlAt(k) ==
  /\ Saving(k) => save[k] = Following(journal[k])
  /\ ~Saving(k) => save[k] = ""
  /\ pc[k] = "write" => doc[k][k] = save[k]
  /\ pc[k] = "unwrite" => doc[k][k] = Reset(k)
  /\ pc[k] = "prepare" => journal[k] = ""
  /\ pc[k] = "create" => journal[k] = IF kind[k] = "core" THEN "PREPARED" ELSE ""
  /\ pc[k] = "reconcile" => journal[k] = "PREPARED"
  /\ pc[k] = "verify" => journal[k] = "RECONCILED"
  /\ pc[k] \in {"retire", "commit"} => journal[k] = "VERIFIED"
  /\ pc[k] = "discard" => journal[k] = IF kind[k] = "core" THEN "RETIRED" ELSE ""
  /\ pc[k] \in Unbinding => undoing[k] /\ journal[k] \in {"PREPARED", "RECONCILED"}
  /\ pc[k] = "drop" => journal[k] = Reset(k)
  /\ pc[k] \in Unbinding \cup {"drop"} => kind[k] \notin {"core", "signing"}
  /\ kind[k] = "core" /\ Saving(k) => save[k] \notin {"", "PREPARED"}

(* Whoever is past Prepare has material.                                   *)
MaterialAt(k) ==
  /\ journal[k] # "" \/ Saving(k) \/ pc[k] \in {"discard", "drop"} => material[k] # None
  /\ pc[k] = "create" /\ kind[k] \notin Keycloak => material[k] # None
  /\ kind[k] = "core" => (material[k] # None <=> journal[k] # "")
  /\ kind[k] \notin S3 => material[k].user = material[k].old
  /\ kind[k] = "platform" => material[k].user = material[k].old

New(k) == material[k].new
Old(k) == material[k].old

Verified(k) == journal[k] \in {"VERIFIED", "RETIRED"} \/ (Saving(k) /\ save[k] = "VERIFIED")
               \/ pc[k] = "discard"
Gone(k) == journal[k] = "RETIRED" \/ (Saving(k) /\ save[k] = "RETIRED")
           \/ pc[k] \in {"commit", "discard"}

(* Without material the consumer is bound to what is accepted, and a       *)
(* bucket's identity file names it.                                        *)
RestAt(k) ==
  /\ journal[k] = "" /\ (material[k] = None \/ kind[k] \in Keycloak) => bound[k] \in users[k]
  /\ journal[k] = "" /\ material[k] = None /\ kind[k] \in S3 => ident[k] = bound[k]
  /\ material[k] # None => material[k].user = Old(k)

(* The old path is accepted until a verified retirement, the new one from  *)
(* its creation to a rollback.                                             *)
OldAt(k) ==
  /\ fresh[k] /\ material[k] # None => Old(k) \in users[k]
  /\ fresh[k] /\ ~undoing[k] => bound[k] \in users[k]
  /\ ~torn[k] /\ undoing[k] => pc[k] \in Unbinding
  /\ Saving(k) /\ save[k] = "PREPARED" => New(k) \in users[k]
  /\ journal[k] = "PREPARED" /\ ~undoing[k] /\ (kind[k] = "core" => pc[k] = "reconcile")
     => New(k) \in users[k]

(* The consumer is on the new one from the reconciliation on.              *)
NewAt(k) ==
  /\ Saving(k) /\ save[k] = "RECONCILED" => bound[k] = New(k)
  /\ journal[k] = "RECONCILED" /\ pc[k] \notin Unbinding /\ kind[k] # "bucket"
     => bound[k] = New(k)
  /\ Verified(k) => bound[k] = New(k) /\ New(k) \in users[k]
  /\ Gone(k) => ~fresh[k] /\ Old(k) \notin users[k]
  /\ Gone(k) /\ pc[k] # "commit" /\ kind[k] \in S3 => ident[k] = New(k)

(* A rollback binds the old one before it resets the journal.              *)
UndoAt(k) ==
  /\ pc[k] \in {"unread", "unwrite"} /\ kind[k] \notin Keycloak => bound[k] = Old(k)
  /\ pc[k] = "delete" /\ kind[k] \in Managed => bound[k] = Old(k)
  /\ pc[k] \in Unbinding /\ kind[k] \in Keycloak => bound[k] \in users[k]
  /\ kind[k] \in Keycloak /\ journal[k] \in {"PREPARED", "RECONCILED"} => New(k) \in users[k]

(* Only a bucket's material of a finished rotation is used again.          *)
OnceAt(k) ==
  /\ kind[k] \in Managed /\ material[k] # None /\ ~fresh[k] =>
       /\ journal[k] \in {"", "VERIFIED", "RETIRED"}
       /\ bound[k] = New(k) /\ New(k) \in users[k] /\ Old(k) \notin users[k]
  /\ kind[k] \in Own /\ journal[k] \in {"PREPARED", "RECONCILED"} => fresh[k]
  /\ kind[k] \notin S3 /\ Saving(k) /\ save[k] = "PREPARED" => fresh[k]

(* Keycloak's replacement before it is on file, and before the journal is. *)
IssuedAt(k) ==
  /\ pc[k] = "create" /\ kind[k] \in Keycloak => issued[k] \in users[k]
  /\ kind[k] \in Keycloak /\ fresh[k] /\ material[k] # None /\ journal[k] = ""
       => Old(k) = bound[k]
  /\ kind[k] = "client" /\ fresh[k] /\ material[k] # None /\ journal[k] = ""
       => New(k) \in users[k]

(* The Core's roles are those on file.                                     *)
RolesAt(k) ==
  /\ kind[k] = "core" /\ material[k] = None => users[k] \subseteq {bound[k]}
  /\ kind[k] = "core" /\ material[k] # None => users[k] \subseteq {Old(k), New(k)}

(* The paths of a key the guarantees are given for.                        *)
PathAt(k) ==
  RestAt(k) /\ OldAt(k) /\ NewAt(k) /\ UndoAt(k) /\ OnceAt(k) /\ IssuedAt(k) /\ RolesAt(k)

TypeInv == TypeOK /\ \A k \in Keys : NumberAt(k) /\ OneFileAt(k)

IInv ==
  /\ TypeInv /\ Alone
  /\ \A k \in Keys : ControlAt(k) /\ MaterialAt(k) /\ (k \in Sound => PathAt(k))


-----------------------------------------------------------------------------
(* One key at a time *)

Rotates(k) == ControlAt(k) /\ MaterialAt(k) /\ (k \in Sound => PathAt(k))

(* The types of one key's state.                                           *)
LEMMA KeyTypes ==
  ASSUME TypeOK, NEW k \in Keys
  PROVE  /\ kind[k] \in Kinds /\ users[k] \in SUBSET Creds /\ bound[k] \in Creds /\ ident[k] \in Creds
         /\ material[k] \in Material /\ journal[k] \in Phases /\ pc[k] \in Steps /\ save[k] \in Phases
         /\ issued[k] \in Creds
         /\ {material[k].old, material[k].user, material[k].new} \subseteq Creds
BY DEF TypeOK, Material

(* What is replaced is not the replacement.                                *)
LEMMA OldIsOlder ==
  ASSUME TypeOK, NEW k \in Keys, NumberAt(k), material[k] # None
  PROVE  material[k].old # material[k].new /\ material[k].user # material[k].new
<1>1. {material[k].old, material[k].user, material[k].new} \subseteq Creds
  BY KeyTypes
<1>2. material[k].old < material[k].new /\ material[k].user < material[k].new
  BY DEF NumberAt
<1>. QED  BY <1>1, <1>2, LimitAssumption DEF Creds

(* A replacement is never the first credential, so it is not "no material". *)
LEMMA ReplacementIsNew ==
  ASSUME TypeOK, NEW k \in Keys
  PROVE  /\ Replacement(k) # None /\ Replacement(k).new = issued[k] + 1
         /\ Replacement(k).old = IF kind[k] = "platform" THEN ident[k] ELSE bound[k]
         /\ Replacement(k).user = IF kind[k] \in S3 THEN ident[k] ELSE bound[k]
         /\ issued[k] < MaxCred => Replacement(k) \in Material /\ issued[k] + 1 \in Creds
<1>1. Replacement(k).new = issued[k] + 1 /\ None.new = 0
  BY DEF Replacement, None
<1>2. issued[k] + 1 # 0
  BY KeyTypes, LimitAssumption DEF Creds
<1>3. issued[k] < MaxCred => Replacement(k) \in Material /\ issued[k] + 1 \in Creds
  BY KeyTypes, LimitAssumption DEF Creds, Replacement, Material
<1>. QED  BY <1>1, <1>2, <1>3 DEF Replacement

(* Rotation.Run resumes at the step that belongs to the entry it finds.    *)
LEMMA StartKeeps ==
  ASSUME TypeOK, NEW k \in Keys, NumberAt(k), OneFileAt(k), Start(k)
  PROVE  TypeOK' /\ NumberAt(k)' /\ OneFileAt(k)' /\ (Rotates(k) => Rotates(k)')
<1>1. /\ kind' = kind /\ users'[k] = users[k] /\ bound'[k] = bound[k]
      /\ ident'[k] = ident[k] /\ material'[k] = material[k] /\ journal'[k] = journal[k]
      /\ doc'[k] = doc[k] /\ issued'[k] = issued[k] /\ fresh'[k] = fresh[k]
      /\ undoing'[k] = undoing[k] /\ torn'[k] = torn[k]
  BY DEF TypeOK, Start, Set, service, files, history, StepAfter, Phases
<1>2. /\ pc[k] = "idle" /\ save'[k] = ""
      /\ \/ journal[k] = "" /\ pc'[k] = "prepare"
         \/ journal[k] = "PREPARED" /\ pc'[k] = IF kind[k] = "core" THEN "create" ELSE "reconcile"
         \/ journal[k] = "RECONCILED" /\ pc'[k] = "verify"
         \/ journal[k] = "VERIFIED" /\ pc'[k] = "retire"
         \/ journal[k] = "RETIRED" /\ pc'[k] = IF kind[k] = "core" THEN "discard" ELSE "read"
      /\ journal[k] = "" /\ (material[k] = None \/ kind[k] \in Keycloak) => issued[k] < MaxCred
  BY DEF TypeOK, Start, Set, service, files, history, StepAfter, Phases
<1>3. TypeOK'
  BY <1>1, <1>2, KeyTypes, LimitAssumption
  DEF TypeOK, NumberAt, Creds, Material, None, Start, Set, service, files, history, StepAfter,
      Phases, Steps, Keycloak
<1>4. NumberAt(k)'
  BY ZenonT(60), <1>1, <1>2, KeyTypes, ReplacementIsNew, LimitAssumption
  DEF NumberAt, Creds, Material, None, StepAfter, Phases, Keycloak
<1>b. OneFileAt(k)'
  BY <1>1, <1>2 DEF OneFileAt, Unbinding
<1>5. ASSUME Rotates(k) PROVE ControlAt(k)' /\ MaterialAt(k)'
  BY <1>1, <1>2, <1>5 DEF Rotates, ControlAt, MaterialAt, Saving, Unbinding, Following, Reset
<1>6. ASSUME Rotates(k), (k \in Sound)' PROVE PathAt(k)'
  <2>1. k \in Sound
    BY <1>1, <1>6 DEF Sound
  <2>2. /\ ControlAt(k) /\ MaterialAt(k) /\ RestAt(k) /\ OldAt(k) /\ NewAt(k) /\ UndoAt(k)
        /\ OnceAt(k) /\ IssuedAt(k) /\ RolesAt(k)
    BY <1>6, <2>1 DEF Rotates, PathAt
  <2>3. RestAt(k)'
    BY <1>1, <1>2, <2>2 DEF RestAt, Old, New
  <2>4. OldAt(k)'
    BY <1>1, <1>2, <2>2 DEF OldAt, Saving, Unbinding, Old, New
  <2>5. NewAt(k)'
    BY <1>1, <1>2, <2>2 DEF NewAt, Saving, Unbinding, Verified, Gone, Old, New
  <2>6. UndoAt(k)'
    BY <1>1, <1>2, <2>2 DEF UndoAt, Saving, Unbinding, Old, New
  <2>7. OnceAt(k)'
    BY <1>1, <1>2, <2>2 DEF OnceAt, Old, New
  <2>8. IssuedAt(k)'
    BY <1>1, <1>2, <2>2
    DEF IssuedAt, ControlAt, MaterialAt, Saving, Unbinding, Old, New, S3, Managed, Keycloak,
        Own, Reset
  <2>9. RolesAt(k)'
    BY <1>1, <1>2, <2>2 DEF RolesAt, Old, New
  <2>. QED  BY <2>3, <2>4, <2>5, <2>6, <2>7, <2>8, <2>9 DEF PathAt
<1>. QED  BY <1>3, <1>4, <1>b, <1>5, <1>6 DEF Rotates

(* Material that exists keeps its number; new material takes the next one, *)
(* and what it replaces is the accepted one.                               *)
LEMMA PrepareKeeps ==
  ASSUME TypeOK, NEW k \in Keys, NumberAt(k), OneFileAt(k), Prepare(k)
  PROVE  TypeOK' /\ NumberAt(k)' /\ OneFileAt(k)' /\ (Rotates(k) => Rotates(k)')
<1>1. /\ kind' = kind /\ users'[k] = users[k] /\ bound'[k] = bound[k]
      /\ ident'[k] = ident[k] /\ journal'[k] = journal[k] /\ save'[k] = save[k]
      /\ doc'[k] = doc[k] /\ undoing'[k] = undoing[k] /\ torn'[k] = torn[k]
  BY DEF TypeOK, Prepare, Set, Goto, service, command, Reuse
<1>2. /\ pc[k] = "prepare" /\ pc'[k] = "create" /\ kind[k] \notin Own
      /\ \/ /\ material[k] # None
            /\ material'[k] = material[k] /\ issued'[k] = issued[k] /\ fresh'[k] = fresh[k]
         \/ /\ material[k] = None
            /\ material'[k] = Replacement(k) /\ issued'[k] = issued[k] + 1 /\ fresh'[k] = TRUE
  BY DEF TypeOK, Prepare, Set, Goto, service, command, Reuse
<1>a. material'[k] # None /\ material'[k] \in Material /\ issued'[k] \in Creds
  BY <1>2, KeyTypes, ReplacementIsNew DEF NumberAt
<1>3. TypeOK'
  <2>1. UNCHANGED <<kind, users, bound, ident, journal, save, doc, undoing, torn, calm>>
    BY DEF Prepare, Set, Goto, service, command, Reuse
  <2>2. pc' \in [Keys -> Steps]
    BY <1>a, KeyTypes DEF TypeOK, Prepare, Set, Goto, Reuse, Steps
  <2>3. material' \in [Keys -> Material]
    BY <1>a DEF TypeOK, Prepare, Set, Goto
  <2>4. issued' \in [Keys -> Creds]
    BY <1>a DEF TypeOK, Prepare, Set, Goto
  <2>5. fresh' \in [Keys -> BOOLEAN]
    BY <1>a DEF TypeOK, Prepare, Set, Goto
  <2>6. outcome' \in [Keys -> {"none", "ok", "error"}]
    BY <1>a DEF TypeOK, Prepare, Set, Goto
  <2>. QED  BY <2>1, <2>2, <2>3, <2>4, <2>5, <2>6 DEF TypeOK
<1>4. NumberAt(k)'
  BY <1>1, <1>2, KeyTypes, ReplacementIsNew, LimitAssumption
  DEF NumberAt, Creds, Material, None, Own, Keycloak
<1>b. OneFileAt(k)'
  BY <1>1, <1>2, <1>a DEF OneFileAt, Unbinding, Own, Keycloak
<1>5. ASSUME Rotates(k) PROVE ControlAt(k)' /\ MaterialAt(k)'
  <2>1. CASE material[k] # None
    BY <1>1, <1>2, <1>5, <2>1 DEF Rotates, ControlAt, MaterialAt, Saving, Unbinding, Own, Reset
  <2>2. CASE material[k] = None
    <3>1. material'[k] = Replacement(k)
      BY <1>2, <2>2
    <3>. QED  BY ZenonT(60), <1>1, <1>2, <1>a, <1>5, <3>1, ReplacementIsNew
         DEF Rotates, ControlAt, MaterialAt, Saving, Unbinding, Own, Reset, S3
  <2>. QED  BY <2>1, <2>2
<1>6. ASSUME Rotates(k), (k \in Sound)' PROVE PathAt(k)'
  <2>1. k \in Sound
    BY <1>1, <1>6 DEF Sound
  <2>2. /\ ControlAt(k) /\ MaterialAt(k) /\ RestAt(k) /\ OldAt(k) /\ NewAt(k) /\ UndoAt(k)
        /\ OnceAt(k) /\ IssuedAt(k) /\ RolesAt(k)
    BY <1>6, <2>1 DEF Rotates, PathAt
  <2>3. RestAt(k)'
    <3>1. CASE material[k] # None
      BY <1>1, <1>2, <2>2, <3>1 DEF RestAt, Old, Own
    <3>2. CASE material[k] = None
      <4>1. material'[k] = Replacement(k)
        BY <1>2, <3>2
      <4>. QED  BY ZenonT(60), <1>1, <1>2, <1>a, <2>2, <3>2, <4>1, ReplacementIsNew
           DEF RestAt, ControlAt, Old, Own, S3
    <3>. QED  BY <3>1, <3>2
  <2>4. OldAt(k)'
    BY ZenonT(60), <1>1, <1>2, <1>a, <1>6, <2>1, <2>2, KeyTypes, ReplacementIsNew, LimitAssumption
    DEF OldAt, RestAt, OnceAt, UndoAt, NewAt, IssuedAt, Verified, NumberAt, ControlAt,
        MaterialAt, Saving, Unbinding, Following, Old, New, Kinds, S3, Managed, Keycloak, Own,
        Creds, Reset
  <2>5. NewAt(k)'
    BY <1>1, <1>2, <1>a, <2>2
    DEF NewAt, ControlAt, MaterialAt, Saving, Unbinding, Verified, Gone, Old, New
  <2>6. UndoAt(k)'
    BY <1>1, <1>2, <1>a, <2>2 DEF UndoAt, ControlAt, MaterialAt, Saving, Unbinding, Old, New
  <2>7. OnceAt(k)'
    BY <1>1, <1>2, <1>a, <2>2 DEF OnceAt, Saving, Unbinding, Old, New
  <2>8. IssuedAt(k)'
    BY <1>1, <1>2, <1>a, <2>2
    DEF IssuedAt, ControlAt, MaterialAt, Saving, Unbinding, Old, New, S3, Managed, Keycloak,
        Own, Reset
  <2>9. RolesAt(k)'
    BY <1>1, <1>2, <1>a, <2>2
    DEF RolesAt, ControlAt, MaterialAt, Saving, Unbinding, Old, New, S3, Managed, Keycloak, Own,
        Reset
  <2>. QED  BY <2>3, <2>4, <2>5, <2>6, <2>7, <2>8, <2>9 DEF PathAt
<1>. QED  BY <1>3, <1>4, <1>b, <1>5, <1>6 DEF Rotates

(* The Core's material and its entry PREPARED appear together.             *)
LEMMA CorePrepareKeeps ==
  ASSUME TypeOK, NEW k \in Keys, NumberAt(k), OneFileAt(k), CorePrepare(k)
  PROVE  TypeOK' /\ NumberAt(k)' /\ OneFileAt(k)' /\ (Rotates(k) => Rotates(k)')
<1>1. /\ kind' = kind /\ users'[k] = users[k] /\ bound'[k] = bound[k]
      /\ ident'[k] = ident[k] /\ save'[k] = save[k] /\ doc'[k] = doc[k]
      /\ undoing'[k] = undoing[k] /\ torn'[k] = torn[k]
  BY DEF TypeOK, CorePrepare, Set, Goto, service, command
<1>2. /\ pc[k] = "prepare" /\ pc'[k] = "create" /\ kind[k] = "core"
      /\ material'[k] = Replacement(k) /\ issued'[k] = issued[k] + 1 /\ fresh'[k] = TRUE
      /\ journal'[k] = "PREPARED"
  BY DEF TypeOK, CorePrepare, Set, Goto, service, command
<1>a. material'[k] # None /\ material'[k] \in Material /\ issued'[k] \in Creds
  BY <1>2, KeyTypes, ReplacementIsNew DEF NumberAt, OneFileAt, Keycloak
<1>3. TypeOK'
  BY <1>1, <1>2, <1>a, KeyTypes, LimitAssumption
  DEF TypeOK, CorePrepare, Set, Goto, service, command, Steps, Phases
<1>4. NumberAt(k)'
  BY <1>1, <1>2, KeyTypes, ReplacementIsNew, LimitAssumption DEF NumberAt, Creds
<1>b. OneFileAt(k)'
  BY <1>1, <1>2, <1>a DEF OneFileAt, Unbinding
<1>5. ASSUME Rotates(k) PROVE ControlAt(k)' /\ MaterialAt(k)'
  BY ZenonT(60), <1>1, <1>2, <1>a, <1>5, KeyTypes, ReplacementIsNew
  DEF Rotates, ControlAt, MaterialAt, PathAt, Saving, Unbinding, Following, Reset, Old, New,
      Verified, Gone, Kinds, S3, Managed, Keycloak, Own
<1>6. ASSUME Rotates(k), (k \in Sound)' PROVE PathAt(k)'
  <2>1. k \in Sound
    BY <1>1, <1>6 DEF Sound
  <2>2. /\ ControlAt(k) /\ MaterialAt(k) /\ RestAt(k) /\ OldAt(k) /\ NewAt(k) /\ UndoAt(k)
        /\ OnceAt(k) /\ IssuedAt(k) /\ RolesAt(k)
    BY <1>6, <2>1 DEF Rotates, PathAt
  <2>3. RestAt(k)'
    BY <1>1, <1>2, <1>a, <2>2, ReplacementIsNew DEF RestAt, Old, S3
  <2>4. OldAt(k)'
    BY ZenonT(60), <1>1, <1>2, <1>a, <1>6, <2>1, <2>2, KeyTypes, ReplacementIsNew, LimitAssumption
    DEF OldAt, RestAt, OnceAt, UndoAt, NewAt, IssuedAt, Verified, NumberAt, ControlAt,
        MaterialAt, Saving, Unbinding, Following, Old, New, Kinds, S3, Managed, Keycloak, Own,
        Creds, Reset
  <2>5. NewAt(k)'
    BY <1>1, <1>2, <1>a, <2>2 DEF NewAt, Saving, Unbinding, Verified, Gone, Old, New
  <2>6. UndoAt(k)'
    BY <1>1, <1>2, <1>a, <2>2
    DEF UndoAt, ControlAt, MaterialAt, Saving, Unbinding, Old, New, S3, Managed, Keycloak, Own,
        Reset
  <2>7. OnceAt(k)'
    BY <1>1, <1>2, <1>a, <2>2 DEF OnceAt, Old, New
  <2>8. IssuedAt(k)'
    BY <1>1, <1>2, <1>a, <2>2
    DEF IssuedAt, ControlAt, MaterialAt, Saving, Unbinding, Old, New, S3, Managed, Keycloak,
        Own, Reset
  <2>9. RolesAt(k)'
    BY ZenonT(60), <1>1, <1>2, <1>a, <1>6, <2>1, <2>2, KeyTypes, ReplacementIsNew, LimitAssumption
    DEF RolesAt, NewAt, OldAt, Verified, Gone, NumberAt, ControlAt, MaterialAt, Saving,
        Unbinding, Following, Old, New, Kinds, S3, Managed, Keycloak, Own, Creds, Reset
  <2>. QED  BY <2>3, <2>4, <2>5, <2>6, <2>7, <2>8, <2>9 DEF PathAt
<1>. QED  BY <1>3, <1>4, <1>b, <1>5, <1>6 DEF Rotates

(* The replacement is accepted before PREPARED is to be written.           *)
LEMMA CreateKeeps ==
  ASSUME TypeOK, NEW k \in Keys, NumberAt(k), OneFileAt(k), Create(k)
  PROVE  TypeOK' /\ NumberAt(k)' /\ OneFileAt(k)' /\ (Rotates(k) => Rotates(k)')
<1>1. /\ kind' = kind /\ bound'[k] = bound[k] /\ ident'[k] = ident[k]
      /\ material'[k] = material[k] /\ journal'[k] = journal[k] /\ doc'[k] = doc[k]
      /\ issued'[k] = issued[k] /\ fresh'[k] = fresh[k] /\ undoing'[k] = undoing[k]
      /\ torn'[k] = torn[k]
  BY DEF TypeOK, Create, Set, Goto, End, files, history
<1>2. /\ pc[k] = "create" /\ kind[k] \notin Keycloak
      /\ \/ /\ CanCreate(k)
            /\ users'[k] = users[k] \cup {material[k].new}
            /\ IF kind[k] = "core" THEN pc'[k] = "reconcile" /\ save'[k] = save[k]
               ELSE pc'[k] = "read" /\ save'[k] = "PREPARED"
         \/ pc'[k] = "idle" /\ users'[k] = users[k] /\ save'[k] = save[k]
  BY DEF TypeOK, Create, Set, Goto, End, files, history
<1>3. TypeOK'
  <2>1. UNCHANGED <<kind, bound, ident, material, journal, doc, issued, fresh, undoing, torn,
                    calm>>
    BY DEF Create, Set, Goto, End, files, history
  <2>2. pc' \in [Keys -> Steps]
    BY ZenonT(60), KeyTypes DEF TypeOK, Create, Set, Goto, End, Steps
  <2>3. users' \in [Keys -> SUBSET Creds]
    <3>1. users' = users \/ users' = [users EXCEPT ![k] = users[k] \cup {material[k].new}]
      BY DEF Create, Set
    <3>2. users[k] \cup {material[k].new} \in SUBSET Creds
      BY KeyTypes
    <3>. QED  BY <3>1, <3>2 DEF TypeOK
  <2>4. save' \in [Keys -> Phases]
    BY KeyTypes DEF TypeOK, Create, Set, Goto, End, Phases
  <2>5. outcome' \in [Keys -> {"none", "ok", "error"}]
    BY KeyTypes DEF TypeOK, Create, Set, Goto, End
  <2>. QED  BY <2>1, <2>2, <2>3, <2>4, <2>5 DEF TypeOK
<1>4. NumberAt(k)'
  BY <1>1, <1>2, KeyTypes, ReplacementIsNew, LimitAssumption
  DEF NumberAt, Creds, Material, None, Keycloak
<1>b. OneFileAt(k)'
  BY <1>1, <1>2 DEF OneFileAt, Unbinding
<1>5. ASSUME Rotates(k) PROVE ControlAt(k)' /\ MaterialAt(k)'
  BY <1>1, <1>2, <1>5 DEF Rotates, ControlAt, MaterialAt, Saving, Unbinding, Following, Reset
<1>6. ASSUME Rotates(k), (k \in Sound)' PROVE PathAt(k)'
  <2>1. k \in Sound
    BY <1>1, <1>6 DEF Sound
  <2>2. /\ ControlAt(k) /\ MaterialAt(k) /\ RestAt(k) /\ OldAt(k) /\ NewAt(k) /\ UndoAt(k)
        /\ OnceAt(k) /\ IssuedAt(k) /\ RolesAt(k)
    BY <1>6, <2>1 DEF Rotates, PathAt
  <2>3. RestAt(k)'
    BY <1>1, <1>2, <2>2 DEF RestAt, Old, New
  <2>4. OldAt(k)'
    BY <1>1, <1>2, <2>2 DEF OldAt, Saving, Unbinding, Old, New
  <2>5. NewAt(k)'
    BY <1>1, <1>2, <2>2 DEF NewAt, Saving, Unbinding, Verified, Gone, Old, New
  <2>6. UndoAt(k)'
    BY <1>1, <1>2, <2>2 DEF UndoAt, Old, New
  <2>7. OnceAt(k)'
    BY <1>1, <1>2, <1>6, <2>1, <2>2, KeyTypes, ReplacementIsNew, LimitAssumption
    DEF OnceAt, NewAt, OldAt, RestAt, UndoAt, Verified, Gone, NumberAt, ControlAt, MaterialAt,
        Saving, Unbinding, Following, Old, New, Kinds, S3, Managed, Keycloak, Own, Creds, Reset,
        CanCreate
  <2>8. IssuedAt(k)'
    BY <1>1, <1>2, <2>2 DEF IssuedAt, Old, New
  <2>9. RolesAt(k)'
    BY <1>1, <1>2, <2>2 DEF RolesAt, ControlAt, MaterialAt, Saving, Unbinding, Old, New
  <2>. QED  BY <2>3, <2>4, <2>5, <2>6, <2>7, <2>8, <2>9 DEF PathAt
<1>. QED  BY <1>3, <1>4, <1>b, <1>5, <1>6 DEF Rotates

(* The consumer is bound to the replacement before RECONCILED is to be     *)
(* written, and otherwise a rollback begins.                               *)
LEMMA ReconcileKeeps ==
  ASSUME TypeOK, NEW k \in Keys, NumberAt(k), OneFileAt(k), Reconcile(k)
  PROVE  TypeOK' /\ NumberAt(k)' /\ OneFileAt(k)' /\ (Rotates(k) => Rotates(k)')
<1>1. /\ kind' = kind /\ users'[k] = users[k] /\ ident'[k] = ident[k]
      /\ material'[k] = material[k] /\ journal'[k] = journal[k] /\ doc'[k] = doc[k]
      /\ issued'[k] = issued[k] /\ fresh'[k] = fresh[k] /\ torn'[k] = torn[k]
  BY DEF TypeOK, Reconcile, Set, Goto, End, Undo, files
<1>2. /\ pc[k] = "reconcile"
      /\ \/ /\ material[k] = None /\ bound'[k] = bound[k] /\ save'[k] = save[k]
            /\ \/ kind[k] \in Own /\ pc'[k] = "idle" /\ undoing'[k] = undoing[k]
               \/ kind[k] \notin Own /\ pc'[k] = "unbind" /\ undoing'[k] = TRUE
         \/ /\ material[k] # None /\ bound'[k] = material[k].new
            /\ \/ pc'[k] = "read" /\ save'[k] = "RECONCILED" /\ undoing'[k] = undoing[k]
               \/ /\ kind[k] \notin Own
                  /\ pc'[k] = "unbind" /\ save'[k] = save[k] /\ undoing'[k] = TRUE
  BY DEF TypeOK, Reconcile, Set, Goto, End, Undo, files
<1>3. TypeOK'
  <2>1. UNCHANGED <<kind, users, ident, material, journal, doc, issued, fresh, torn, calm>>
    BY DEF Reconcile, Set, Goto, End, Undo, files
  <2>2. pc' \in [Keys -> Steps]
    BY KeyTypes DEF TypeOK, Reconcile, Set, Goto, End, Undo, Steps
  <2>3. bound' \in [Keys -> Creds]
    BY KeyTypes DEF TypeOK, Reconcile, Set, Goto, End, Undo
  <2>4. save' \in [Keys -> Phases]
    BY KeyTypes DEF TypeOK, Reconcile, Set, Goto, End, Undo, Phases
  <2>5. undoing' \in [Keys -> BOOLEAN]
    BY KeyTypes DEF TypeOK, Reconcile, Set, Goto, End, Undo
  <2>6. outcome' \in [Keys -> {"none", "ok", "error"}]
    BY KeyTypes DEF TypeOK, Reconcile, Set, Goto, End, Undo
  <2>. QED  BY <2>1, <2>2, <2>3, <2>4, <2>5, <2>6 DEF TypeOK
<1>4. NumberAt(k)'
  BY <1>1, <1>2 DEF NumberAt
<1>b. OneFileAt(k)'
  BY <1>1, <1>2 DEF OneFileAt, Unbinding, Own, Keycloak
<1>5. ASSUME Rotates(k) PROVE ControlAt(k)' /\ MaterialAt(k)'
  BY <1>1, <1>2, <1>5
  DEF Rotates, ControlAt, MaterialAt, Saving, Unbinding, Following, Reset, S3, Managed,
      Keycloak, Own
<1>6. ASSUME Rotates(k), (k \in Sound)' PROVE PathAt(k)'
  <2>1. k \in Sound
    BY <1>1, <1>6 DEF Sound
  <2>2. /\ ControlAt(k) /\ MaterialAt(k) /\ RestAt(k) /\ OldAt(k) /\ NewAt(k) /\ UndoAt(k)
        /\ OnceAt(k) /\ IssuedAt(k) /\ RolesAt(k)
    BY <1>6, <2>1 DEF Rotates, PathAt
  <2>3. RestAt(k)'
    BY <1>1, <1>2, <2>2 DEF RestAt, ControlAt, MaterialAt, Saving, Unbinding, Old, New
  <2>4. OldAt(k)'
    BY <1>1, <1>2, <2>2 DEF OldAt, ControlAt, MaterialAt, Saving, Unbinding, Old, New
  <2>5. NewAt(k)'
    BY <1>1, <1>2, <2>2 DEF NewAt, Saving, Unbinding, Verified, Gone, Old, New
  <2>6. UndoAt(k)'
    BY <1>1, <1>2, <2>2 DEF UndoAt, ControlAt, MaterialAt, Saving, Unbinding, Old, New
  <2>7. OnceAt(k)'
    BY <1>1, <1>2, <2>2 DEF OnceAt, Saving, Unbinding, Old, New
  <2>8. IssuedAt(k)'
    BY <1>1, <1>2, <2>2 DEF IssuedAt, ControlAt, MaterialAt, Saving, Unbinding, Old, New
  <2>9. RolesAt(k)'
    BY <1>1, <1>2, <2>2 DEF RolesAt, Old, New
  <2>. QED  BY <2>3, <2>4, <2>5, <2>6, <2>7, <2>8, <2>9 DEF PathAt
<1>. QED  BY <1>3, <1>4, <1>b, <1>5, <1>6 DEF Rotates

(* A projection that fails leaves either credential bound, both accepted.  *)
LEMMA ProjectFailsKeeps ==
  ASSUME TypeOK, NEW k \in Keys, NumberAt(k), OneFileAt(k), ProjectFails(k)
  PROVE  TypeOK' /\ NumberAt(k)' /\ OneFileAt(k)' /\ (Rotates(k) => Rotates(k)')
<1>1. /\ kind' = kind /\ users'[k] = users[k] /\ ident'[k] = ident[k]
      /\ material'[k] = material[k] /\ journal'[k] = journal[k] /\ save'[k] = save[k]
      /\ doc'[k] = doc[k] /\ issued'[k] = issued[k] /\ fresh'[k] = fresh[k]
      /\ undoing'[k] = undoing[k] /\ torn'[k] = torn[k]
  BY DEF TypeOK, ProjectFails, Set, End, files, command, history
<1>2. /\ pc[k] = "reconcile" /\ pc'[k] = "idle" /\ kind[k] \in {"core", "client"}
      /\ material[k] # None /\ bound'[k] \in {material[k].old, material[k].new}
  BY DEF TypeOK, ProjectFails, Set, End, files, command, history
<1>3. TypeOK'
  <2>1. UNCHANGED <<kind, users, ident, material, journal, save, doc, issued, fresh, undoing,
                    torn, calm>>
    BY DEF ProjectFails, Set, End, files, command, history
  <2>2. pc' \in [Keys -> Steps]
    BY KeyTypes DEF TypeOK, ProjectFails, Set, End, Steps
  <2>3. bound' \in [Keys -> Creds]
    BY KeyTypes DEF TypeOK, ProjectFails, Set, End
  <2>4. outcome' \in [Keys -> {"none", "ok", "error"}]
    BY KeyTypes DEF TypeOK, ProjectFails, Set, End
  <2>. QED  BY <2>1, <2>2, <2>3, <2>4 DEF TypeOK
<1>4. NumberAt(k)'
  BY <1>1, <1>2, KeyTypes, LimitAssumption DEF NumberAt, Creds
<1>b. OneFileAt(k)'
  BY <1>1, <1>2 DEF OneFileAt, Unbinding
<1>5. ASSUME Rotates(k) PROVE ControlAt(k)' /\ MaterialAt(k)'
  BY <1>1, <1>2, <1>5 DEF Rotates, ControlAt, MaterialAt, Saving, Unbinding
<1>6. ASSUME Rotates(k), (k \in Sound)' PROVE PathAt(k)'
  <2>1. k \in Sound
    BY <1>1, <1>6 DEF Sound
  <2>2. /\ ControlAt(k) /\ MaterialAt(k) /\ RestAt(k) /\ OldAt(k) /\ NewAt(k) /\ UndoAt(k)
        /\ OnceAt(k) /\ IssuedAt(k) /\ RolesAt(k)
    BY <1>6, <2>1 DEF Rotates, PathAt
  <2>3. RestAt(k)'
    BY <1>1, <1>2, <2>2 DEF RestAt, ControlAt, MaterialAt, Saving, Unbinding, Old, New
  <2>4. OldAt(k)'
    BY <1>1, <1>2, <2>2 DEF OldAt, ControlAt, MaterialAt, Saving, Unbinding, Old, New
  <2>5. NewAt(k)'
    BY <1>1, <1>2, <2>2
    DEF NewAt, ControlAt, MaterialAt, Saving, Unbinding, Verified, Gone, Old, New
  <2>6. UndoAt(k)'
    BY <1>1, <1>2, <2>2 DEF UndoAt, Saving, Unbinding, Old, New
  <2>7. OnceAt(k)'
    BY <1>1, <1>2, <2>2 DEF OnceAt, ControlAt, MaterialAt, Saving, Unbinding, Old, New
  <2>8. IssuedAt(k)'
    BY <1>1, <1>2, <2>2 DEF IssuedAt, ControlAt, MaterialAt, Saving, Unbinding, Old, New
  <2>9. RolesAt(k)'
    BY <1>1, <1>2, <2>2 DEF RolesAt, Old, New
  <2>. QED  BY <2>3, <2>4, <2>5, <2>6, <2>7, <2>8, <2>9 DEF PathAt
<1>. QED  BY <1>3, <1>4, <1>b, <1>5, <1>6 DEF Rotates

(* VERIFIED is to be written only for a consumer on the replacement: the   *)
(* comparison shows it of a bucket, the journal of the others.             *)
LEMMA VerifyKeeps ==
  ASSUME TypeOK, NEW k \in Keys, NumberAt(k), OneFileAt(k), Verify(k)
  PROVE  TypeOK' /\ NumberAt(k)' /\ OneFileAt(k)' /\ (Rotates(k) => Rotates(k)')
<1>1. /\ kind' = kind /\ users'[k] = users[k] /\ bound'[k] = bound[k]
      /\ ident'[k] = ident[k] /\ material'[k] = material[k] /\ journal'[k] = journal[k]
      /\ doc'[k] = doc[k] /\ issued'[k] = issued[k] /\ fresh'[k] = fresh[k]
      /\ torn'[k] = torn[k]
  BY DEF TypeOK, Verify, Set, Goto, End, Undo, service, files
<1>2. /\ pc[k] = "verify"
      /\ \/ /\ Works(k) /\ Overlapping(k)
            /\ pc'[k] = "read" /\ save'[k] = "VERIFIED" /\ undoing'[k] = undoing[k]
         \/ pc'[k] = "idle" /\ save'[k] = save[k] /\ undoing'[k] = undoing[k]
         \/ /\ kind[k] \notin {"core", "signing"}
            /\ pc'[k] = "unbind" /\ save'[k] = save[k] /\ undoing'[k] = TRUE
  BY DEF TypeOK, Verify, Set, Goto, End, Undo, service, files
<1>3. TypeOK'
  <2>1. UNCHANGED <<kind, users, bound, ident, material, journal, doc, issued, fresh, torn, calm>>
    BY DEF Verify, Set, Goto, End, Undo, service, files
  <2>2. pc' \in [Keys -> Steps]
    BY KeyTypes DEF TypeOK, Verify, Set, Goto, End, Undo, Steps
  <2>3. save' \in [Keys -> Phases]
    BY KeyTypes DEF TypeOK, Verify, Set, Goto, End, Undo, Phases
  <2>4. undoing' \in [Keys -> BOOLEAN]
    BY KeyTypes DEF TypeOK, Verify, Set, Goto, End, Undo
  <2>5. outcome' \in [Keys -> {"none", "ok", "error"}]
    BY KeyTypes DEF TypeOK, Verify, Set, Goto, End, Undo
  <2>. QED  BY <2>1, <2>2, <2>3, <2>4, <2>5 DEF TypeOK
<1>4. NumberAt(k)'
  BY <1>1, <1>2 DEF NumberAt
<1>b. OneFileAt(k)'
  BY <1>1, <1>2 DEF OneFileAt, Unbinding
<1>5. ASSUME Rotates(k) PROVE ControlAt(k)' /\ MaterialAt(k)'
  BY <1>1, <1>2, <1>5 DEF Rotates, ControlAt, MaterialAt, Saving, Unbinding, Following, Reset
<1>6. ASSUME Rotates(k), (k \in Sound)' PROVE PathAt(k)'
  <2>1. k \in Sound
    BY <1>1, <1>6 DEF Sound
  <2>2. /\ ControlAt(k) /\ MaterialAt(k) /\ RestAt(k) /\ OldAt(k) /\ NewAt(k) /\ UndoAt(k)
        /\ OnceAt(k) /\ IssuedAt(k) /\ RolesAt(k)
    BY <1>6, <2>1 DEF Rotates, PathAt
  <2>3. RestAt(k)'
    BY <1>1, <1>2, <2>2 DEF RestAt, Old, New
  <2>4. OldAt(k)'
    BY <1>1, <1>2, <2>2 DEF OldAt, Saving, Unbinding, Old, New
  <2>5. NewAt(k)'
    BY <1>1, <1>2, <1>6, <2>1, <2>2, KeyTypes, ReplacementIsNew, LimitAssumption
    DEF NewAt, OldAt, RestAt, Verified, Gone, Sound, NumberAt, ControlAt, MaterialAt, Saving,
        Unbinding, Following, Old, New, Kinds, S3, Managed, Keycloak, Own, Creds, Reset, Works,
        Accepted, BucketWorks, SignerWorks
  <2>6. UndoAt(k)'
    BY <1>1, <1>2, <1>6, <2>1, <2>2
    DEF UndoAt, OldAt, RestAt, OnceAt, Sound, ControlAt, MaterialAt, Saving, Unbinding,
        Verified, Gone, Old, New, S3, Managed, Keycloak, Own, Reset
  <2>7. OnceAt(k)'
    BY <1>1, <1>2, <2>2 DEF OnceAt, Saving, Unbinding, Old, New
  <2>8. IssuedAt(k)'
    BY <1>1, <1>2, <2>2 DEF IssuedAt, Old, New
  <2>9. RolesAt(k)'
    BY <1>1, <1>2, <2>2 DEF RolesAt, Old, New
  <2>. QED  BY <2>3, <2>4, <2>5, <2>6, <2>7, <2>8, <2>9 DEF PathAt
<1>. QED  BY <1>3, <1>4, <1>b, <1>5, <1>6 DEF Rotates

(* The old credential goes only under VERIFIED.                            *)
LEMMA RetireKeeps ==
  ASSUME TypeOK, NEW k \in Keys, NumberAt(k), OneFileAt(k), Retire(k)
  PROVE  TypeOK' /\ NumberAt(k)' /\ OneFileAt(k)' /\ (Rotates(k) => Rotates(k)')
<1>1. /\ kind' = kind /\ bound'[k] = bound[k] /\ ident'[k] = ident[k]
      /\ material'[k] = material[k] /\ journal'[k] = journal[k] /\ save'[k] = save[k]
      /\ doc'[k] = doc[k] /\ issued'[k] = issued[k] /\ undoing'[k] = undoing[k]
      /\ torn'[k] = torn[k]
  BY DEF TypeOK, Retire, Set, Goto, End, files, command
<1>2. /\ pc[k] = "retire"
      /\ \/ /\ CanRetire(k)
            /\ users'[k] = users[k] \ {material[k].user}
            /\ (fresh'[k] <=> fresh[k] /\ journal[k] # "VERIFIED")
            /\ pc'[k] = IF material[k].old \in users'[k] THEN "idle" ELSE "commit"
         \/ pc'[k] = "idle" /\ users'[k] = users[k] /\ fresh'[k] = fresh[k]
  BY ZenonT(60) DEF TypeOK, Retire, Set, Goto, End, files, command
<1>3. TypeOK'
  <2>1. UNCHANGED <<kind, bound, ident, material, journal, save, doc, issued, undoing, torn,
                    calm>>
    BY DEF Retire, Set, Goto, End, files, command
  <2>2. pc' \in [Keys -> Steps]
    BY KeyTypes DEF TypeOK, Retire, Set, Goto, End, Steps
  <2>3. users' \in [Keys -> SUBSET Creds]
    BY KeyTypes DEF TypeOK, Retire, Set, Goto, End
  <2>4. fresh' \in [Keys -> BOOLEAN]
    BY KeyTypes DEF TypeOK, Retire, Set, Goto, End
  <2>5. outcome' \in [Keys -> {"none", "ok", "error"}]
    BY KeyTypes DEF TypeOK, Retire, Set, Goto, End
  <2>. QED  BY <2>1, <2>2, <2>3, <2>4, <2>5 DEF TypeOK
<1>4. NumberAt(k)'
  BY <1>1, <1>2, KeyTypes, ReplacementIsNew, LimitAssumption
  DEF NumberAt, Creds, Material, None, CanRetire, Own, Keycloak
<1>b. OneFileAt(k)'
  BY <1>1, <1>2 DEF OneFileAt, Unbinding
<1>5. ASSUME Rotates(k) PROVE ControlAt(k)' /\ MaterialAt(k)'
  BY <1>1, <1>2, <1>5 DEF Rotates, ControlAt, MaterialAt, Saving, Unbinding
<1>6. ASSUME Rotates(k), (k \in Sound)' PROVE PathAt(k)'
  <2>1. k \in Sound
    BY <1>1, <1>6 DEF Sound
  <2>2. /\ ControlAt(k) /\ MaterialAt(k) /\ RestAt(k) /\ OldAt(k) /\ NewAt(k) /\ UndoAt(k)
        /\ OnceAt(k) /\ IssuedAt(k) /\ RolesAt(k)
    BY <1>6, <2>1 DEF Rotates, PathAt
  <2>a. /\ journal[k] = "VERIFIED" /\ material[k].user = material[k].old
        /\ material[k].old # material[k].new
        /\ bound[k] = material[k].new /\ material[k].new \in users[k]
    BY <1>2, <2>2, OldIsOlder DEF ControlAt, MaterialAt, RestAt, NewAt, Verified, Old, New
  <2>b. \/ pc'[k] = "idle" /\ users'[k] = users[k] /\ fresh'[k] = fresh[k]
        \/ pc'[k] = "commit" /\ users'[k] = users[k] \ {material[k].old} /\ ~fresh'[k]
    BY <1>2, <2>a
  <2>3. RestAt(k)'
    BY <1>1, <1>2, <2>2 DEF RestAt, ControlAt, MaterialAt, Saving, Unbinding, Old, New
  <2>4. OldAt(k)'
    BY <1>1, <1>2, <2>2 DEF OldAt, ControlAt, MaterialAt, Saving, Unbinding, Old, New
  <2>5. NewAt(k)'
    BY <1>1, <2>a, <2>b, <2>2 DEF NewAt, Saving, Verified, Gone, New, Old
  <2>6. UndoAt(k)'
    BY <1>1, <1>2, <2>2 DEF UndoAt, ControlAt, MaterialAt, Saving, Unbinding, Old, New
  <2>7. OnceAt(k)'
    BY <1>1, <2>a, <2>b, <2>2 DEF OnceAt, NewAt, Saving, Verified, New, Old
  <2>8. IssuedAt(k)'
    BY <1>1, <1>2, <2>2 DEF IssuedAt, ControlAt, MaterialAt, Saving, Unbinding, Old, New
  <2>9. RolesAt(k)'
    BY <1>1, <1>2, <2>2 DEF RolesAt, Old, New
  <2>. QED  BY <2>3, <2>4, <2>5, <2>6, <2>7, <2>8, <2>9 DEF PathAt
<1>. QED  BY <1>3, <1>4, <1>b, <1>5, <1>6 DEF Rotates

(* A bucket's identity file names the replacement before RETIRED is to be  *)
(* written.                                                                *)
LEMMA CommitKeeps ==
  ASSUME TypeOK, NEW k \in Keys, NumberAt(k), OneFileAt(k), Commit(k)
  PROVE  TypeOK' /\ NumberAt(k)' /\ OneFileAt(k)' /\ (Rotates(k) => Rotates(k)')
<1>1. /\ kind' = kind /\ users'[k] = users[k] /\ bound'[k] = bound[k]
      /\ material'[k] = material[k] /\ journal'[k] = journal[k] /\ doc'[k] = doc[k]
      /\ issued'[k] = issued[k] /\ fresh'[k] = fresh[k] /\ undoing'[k] = undoing[k]
      /\ torn'[k] = torn[k]
  BY DEF TypeOK, Commit, Set, Goto, service, history, Committed
<1>2. /\ pc[k] = "commit" /\ pc'[k] = "read" /\ save'[k] = "RETIRED"
      /\ ident'[k] = IF kind[k] \in S3 THEN material[k].new ELSE ident[k]
  BY DEF TypeOK, Commit, Set, Goto, service, history, Committed
<1>3. TypeOK'
  BY <1>1, <1>2, KeyTypes, LimitAssumption
  DEF TypeOK, Commit, Set, Goto, service, history, Committed, Steps, Phases
<1>4. NumberAt(k)'
  BY <1>1, <1>2, KeyTypes, ReplacementIsNew, LimitAssumption DEF NumberAt, Creds, Material, None
<1>b. OneFileAt(k)'
  BY <1>1, <1>2 DEF OneFileAt, Unbinding
<1>5. ASSUME Rotates(k) PROVE ControlAt(k)' /\ MaterialAt(k)'
  BY <1>1, <1>2, <1>5 DEF Rotates, ControlAt, MaterialAt, Saving, Unbinding, Following, Reset
<1>6. ASSUME Rotates(k), (k \in Sound)' PROVE PathAt(k)'
  <2>1. k \in Sound
    BY <1>1, <1>6 DEF Sound
  <2>2. /\ ControlAt(k) /\ MaterialAt(k) /\ RestAt(k) /\ OldAt(k) /\ NewAt(k) /\ UndoAt(k)
        /\ OnceAt(k) /\ IssuedAt(k) /\ RolesAt(k)
    BY <1>6, <2>1 DEF Rotates, PathAt
  <2>3. RestAt(k)'
    BY <1>1, <1>2, <2>2 DEF RestAt, ControlAt, MaterialAt, Saving, Unbinding, Old, New
  <2>4. OldAt(k)'
    BY <1>1, <1>2, <2>2 DEF OldAt, Saving, Unbinding, Old, New
  <2>5. NewAt(k)'
    BY <1>1, <1>2, <2>2 DEF NewAt, Saving, Unbinding, Verified, Gone, Old, New
  <2>6. UndoAt(k)'
    BY <1>1, <1>2, <2>2 DEF UndoAt, Saving, Unbinding, Old, New
  <2>7. OnceAt(k)'
    BY <1>1, <1>2, <2>2 DEF OnceAt, Old, New
  <2>8. IssuedAt(k)'
    BY <1>1, <1>2, <2>2 DEF IssuedAt, Old, New
  <2>9. RolesAt(k)'
    BY <1>1, <1>2, <2>2 DEF RolesAt, Old, New
  <2>. QED  BY <2>3, <2>4, <2>5, <2>6, <2>7, <2>8, <2>9 DEF PathAt
<1>. QED  BY <1>3, <1>4, <1>b, <1>5, <1>6 DEF Rotates

(* The document read holds the entry to be written.                        *)
LEMMA ReadKeeps ==
  ASSUME TypeOK, NEW k \in Keys, NumberAt(k), OneFileAt(k), Read(k)
  PROVE  TypeOK' /\ NumberAt(k)' /\ OneFileAt(k)' /\ (Rotates(k) => Rotates(k)')
<1>1. /\ kind' = kind /\ users'[k] = users[k] /\ bound'[k] = bound[k]
      /\ ident'[k] = ident[k] /\ material'[k] = material[k] /\ journal'[k] = journal[k]
      /\ save'[k] = save[k] /\ issued'[k] = issued[k] /\ fresh'[k] = fresh[k]
      /\ undoing'[k] = undoing[k] /\ torn'[k] = torn[k]
  BY DEF TypeOK, Read, Set, Goto, service, files, history, Reset
<1>2. /\ pc[k] \in {"read", "unread"} /\ pc'[k] = IF pc[k] = "read" THEN "write" ELSE "unwrite"
      /\ doc'[k][k] = IF pc[k] = "read" THEN save[k] ELSE Reset(k)
  BY DEF TypeOK, Read, Set, Goto, service, files, history, Reset
<1>3. TypeOK'
  BY <1>1, <1>2, KeyTypes, LimitAssumption
  DEF TypeOK, Read, Set, Goto, service, files, history, Reset, Steps, Phases
<1>4. NumberAt(k)'
  BY <1>1, <1>2 DEF NumberAt
<1>b. OneFileAt(k)'
  BY <1>1, <1>2 DEF OneFileAt, Unbinding
<1>5. ASSUME Rotates(k) PROVE ControlAt(k)' /\ MaterialAt(k)'
  BY <1>1, <1>2, <1>5 DEF Rotates, ControlAt, MaterialAt, Saving, Unbinding, Following, Reset
<1>6. ASSUME Rotates(k), (k \in Sound)' PROVE PathAt(k)'
  <2>1. k \in Sound
    BY <1>1, <1>6 DEF Sound
  <2>2. /\ ControlAt(k) /\ MaterialAt(k) /\ RestAt(k) /\ OldAt(k) /\ NewAt(k) /\ UndoAt(k)
        /\ OnceAt(k) /\ IssuedAt(k) /\ RolesAt(k)
    BY <1>6, <2>1 DEF Rotates, PathAt
  <2>3. RestAt(k)'
    BY <1>1, <1>2, <2>2 DEF RestAt, Old, New
  <2>4. OldAt(k)'
    BY <1>1, <1>2, <2>2 DEF OldAt, Saving, Unbinding, Old, New
  <2>5. NewAt(k)'
    BY <1>1, <1>2, <2>2 DEF NewAt, Saving, Unbinding, Verified, Gone, Old, New
  <2>6. UndoAt(k)'
    BY <1>1, <1>2, <2>2 DEF UndoAt, Saving, Unbinding, Old, New
  <2>7. OnceAt(k)'
    BY <1>1, <1>2, <2>2 DEF OnceAt, Saving, Unbinding, Old, New
  <2>8. IssuedAt(k)'
    BY <1>1, <1>2, <2>2 DEF IssuedAt, Old, New
  <2>9. RolesAt(k)'
    BY <1>1, <1>2, <2>2 DEF RolesAt, Old, New
  <2>. QED  BY <2>3, <2>4, <2>5, <2>6, <2>7, <2>8, <2>9 DEF PathAt
<1>. QED  BY <1>3, <1>4, <1>b, <1>5, <1>6 DEF Rotates

(* The material goes when the old credential is gone.                      *)
LEMMA DiscardKeeps ==
  ASSUME TypeOK, NEW k \in Keys, NumberAt(k), OneFileAt(k), Discard(k)
  PROVE  TypeOK' /\ NumberAt(k)' /\ OneFileAt(k)' /\ (Rotates(k) => Rotates(k)')
<1>1. /\ kind' = kind /\ users'[k] = users[k] /\ bound'[k] = bound[k]
      /\ ident'[k] = ident[k] /\ save'[k] = save[k] /\ doc'[k] = doc[k]
      /\ issued'[k] = issued[k] /\ fresh'[k] = fresh[k] /\ undoing'[k] = undoing[k]
      /\ torn'[k] = torn[k]
  BY DEF TypeOK, Discard, Set, End, service, command, history
<1>2. /\ pc[k] = "discard" /\ pc'[k] = "idle" /\ material'[k] = None
      /\ journal'[k] = IF kind[k] = "core" THEN "" ELSE journal[k]
  BY DEF TypeOK, Discard, Set, End, service, command, history
<1>a. None \in Material /\ None.user = None.old
  BY LimitAssumption DEF None, Material, Creds
<1>3. TypeOK'
  <2>1. UNCHANGED <<kind, users, bound, ident, save, doc, issued, fresh, undoing, torn, calm>>
    BY DEF Discard, Set, End, service, command, history
  <2>2. pc' \in [Keys -> Steps]
    BY <1>a, KeyTypes DEF TypeOK, Discard, Set, End, Steps
  <2>3. material' \in [Keys -> Material]
    BY <1>a DEF TypeOK, Discard, Set, End
  <2>4. journal' \in [Keys -> Phases]
    BY <1>a, KeyTypes DEF TypeOK, Discard, Set, End, Phases
  <2>5. outcome' \in [Keys -> {"none", "ok", "error"}]
    BY <1>a DEF TypeOK, Discard, Set, End
  <2>. QED  BY <2>1, <2>2, <2>3, <2>4, <2>5 DEF TypeOK
<1>4. NumberAt(k)'
  BY <1>1, <1>2 DEF NumberAt
<1>b. OneFileAt(k)'
  BY <1>1, <1>2, <1>a DEF OneFileAt, Unbinding
<1>5. ASSUME Rotates(k) PROVE ControlAt(k)' /\ MaterialAt(k)'
  BY <1>1, <1>2, <1>a, <1>5 DEF Rotates, ControlAt, MaterialAt, Saving, Unbinding
<1>6. ASSUME Rotates(k), (k \in Sound)' PROVE PathAt(k)'
  <2>1. k \in Sound
    BY <1>1, <1>6 DEF Sound
  <2>2. /\ ControlAt(k) /\ MaterialAt(k) /\ RestAt(k) /\ OldAt(k) /\ NewAt(k) /\ UndoAt(k)
        /\ OnceAt(k) /\ IssuedAt(k) /\ RolesAt(k)
    BY <1>6, <2>1 DEF Rotates, PathAt
  <2>3. RestAt(k)'
    BY ZenonT(60), <1>1, <1>2, <1>a, <2>2
    DEF RestAt, OldAt, NewAt, OnceAt, ControlAt, MaterialAt, Saving, Unbinding, Verified, Gone,
        Old, New, S3, Managed, Keycloak, Own, Reset
  <2>4. OldAt(k)'
    BY <1>1, <1>2, <1>a, <2>2 DEF OldAt, ControlAt, MaterialAt, Saving, Unbinding, Old, New
  <2>5. NewAt(k)'
    BY <1>1, <1>2, <1>a, <2>2
    DEF NewAt, ControlAt, MaterialAt, Saving, Unbinding, Verified, Gone, Old, New
  <2>6. UndoAt(k)'
    BY <1>1, <1>2, <1>a, <2>2 DEF UndoAt, ControlAt, MaterialAt, Saving, Unbinding, Old, New
  <2>7. OnceAt(k)'
    BY <1>1, <1>2, <1>a, <2>2 DEF OnceAt, Saving, Unbinding, Old, New
  <2>8. IssuedAt(k)'
    BY <1>1, <1>2, <1>a, <2>2 DEF IssuedAt, Old, New
  <2>9. RolesAt(k)'
    BY ZenonT(60), <1>1, <1>2, <1>a, <2>2
    DEF RolesAt, NewAt, OldAt, ControlAt, MaterialAt, Saving, Unbinding, Verified, Gone, Old,
        New, S3, Managed, Keycloak, Own, Reset
  <2>. QED  BY <2>3, <2>4, <2>5, <2>6, <2>7, <2>8, <2>9 DEF PathAt
<1>. QED  BY <1>3, <1>4, <1>b, <1>5, <1>6 DEF Rotates

(* A rollback binds the old credential, or first deletes a bucket's new    *)
(* user.                                                                   *)
LEMMA UnbindKeeps ==
  ASSUME TypeOK, NEW k \in Keys, NumberAt(k), OneFileAt(k), Unbind(k)
  PROVE  TypeOK' /\ NumberAt(k)' /\ OneFileAt(k)' /\ (Rotates(k) => Rotates(k)')
<1>1. /\ kind' = kind /\ ident'[k] = ident[k] /\ material'[k] = material[k]
      /\ journal'[k] = journal[k] /\ save'[k] = save[k] /\ doc'[k] = doc[k]
      /\ issued'[k] = issued[k] /\ fresh'[k] = fresh[k] /\ undoing'[k] = undoing[k]
      /\ torn'[k] = torn[k]
  BY DEF TypeOK, Unbind, Set, Goto, End, DeleteNew, service, files, command, history
<1>2. /\ pc[k] = "unbind" /\ kind[k] \notin Keycloak
      /\ \/ material[k] = None /\ pc'[k] \in {"unread", "idle"} /\ users'[k] = users[k] /\ bound'[k] = bound[k]
         \/ /\ material[k] # None /\ pc'[k] = "delete" /\ kind[k] \in S3 /\ bound'[k] = bound[k]
            /\ users'[k] \in {users[k], users[k] \ {material[k].new}}
         \/ /\ material[k] # None /\ pc'[k] = "delete" /\ kind[k] \notin S3 /\ users'[k] = users[k]
            /\ bound'[k] = material[k].old
  BY DEF TypeOK, Unbind, Set, Goto, End, DeleteNew, service, files, command, history
<1>3. TypeOK'
  <2>1. UNCHANGED <<kind, ident, material, journal, save, doc, issued, fresh, undoing, torn,
                    calm>>
    BY DEF Unbind, Set, Goto, End, DeleteNew, service, files, command, history
  <2>2. pc' \in [Keys -> Steps]
    BY KeyTypes DEF TypeOK, Unbind, Set, Goto, End, DeleteNew, Steps
  <2>3. users' \in [Keys -> SUBSET Creds]
    BY KeyTypes DEF TypeOK, Unbind, Set, Goto, End, DeleteNew, service, files, command, history
  <2>4. bound' \in [Keys -> Creds]
    BY KeyTypes DEF TypeOK, Unbind, Set, Goto, End, DeleteNew, service, files, command, history
  <2>5. outcome' \in [Keys -> {"none", "ok", "error"}]
    BY KeyTypes DEF TypeOK, Unbind, Set, Goto, End, DeleteNew
  <2>. QED  BY <2>1, <2>2, <2>3, <2>4, <2>5 DEF TypeOK
<1>4. NumberAt(k)'
  BY <1>1, <1>2, KeyTypes, ReplacementIsNew, LimitAssumption
  DEF NumberAt, Creds, Material, None, Keycloak
<1>b. OneFileAt(k)'
  BY <1>1, <1>2 DEF OneFileAt, Unbinding
<1>5. ASSUME Rotates(k) PROVE ControlAt(k)' /\ MaterialAt(k)'
  BY <1>1, <1>2, <1>5 DEF Rotates, ControlAt, MaterialAt, Saving, Unbinding
<1>6. ASSUME Rotates(k), (k \in Sound)' PROVE PathAt(k)'
  <2>1. k \in Sound
    BY <1>1, <1>6 DEF Sound
  <2>2. /\ ControlAt(k) /\ MaterialAt(k) /\ RestAt(k) /\ OldAt(k) /\ NewAt(k) /\ UndoAt(k)
        /\ OnceAt(k) /\ IssuedAt(k) /\ RolesAt(k)
    BY <1>6, <2>1 DEF Rotates, PathAt
  <2>3. RestAt(k)'
    BY <1>1, <1>2, <2>2 DEF RestAt, Old, New
  <2>4. OldAt(k)'
    <3>1. /\ material[k] # None /\ Old(k) # New(k) /\ undoing'[k] /\ ~Saving(k)' /\ pc'[k] \in Unbinding
          /\ users'[k] \in {users[k], users[k] \ {New(k)}}
      BY <1>1, <1>2, <2>2, OldIsOlder DEF ControlAt, MaterialAt, Unbinding, Saving, Old, New
    <3>. QED  BY <1>1, <2>2, <3>1 DEF OldAt, Old, New
  <2>5. NewAt(k)'
    BY <1>1, <1>2, <2>2
    DEF NewAt, ControlAt, MaterialAt, Saving, Unbinding, Verified, Gone, Old, New
  <2>6. UndoAt(k)'
    BY <1>1, <1>2, <2>2
    DEF UndoAt, ControlAt, MaterialAt, Saving, Unbinding, Old, New, S3, Managed, Keycloak, Own,
        Reset
  <2>7. OnceAt(k)'
    BY <1>1, <1>2, <2>2 DEF OnceAt, ControlAt, MaterialAt, Saving, Unbinding, Old, New
  <2>8. IssuedAt(k)'
    BY <1>1, <1>2, <2>2 DEF IssuedAt, ControlAt, MaterialAt, Saving, Unbinding, Old, New
  <2>9. RolesAt(k)'
    BY <1>1, <1>2, <2>2 DEF RolesAt, Old, New
  <2>. QED  BY <2>3, <2>4, <2>5, <2>6, <2>7, <2>8, <2>9 DEF PathAt
<1>. QED  BY <1>3, <1>4, <1>b, <1>5, <1>6 DEF Rotates

(* The new credential is deleted when the old one is bound, or a bucket is *)
(* bound to the old one when its new user is gone.                         *)
LEMMA DeleteKeeps ==
  ASSUME TypeOK, NEW k \in Keys, NumberAt(k), OneFileAt(k), Delete(k)
  PROVE  TypeOK' /\ NumberAt(k)' /\ OneFileAt(k)' /\ (Rotates(k) => Rotates(k)')
<1>1. /\ kind' = kind /\ ident'[k] = ident[k] /\ material'[k] = material[k]
      /\ journal'[k] = journal[k] /\ save'[k] = save[k] /\ doc'[k] = doc[k]
      /\ issued'[k] = issued[k] /\ fresh'[k] = fresh[k] /\ undoing'[k] = undoing[k]
      /\ torn'[k] = torn[k]
  BY DEF TypeOK, Delete, Set, Goto, DeleteNew, files, command, history
<1>2. /\ pc[k] = "delete" /\ pc'[k] = "unread"
      /\ \/ kind[k] \in S3 /\ bound'[k] = material[k].old /\ users'[k] = users[k]
         \/ /\ kind[k] \notin S3 /\ bound'[k] = bound[k]
            /\ users'[k] \in {users[k], users[k] \ {material[k].new}}
  BY DEF TypeOK, Delete, Set, Goto, DeleteNew, files, command, history
<1>3. TypeOK'
  BY <1>1, <1>2, KeyTypes, LimitAssumption
  DEF TypeOK, Delete, Set, Goto, DeleteNew, files, command, history, Steps, Phases
<1>4. NumberAt(k)'
  BY <1>1, <1>2, KeyTypes, ReplacementIsNew, LimitAssumption
  DEF NumberAt, Creds, Material, None, Keycloak
<1>b. OneFileAt(k)'
  BY <1>1, <1>2 DEF OneFileAt, Unbinding
<1>5. ASSUME Rotates(k) PROVE ControlAt(k)' /\ MaterialAt(k)'
  BY <1>1, <1>2, <1>5 DEF Rotates, ControlAt, MaterialAt, Saving, Unbinding
<1>6. ASSUME Rotates(k), (k \in Sound)' PROVE PathAt(k)'
  <2>1. k \in Sound
    BY <1>1, <1>6 DEF Sound
  <2>2. /\ ControlAt(k) /\ MaterialAt(k) /\ RestAt(k) /\ OldAt(k) /\ NewAt(k) /\ UndoAt(k)
        /\ OnceAt(k) /\ IssuedAt(k) /\ RolesAt(k)
    BY <1>6, <2>1 DEF Rotates, PathAt
  <2>3. RestAt(k)'
    BY <1>1, <1>2, <2>2 DEF RestAt, ControlAt, MaterialAt, Saving, Unbinding, Old, New
  <2>4. OldAt(k)'
    <3>1. /\ material[k] # None /\ Old(k) # New(k) /\ undoing'[k] /\ ~Saving(k)' /\ pc'[k] \in Unbinding
          /\ users'[k] \in {users[k], users[k] \ {New(k)}}
      BY <1>1, <1>2, <2>2, OldIsOlder DEF ControlAt, MaterialAt, Unbinding, Saving, Old, New
    <3>. QED  BY <1>1, <2>2, <3>1 DEF OldAt, Old, New
  <2>5. NewAt(k)'
    BY <1>1, <1>2, <2>2
    DEF NewAt, ControlAt, MaterialAt, Saving, Unbinding, Verified, Gone, Old, New
  <2>6. UndoAt(k)'
    BY <1>1, <1>2, <1>6, <2>1, <2>2, KeyTypes, ReplacementIsNew, LimitAssumption
    DEF UndoAt, OldAt, RestAt, OnceAt, Sound, NumberAt, ControlAt, MaterialAt, Saving,
        Unbinding, Following, Old, New, Kinds, S3, Managed, Keycloak, Own, Creds, Reset
  <2>7. OnceAt(k)'
    BY <1>1, <1>2, <2>2 DEF OnceAt, ControlAt, MaterialAt, Saving, Unbinding, Old, New
  <2>8. IssuedAt(k)'
    BY <1>1, <1>2, <2>2 DEF IssuedAt, ControlAt, MaterialAt, Saving, Unbinding, Old, New
  <2>9. RolesAt(k)'
    BY <1>1, <1>2, <2>2 DEF RolesAt, ControlAt, MaterialAt, Saving, Unbinding, Old, New
  <2>. QED  BY <2>3, <2>4, <2>5, <2>6, <2>7, <2>8, <2>9 DEF PathAt
<1>. QED  BY <1>3, <1>4, <1>b, <1>5, <1>6 DEF Rotates

(* Keycloak's rollback binds the old credential or fails to; both are      *)
(* accepted.                                                               *)
LEMMA RebindKeeps ==
  ASSUME TypeOK, NEW k \in Keys, NumberAt(k), OneFileAt(k), Rebind(k)
  PROVE  TypeOK' /\ NumberAt(k)' /\ OneFileAt(k)' /\ (Rotates(k) => Rotates(k)')
<1>1. /\ kind' = kind /\ users'[k] = users[k] /\ ident'[k] = ident[k]
      /\ material'[k] = material[k] /\ journal'[k] = journal[k] /\ save'[k] = save[k]
      /\ doc'[k] = doc[k] /\ issued'[k] = issued[k] /\ fresh'[k] = fresh[k]
      /\ undoing'[k] = undoing[k] /\ torn'[k] = torn[k]
  BY DEF TypeOK, Rebind, Set, Goto, files, command, history
<1>2. /\ pc[k] = "unbind" /\ pc'[k] = "unread" /\ kind[k] \in Keycloak
      /\ bound'[k] \in {bound[k], material[k].old}
  BY DEF TypeOK, Rebind, Set, Goto, files, command, history
<1>3. TypeOK'
  BY <1>1, <1>2, KeyTypes, LimitAssumption
  DEF TypeOK, Rebind, Set, Goto, files, command, history, Steps, Phases
<1>4. NumberAt(k)'
  BY <1>1, <1>2, KeyTypes, ReplacementIsNew, LimitAssumption DEF NumberAt, Creds, Material, None
<1>b. OneFileAt(k)'
  BY <1>1, <1>2 DEF OneFileAt, Unbinding
<1>5. ASSUME Rotates(k) PROVE ControlAt(k)' /\ MaterialAt(k)'
  BY <1>1, <1>2, <1>5 DEF Rotates, ControlAt, MaterialAt, Saving, Unbinding
<1>6. ASSUME Rotates(k), (k \in Sound)' PROVE PathAt(k)'
  <2>1. k \in Sound
    BY <1>1, <1>6 DEF Sound
  <2>2. /\ ControlAt(k) /\ MaterialAt(k) /\ RestAt(k) /\ OldAt(k) /\ NewAt(k) /\ UndoAt(k)
        /\ OnceAt(k) /\ IssuedAt(k) /\ RolesAt(k)
    BY <1>6, <2>1 DEF Rotates, PathAt
  <2>3. RestAt(k)'
    BY <1>1, <1>2, <2>2 DEF RestAt, ControlAt, MaterialAt, Saving, Unbinding, Old, New
  <2>4. OldAt(k)'
    BY <1>1, <1>2, <2>2 DEF OldAt, ControlAt, MaterialAt, Saving, Unbinding, Old, New
  <2>5. NewAt(k)'
    BY <1>1, <1>2, <2>2
    DEF NewAt, ControlAt, MaterialAt, Saving, Unbinding, Verified, Gone, Old, New
  <2>6. UndoAt(k)'
    BY <1>1, <1>2, <2>2
    DEF UndoAt, OldAt, RestAt, OnceAt, ControlAt, MaterialAt, Saving, Unbinding, Verified, Gone,
        Old, New, S3, Managed, Keycloak, Own, Reset
  <2>7. OnceAt(k)'
    BY <1>1, <1>2, <2>2 DEF OnceAt, ControlAt, MaterialAt, Saving, Unbinding, Old, New
  <2>8. IssuedAt(k)'
    BY <1>1, <1>2, <2>2 DEF IssuedAt, Old, New
  <2>9. RolesAt(k)'
    BY <1>1, <1>2, <2>2 DEF RolesAt, ControlAt, MaterialAt, Saving, Unbinding, Old, New
  <2>. QED  BY <2>3, <2>4, <2>5, <2>6, <2>7, <2>8, <2>9 DEF PathAt
<1>. QED  BY <1>3, <1>4, <1>b, <1>5, <1>6 DEF Rotates

(* The material of a rollback goes after its entry, with the old credential*)
(* bound.                                                                  *)
LEMMA DropKeeps ==
  ASSUME TypeOK, NEW k \in Keys, NumberAt(k), OneFileAt(k), Drop(k)
  PROVE  TypeOK' /\ NumberAt(k)' /\ OneFileAt(k)' /\ (Rotates(k) => Rotates(k)')
<1>1. /\ kind' = kind /\ users'[k] = users[k] /\ bound'[k] = bound[k]
      /\ ident'[k] = ident[k] /\ journal'[k] = journal[k] /\ save'[k] = save[k]
      /\ doc'[k] = doc[k] /\ issued'[k] = issued[k] /\ fresh'[k] = fresh[k]
      /\ undoing'[k] = undoing[k] /\ torn'[k] = torn[k]
  BY DEF TypeOK, Drop, Set, End, service, command, history
<1>2. /\ pc[k] = "drop" /\ pc'[k] = "idle"
      /\ material'[k] = IF kind[k] \in S3 \cup Keycloak THEN material[k] ELSE None
  BY DEF TypeOK, Drop, Set, End, service, command, history
<1>a. None \in Material /\ None.user = None.old
  BY LimitAssumption DEF None, Material, Creds
<1>3. TypeOK'
  <2>1. UNCHANGED <<kind, users, bound, ident, journal, save, doc, issued, fresh, undoing, torn,
                    calm>>
    BY DEF Drop, Set, End, service, command, history
  <2>2. pc' \in [Keys -> Steps]
    BY <1>a, KeyTypes DEF TypeOK, Drop, Set, End, Steps
  <2>3. material' \in [Keys -> Material]
    BY <1>a DEF TypeOK, Drop, Set, End
  <2>4. outcome' \in [Keys -> {"none", "ok", "error"}]
    BY <1>a DEF TypeOK, Drop, Set, End
  <2>. QED  BY <2>1, <2>2, <2>3, <2>4 DEF TypeOK
<1>4. NumberAt(k)'
  BY <1>1, <1>2 DEF NumberAt
<1>b. OneFileAt(k)'
  BY <1>1, <1>2, <1>a DEF OneFileAt, Unbinding
<1>5. ASSUME Rotates(k) PROVE ControlAt(k)' /\ MaterialAt(k)'
  BY <1>1, <1>2, <1>a, <1>5
  DEF Rotates, ControlAt, MaterialAt, Saving, Unbinding, Following, Reset
<1>6. ASSUME Rotates(k), (k \in Sound)' PROVE PathAt(k)'
  <2>1. k \in Sound
    BY <1>1, <1>6 DEF Sound
  <2>2. /\ ControlAt(k) /\ MaterialAt(k) /\ RestAt(k) /\ OldAt(k) /\ NewAt(k) /\ UndoAt(k)
        /\ OnceAt(k) /\ IssuedAt(k) /\ RolesAt(k)
    BY <1>6, <2>1 DEF Rotates, PathAt
  <2>3. RestAt(k)'
    BY <1>1, <1>2, <1>a, <1>6, <2>1, <2>2, KeyTypes, ReplacementIsNew, LimitAssumption
    DEF RestAt, OldAt, NewAt, OnceAt, Verified, Gone, Sound, NumberAt, ControlAt, MaterialAt,
        Saving, Unbinding, Following, Old, New, Kinds, S3, Managed, Keycloak, Own, Creds, Reset
  <2>4. OldAt(k)'
    BY <1>1, <1>2, <1>a, <2>2
    DEF OldAt, ControlAt, MaterialAt, Saving, Unbinding, Old, New, S3, Managed, Keycloak, Own,
        Reset
  <2>5. NewAt(k)'
    BY <1>1, <1>2, <1>a, <2>2
    DEF NewAt, ControlAt, MaterialAt, Saving, Unbinding, Verified, Gone, Old, New, S3, Managed,
        Keycloak, Own, Reset
  <2>6. UndoAt(k)'
    BY <1>1, <1>2, <1>a, <2>2 DEF UndoAt, Saving, Unbinding, Old, New
  <2>7. OnceAt(k)'
    BY <1>1, <1>2, <1>a, <2>2 DEF OnceAt, Saving, Unbinding, Old, New
  <2>8. IssuedAt(k)'
    BY <1>1, <1>2, <1>a, <2>2 DEF IssuedAt, Old, New
  <2>9. RolesAt(k)'
    BY <1>1, <1>2, <1>a, <2>2 DEF RolesAt, ControlAt, MaterialAt, Saving, Unbinding, Old, New
  <2>. QED  BY <2>3, <2>4, <2>5, <2>6, <2>7, <2>8, <2>9 DEF PathAt
<1>. QED  BY <1>3, <1>4, <1>b, <1>5, <1>6 DEF Rotates

(* A rotation that dies keeps the entry and the service as they are.       *)
LEMMA StopKeeps ==
  ASSUME TypeOK, NEW k \in Keys, NumberAt(k), OneFileAt(k), Stop(k)
  PROVE  TypeOK' /\ NumberAt(k)' /\ OneFileAt(k)' /\ (Rotates(k) => Rotates(k)')
<1>1. /\ kind' = kind /\ users'[k] = users[k] /\ bound'[k] = bound[k]
      /\ ident'[k] = ident[k] /\ material'[k] = material[k] /\ journal'[k] = journal[k]
      /\ issued'[k] = issued[k] /\ fresh'[k] = fresh[k] /\ undoing'[k] = undoing[k]
  BY DEF TypeOK, Stop, Set, End, service, files
<1>2. /\ pc'[k] = "idle" /\ save'[k] = "" /\ (torn'[k] <=> torn[k] \/ undoing[k])
  BY DEF TypeOK, Stop, Set, End, service, files
<1>3. TypeOK'
  BY <1>1, <1>2, KeyTypes, LimitAssumption
  DEF TypeOK, Stop, Set, End, service, files, Steps, Phases
<1>4. NumberAt(k)'
  BY <1>1, <1>2 DEF NumberAt
<1>b. OneFileAt(k)'
  BY <1>1, <1>2 DEF OneFileAt, Unbinding
<1>5. ASSUME Rotates(k) PROVE ControlAt(k)' /\ MaterialAt(k)'
  BY <1>1, <1>2, <1>5 DEF Rotates, ControlAt, MaterialAt, Saving, Unbinding
<1>6. ASSUME Rotates(k), (k \in Sound)' PROVE PathAt(k)'
  <2>1. k \in Sound
    BY <1>1, <1>2, <1>6 DEF Sound
  <2>2. /\ ControlAt(k) /\ MaterialAt(k) /\ RestAt(k) /\ OldAt(k) /\ NewAt(k) /\ UndoAt(k)
        /\ OnceAt(k) /\ IssuedAt(k) /\ RolesAt(k)
    BY <1>6, <2>1 DEF Rotates, PathAt
  <2>3. RestAt(k)'
    BY <1>1, <1>2, <2>2 DEF RestAt, Old, New
  <2>4. OldAt(k)'
    BY <1>1, <1>2, <2>2 DEF OldAt, Old, New
  <2>5. NewAt(k)'
    BY <1>1, <1>2, <1>6, <2>1, <2>2
    DEF NewAt, OldAt, RestAt, Sound, ControlAt, MaterialAt, Saving, Unbinding, Verified, Gone,
        Old, New, S3, Managed, Keycloak, Own, Reset
  <2>6. UndoAt(k)'
    BY <1>1, <1>2, <2>2 DEF UndoAt, Saving, Unbinding, Old, New
  <2>7. OnceAt(k)'
    BY <1>1, <1>2, <2>2 DEF OnceAt, Old, New
  <2>8. IssuedAt(k)'
    BY <1>1, <1>2, <2>2 DEF IssuedAt, Old, New
  <2>9. RolesAt(k)'
    BY <1>1, <1>2, <2>2 DEF RolesAt, Old, New
  <2>. QED  BY <2>3, <2>4, <2>5, <2>6, <2>7, <2>8, <2>9 DEF PathAt
<1>. QED  BY <1>3, <1>4, <1>b, <1>5, <1>6 DEF Rotates

(* The newest of a client's at most two secrets is one of them.            *)
LEMMA NewestIsOne ==
  ASSUME TypeOK, NEW k \in Keys, NumberAt(k), kind[k] = "client"
  PROVE  Newest(k) \in users[k] /\ Newest(k) \in Creds /\ \A c \in users[k] : c <= Newest(k)
<1>1. PICK c \in Creds, d \in Creds : users[k] = {c, d}
  BY DEF NumberAt
<1>2. \E x \in users[k] : \A y \in users[k] : x >= y
  <2>1. CASE c >= d
    BY <1>1, <2>1, LimitAssumption DEF Creds
  <2>2. CASE ~(c >= d)
    BY <1>1, <2>2, LimitAssumption DEF Creds
  <2>. QED  BY <2>1, <2>2
<1>3. Newest(k) \in users[k] /\ \A y \in users[k] : Newest(k) >= y
  BY <1>2 DEF Newest, Max
<1>. QED  BY <1>1, <1>3, LimitAssumption DEF Creds

(* Keycloak accepts the new one beside the bound one.                      *)
LEMMA IssueKeeps ==
  ASSUME TypeOK, NEW k \in Keys, NumberAt(k), OneFileAt(k), Issue(k)
  PROVE  TypeOK' /\ NumberAt(k)' /\ OneFileAt(k)' /\ (Rotates(k) => Rotates(k)')
<1>1. /\ kind' = kind /\ bound'[k] = bound[k] /\ ident'[k] = ident[k]
      /\ material'[k] = material[k] /\ journal'[k] = journal[k] /\ save'[k] = save[k]
      /\ doc'[k] = doc[k] /\ fresh'[k] = fresh[k] /\ undoing'[k] = undoing[k]
      /\ torn'[k] = torn[k]
  BY DEF TypeOK, Issue, Set, Goto, End, files, command, history
<1>2. /\ pc[k] = "prepare" /\ kind[k] \in Keycloak
      /\ \/ /\ MayIssue(k) /\ pc'[k] = "create"
            /\ issued'[k] = issued[k] + 1 /\ users'[k] = Issued(k)
         \/ pc'[k] = "idle" /\ issued'[k] = issued[k] /\ users'[k] = users[k]
  BY DEF TypeOK, Issue, Set, Goto, End, files, command, history
<1>a. ASSUME pc'[k] = "create"
      PROVE  /\ issued'[k] = issued[k] + 1 /\ issued[k] + 1 \in Creds /\ bound[k] \in users[k]
             /\ users'[k] = {issued[k] + 1} \cup IF kind[k] = "client" THEN {bound[k]} ELSE users[k]
             /\ kind[k] = "client" => \A c \in users[k] : c <= bound[k]
  <2>1. issued[k] + 1 \in Creds
    BY <1>2, KeyTypes, LimitAssumption DEF NumberAt, Creds
  <2>2. MayIssue(k) /\ issued'[k] = issued[k] + 1 /\ users'[k] = Issued(k)
    BY <1>2, <1>a
  <2>3. CASE kind[k] = "client"
    BY <2>1, <2>2, <2>3, NewestIsOne DEF MayIssue, Issued
  <2>4. CASE kind[k] # "client"
    BY <2>1, <2>2, <2>4 DEF MayIssue, Issued
  <2>. QED  BY <2>3, <2>4
<1>c. pc'[k] # "create" => pc'[k] = "idle" /\ issued'[k] = issued[k] /\ users'[k] = users[k]
  BY <1>2
<1>3. TypeOK'
  <2>1. UNCHANGED <<kind, bound, ident, material, journal, save, doc, fresh, undoing, torn, calm>>
    BY DEF Issue, Set, Goto, End, files, command, history
  <2>2. pc' \in [Keys -> Steps]
    BY KeyTypes DEF TypeOK, Issue, Set, Goto, End, Steps
  <2>3. users' \in [Keys -> SUBSET Creds]
    <3>1. users'[k] \in SUBSET Creds
      BY <1>a, <1>c, KeyTypes
    <3>2. users' = users \/ users' = [users EXCEPT ![k] = Issued(k)]
      BY DEF Issue, Set
    <3>. QED  BY <3>1, <3>2 DEF TypeOK
  <2>4. issued' \in [Keys -> Creds]
    <3>1. issued'[k] \in Creds
      BY <1>a, <1>c, KeyTypes
    <3>2. issued' = issued \/ issued' = [issued EXCEPT ![k] = issued[k] + 1]
      BY DEF Issue, Set
    <3>. QED  BY <3>1, <3>2 DEF TypeOK
  <2>5. outcome' \in [Keys -> {"none", "ok", "error"}]
    BY KeyTypes DEF TypeOK, Issue, Set, Goto, End
  <2>. QED  BY <2>1, <2>2, <2>3, <2>4, <2>5 DEF TypeOK
<1>4. NumberAt(k)'
  <2>1. CASE pc'[k] = "create"
    <3>1. /\ bound[k] <= issued[k] /\ issued[k] \in Nat /\ issued'[k] = issued[k] + 1
          /\ users[k] \subseteq Nat /\ bound[k] \in Nat /\ ident[k] \in Nat /\ material[k].new \in Nat
      BY <1>a, <2>1, KeyTypes DEF NumberAt, Creds
    <3>2. \A c \in users'[k] : c <= issued'[k]
      BY <1>a, <2>1, <3>1 DEF NumberAt
    <3>3. kind'[k] = "client" => \E c, d \in Creds : users'[k] = {c, d}
      BY <1>1, <1>a, <2>1, KeyTypes
    <3>. QED  BY <1>1, <1>2, <2>1, <3>1, <3>2, <3>3 DEF NumberAt
  <2>2. CASE pc'[k] # "create"
    BY <1>1, <1>c, <2>2 DEF NumberAt
  <2>. QED  BY <2>1, <2>2
<1>b. OneFileAt(k)'
  BY <1>1, <1>2 DEF OneFileAt, Unbinding
<1>5. ASSUME Rotates(k) PROVE ControlAt(k)' /\ MaterialAt(k)'
  BY <1>1, <1>2, <1>5
  DEF Rotates, ControlAt, MaterialAt, Saving, Unbinding, Following, Reset, S3, Managed,
      Keycloak, Own
<1>6. ASSUME Rotates(k), (k \in Sound)' PROVE PathAt(k)'
  <2>1. k \in Sound
    BY <1>1, <1>6 DEF Sound
  <2>2. /\ ControlAt(k) /\ MaterialAt(k) /\ RestAt(k) /\ OldAt(k) /\ NewAt(k) /\ UndoAt(k)
        /\ OnceAt(k) /\ IssuedAt(k) /\ RolesAt(k)
    BY <1>6, <2>1 DEF Rotates, PathAt
  <2>3. RestAt(k)'
    BY <1>1, <1>a, <1>c, <2>2 DEF RestAt, Old
  <2>4. OldAt(k)'
    <3>1. CASE pc'[k] = "create"
      <4>1. journal[k] = "" /\ pc[k] = "prepare" /\ kind[k] \in Keycloak
        BY <1>2, <2>2 DEF ControlAt
      <4>2. fresh[k] /\ material[k] # None => Old(k) \in users'[k]
        BY <1>2, <1>a, <3>1, <2>2, <4>1 DEF OldAt, IssuedAt
      <4>. QED  BY <1>1, <1>a, <3>1, <2>2, <4>1, <4>2 DEF OldAt, Old, Saving, Unbinding
    <3>2. CASE pc'[k] # "create"
      BY <1>1, <1>2, <1>c, <3>2, <2>2 DEF OldAt, ControlAt, Old, New, Saving, Unbinding, Keycloak
    <3>. QED  BY <3>1, <3>2
  <2>5. NewAt(k)'
    BY <1>1, <1>2, <2>2
    DEF NewAt, ControlAt, MaterialAt, Saving, Unbinding, Verified, Gone, Old, New
  <2>6. UndoAt(k)'
    BY <1>1, <1>2, <2>2 DEF UndoAt, ControlAt, MaterialAt, Saving, Unbinding, Old, New
  <2>7. OnceAt(k)'
    BY <1>1, <1>2, <2>2
    DEF OnceAt, ControlAt, MaterialAt, Saving, Unbinding, Old, New, S3, Managed, Keycloak, Own,
        Reset
  <2>8. IssuedAt(k)'
    <3>1. CASE pc'[k] = "create"
      <4>1. journal[k] = ""
        BY <1>2, <2>2 DEF ControlAt
      <4>2. ASSUME kind[k] = "client", fresh[k], material[k] # None PROVE FALSE
        <5>1. New(k) \in users[k] /\ Old(k) = bound[k]
          BY <1>2, <2>2, <4>1, <4>2 DEF IssuedAt
        <5>2. New(k) <= bound[k] /\ Old(k) < New(k)
          BY <1>a, <3>1, <4>2, <5>1 DEF NumberAt, Old, New
        <5>. QED  BY <5>1, <5>2, KeyTypes, LimitAssumption DEF Creds, Old, New
      <4>. QED  BY <1>1, <1>a, <2>2, <3>1, <4>1, <4>2 DEF IssuedAt, Old
    <3>2. CASE pc'[k] # "create"
      BY <1>1, <1>c, <2>2, <3>2 DEF IssuedAt, Old, New
    <3>. QED  BY <3>1, <3>2
  <2>9. RolesAt(k)'
    BY <1>1, <1>2, <2>2
    DEF RolesAt, ControlAt, MaterialAt, Saving, Unbinding, Old, New, S3, Managed, Keycloak, Own,
        Reset
  <2>. QED  BY <2>3, <2>4, <2>5, <2>6, <2>7, <2>8, <2>9 DEF PathAt
<1>. QED  BY <1>3, <1>4, <1>b, <1>5, <1>6 DEF Rotates

(* What Keycloak issued goes on file beside the one that is bound.         *)
LEMMA SaveIssuedKeeps ==
  ASSUME TypeOK, NEW k \in Keys, NumberAt(k), OneFileAt(k), SaveIssued(k)
  PROVE  TypeOK' /\ NumberAt(k)' /\ OneFileAt(k)' /\ (Rotates(k) => Rotates(k)')
<1>1. /\ kind' = kind /\ users'[k] = users[k] /\ bound'[k] = bound[k]
      /\ ident'[k] = ident[k] /\ journal'[k] = journal[k] /\ doc'[k] = doc[k]
      /\ issued'[k] = issued[k] /\ undoing'[k] = undoing[k] /\ torn'[k] = torn[k]
  BY DEF TypeOK, SaveIssued, Set, Goto, service, history
<1>2. /\ pc[k] = "create" /\ kind[k] \in Keycloak /\ pc'[k] = "read" /\ save'[k] = "PREPARED"
      /\ material'[k] = [old |-> bound[k], user |-> bound[k], new |-> issued[k]] /\ fresh'[k] = TRUE
  BY DEF TypeOK, SaveIssued, Set, Goto, service, history
<1>a. /\ material'[k] \in Material /\ material'[k].old = bound[k] /\ material'[k].user = bound[k]
      /\ material'[k].new = issued[k] /\ material'[k] # None
  <2>1. material'[k].new # None.new
    BY <1>2, KeyTypes DEF NumberAt, None, Creds
  <2>. QED  BY <1>2, <2>1, KeyTypes DEF Material
<1>3. TypeOK'
  <2>1. UNCHANGED <<kind, users, bound, ident, journal, doc, issued, undoing, torn, calm>>
    BY DEF SaveIssued, Set, Goto, service, history
  <2>2. pc' \in [Keys -> Steps]
    BY <1>a, KeyTypes DEF TypeOK, SaveIssued, Set, Goto, Steps
  <2>3. material' \in [Keys -> Material]
    BY <1>a DEF TypeOK, SaveIssued, Set, Goto
  <2>4. fresh' \in [Keys -> BOOLEAN]
    BY <1>a DEF TypeOK, SaveIssued, Set, Goto
  <2>5. save' \in [Keys -> Phases]
    BY <1>a, KeyTypes DEF TypeOK, SaveIssued, Set, Goto, Phases
  <2>6. outcome' \in [Keys -> {"none", "ok", "error"}]
    BY <1>a DEF TypeOK, SaveIssued, Set, Goto
  <2>. QED  BY <2>1, <2>2, <2>3, <2>4, <2>5, <2>6 DEF TypeOK
<1>4. NumberAt(k)'
  BY <1>1, <1>2, KeyTypes, LimitAssumption DEF NumberAt, Creds
<1>b. OneFileAt(k)'
  BY <1>1, <1>2, <1>a DEF OneFileAt, Unbinding, Own, Keycloak
<1>5. ASSUME Rotates(k) PROVE ControlAt(k)' /\ MaterialAt(k)'
  BY <1>1, <1>2, <1>a, <1>5
  DEF Rotates, ControlAt, MaterialAt, Saving, Unbinding, Following, Reset, S3, Managed,
      Keycloak, Own
<1>6. ASSUME Rotates(k), (k \in Sound)' PROVE PathAt(k)'
  <2>1. k \in Sound
    BY <1>1, <1>6 DEF Sound
  <2>2. /\ ControlAt(k) /\ MaterialAt(k) /\ RestAt(k) /\ OldAt(k) /\ NewAt(k) /\ UndoAt(k)
        /\ OnceAt(k) /\ IssuedAt(k) /\ RolesAt(k)
    BY <1>6, <2>1 DEF Rotates, PathAt
  <2>3. RestAt(k)'
    BY <1>1, <1>2, <1>a, <2>2 DEF RestAt, Old, New
  <2>4. OldAt(k)'
    BY <1>1, <1>2, <1>a, <2>2
    DEF OldAt, RestAt, OnceAt, UndoAt, NewAt, IssuedAt, ControlAt, MaterialAt, Saving,
        Unbinding, Verified, Gone, Old, New, S3, Managed, Keycloak, Own, Reset
  <2>5. NewAt(k)'
    BY <1>1, <1>2, <1>a, <2>2
    DEF NewAt, ControlAt, MaterialAt, Saving, Unbinding, Verified, Gone, Old, New
  <2>6. UndoAt(k)'
    BY <1>1, <1>2, <1>a, <2>2
    DEF UndoAt, ControlAt, MaterialAt, Saving, Unbinding, Old, New, S3, Managed, Keycloak, Own,
        Reset
  <2>7. OnceAt(k)'
    BY <1>1, <1>2, <1>a, <2>2 DEF OnceAt, Old, New
  <2>8. IssuedAt(k)'
    BY <1>1, <1>2, <1>a, <2>2 DEF IssuedAt, Old, New
  <2>9. RolesAt(k)'
    BY <1>1, <1>2, <1>a, <2>2
    DEF RolesAt, ControlAt, MaterialAt, Saving, Unbinding, Old, New, S3, Managed, Keycloak, Own,
        Reset
  <2>. QED  BY <2>3, <2>4, <2>5, <2>6, <2>7, <2>8, <2>9 DEF PathAt
<1>. QED  BY <1>3, <1>4, <1>b, <1>5, <1>6 DEF Rotates

(* A rollback resets the entry once the old credential is bound; alone in  *)
(* its file, it changes no other entry.                                    *)
LEMMA UnwriteKeeps ==
  ASSUME TypeOK, NEW k \in Keys, NumberAt(k), OneFileAt(k), Unwrite(k)
  PROVE  TypeOK' /\ NumberAt(k)' /\ OneFileAt(k)' /\ (Rotates(k) => Rotates(k)')
<1>1. /\ kind' = kind /\ users'[k] = users[k] /\ bound'[k] = bound[k]
      /\ ident'[k] = ident[k] /\ material'[k] = material[k] /\ save'[k] = save[k]
      /\ issued'[k] = issued[k] /\ fresh'[k] = fresh[k] /\ torn'[k] = torn[k]
  BY DEF TypeOK, Unwrite, Set, Goto, service, Stored, Peers
<1>2. /\ pc[k] = "unwrite" /\ pc'[k] = "drop" /\ undoing'[k] = FALSE
      /\ journal'[k] = doc[k][k]
  BY DEF TypeOK, Unwrite, Set, Goto, service, Stored, Peers
<1>3. TypeOK'
  <2>1. UNCHANGED <<kind, users, bound, ident, material, save, issued, fresh, torn, calm>>
    BY DEF Unwrite, Set, Goto, service, Stored, Peers
  <2>2. pc' \in [Keys -> Steps]
    BY KeyTypes DEF TypeOK, Unwrite, Set, Goto, Stored, Peers, Steps
  <2>3. journal' \in [Keys -> Phases]
    BY ZenonT(60), KeyTypes DEF TypeOK, Unwrite, Set, Goto, Stored, Peers, Phases
  <2>4. doc' \in [Keys -> [Keys -> Phases]]
    <3>1. [j \in Keys |-> ""] \in [Keys -> Phases]
      BY DEF Phases
    <3>. QED  BY <3>1 DEF TypeOK, Unwrite, Set
  <2>5. undoing' \in [Keys -> BOOLEAN]
    BY KeyTypes DEF TypeOK, Unwrite, Set, Goto, Stored, Peers
  <2>6. outcome' \in [Keys -> {"none", "ok", "error"}]
    BY KeyTypes DEF TypeOK, Unwrite, Set, Goto, Stored, Peers
  <2>. QED  BY <2>1, <2>2, <2>3, <2>4, <2>5, <2>6 DEF TypeOK
<1>4. NumberAt(k)'
  BY <1>1, <1>2 DEF NumberAt
<1>b. OneFileAt(k)'
  BY <1>1, <1>2 DEF OneFileAt, Unbinding
<1>5. ASSUME Rotates(k) PROVE ControlAt(k)' /\ MaterialAt(k)'
  BY <1>1, <1>2, <1>5 DEF Rotates, ControlAt, MaterialAt, Saving, Unbinding, Following, Reset
<1>6. ASSUME Rotates(k), (k \in Sound)' PROVE PathAt(k)'
  <2>1. k \in Sound
    BY <1>1, <1>6 DEF Sound
  <2>2. /\ ControlAt(k) /\ MaterialAt(k) /\ RestAt(k) /\ OldAt(k) /\ NewAt(k) /\ UndoAt(k)
        /\ OnceAt(k) /\ IssuedAt(k) /\ RolesAt(k)
    BY <1>6, <2>1 DEF Rotates, PathAt
  <2>3. RestAt(k)'
    BY <1>1, <1>2, <2>2
    DEF RestAt, ControlAt, MaterialAt, Saving, Unbinding, Old, New, S3, Managed, Keycloak, Own,
        Reset
  <2>4. OldAt(k)'
    <3>1. journal'[k] = Reset(k) /\ ~Saving(k)' /\ material[k] # None /\ kind[k] \notin {"core", "signing"}
      BY <1>1, <1>2, <2>2 DEF ControlAt, MaterialAt, Saving, Unbinding
    <3>2. fresh[k] => bound[k] \in users[k]
      BY <1>2, <2>2, <3>1 DEF OldAt, UndoAt, Unbinding
    <3>3. kind[k] \in Keycloak => New(k) \in users[k]
      BY <1>2, <2>2 DEF ControlAt, UndoAt, Unbinding
    <3>. QED  BY <1>1, <1>2, <2>1, <2>2, <3>1, <3>2, <3>3
              DEF OldAt, Reset, Old, New, Sound, Keycloak
  <2>5. NewAt(k)'
    BY <1>1, <1>2, <2>2
    DEF NewAt, ControlAt, MaterialAt, Saving, Unbinding, Verified, Gone, Old, New, S3, Managed,
        Keycloak, Own, Reset
  <2>6. UndoAt(k)'
    BY <1>1, <1>2, <2>2 DEF UndoAt, ControlAt, MaterialAt, Saving, Unbinding, Old, New
  <2>7. OnceAt(k)'
    BY <1>1, <1>2, <2>2 DEF OnceAt, ControlAt, MaterialAt, Saving, Unbinding, Old, New
  <2>8. IssuedAt(k)'
    BY <1>1, <1>2, <2>2
    DEF IssuedAt, ControlAt, MaterialAt, Saving, Unbinding, Old, New, S3, Managed, Keycloak,
        Own, Reset
  <2>9. RolesAt(k)'
    BY <1>1, <1>2, <2>2 DEF RolesAt, Old, New
  <2>. QED  BY <2>3, <2>4, <2>5, <2>6, <2>7, <2>8, <2>9 DEF PathAt
<1>. QED  BY <1>3, <1>4, <1>b, <1>5, <1>6 DEF Rotates

(* The entry that is written follows the one it replaces; alone in its     *)
(* file, the rotation changes no other entry.                              *)
LEMMA WriteKeeps ==
  ASSUME TypeOK, NEW k \in Keys, NumberAt(k), OneFileAt(k), Write(k)
  PROVE  TypeOK' /\ NumberAt(k)' /\ OneFileAt(k)' /\ (Rotates(k) => Rotates(k)')
<1>1. /\ kind' = kind /\ users'[k] = users[k] /\ bound'[k] = bound[k]
      /\ ident'[k] = ident[k] /\ material'[k] = material[k] /\ issued'[k] = issued[k]
      /\ fresh'[k] = fresh[k] /\ undoing'[k] = undoing[k] /\ torn'[k] = torn[k]
  BY DEF TypeOK, Write, Set, Goto, service, Stored, Peers, StepAfter, Phases, history
<1>2. /\ pc[k] = "write" /\ save'[k] = "" /\ journal'[k] = doc[k][k]
      /\ \/ save[k] = "" /\ pc'[k] = "discard"
         \/ save[k] = "PREPARED" /\ pc'[k] = IF kind[k] = "core" THEN "create" ELSE "reconcile"
         \/ save[k] = "RECONCILED" /\ pc'[k] = "verify"
         \/ save[k] = "VERIFIED" /\ pc'[k] = "retire"
         \/ save[k] = "RETIRED" /\ pc'[k] = IF kind[k] = "core" THEN "discard" ELSE "read"
  BY DEF TypeOK, Write, Set, Goto, service, Stored, Peers, StepAfter, Phases, history
<1>3. TypeOK'
  <2>1. UNCHANGED <<kind, users, bound, ident, material, issued, fresh, undoing, torn, calm>>
    BY DEF Write, Set, Goto, service, Stored, Peers, StepAfter, Phases, history
  <2>2. pc' \in [Keys -> Steps]
    BY KeyTypes DEF TypeOK, Write, Set, Goto, Stored, Peers, StepAfter, Phases, Steps
  <2>3. journal' \in [Keys -> Phases]
    BY ZenonT(60), KeyTypes DEF TypeOK, Write, Set, Goto, Stored, Peers, StepAfter, Phases
  <2>4. doc' \in [Keys -> [Keys -> Phases]]
    <3>1. [j \in Keys |-> ""] \in [Keys -> Phases]
      BY DEF Phases
    <3>. QED  BY <3>1 DEF TypeOK, Write, Set
  <2>5. save' \in [Keys -> Phases]
    BY KeyTypes DEF TypeOK, Write, Set, Goto, Stored, Peers, StepAfter, Phases
  <2>6. outcome' \in [Keys -> {"none", "ok", "error"}]
    BY KeyTypes DEF TypeOK, Write, Set, Goto, Stored, Peers, StepAfter, Phases
  <2>. QED  BY <2>1, <2>2, <2>3, <2>4, <2>5, <2>6 DEF TypeOK
<1>4. NumberAt(k)'
  BY ZenonT(60), <1>1, <1>2, KeyTypes, ReplacementIsNew, LimitAssumption
  DEF NumberAt, Creds, Material, None, Keycloak
<1>b. OneFileAt(k)'
  BY <1>1, <1>2 DEF OneFileAt, Unbinding
<1>5. ASSUME Rotates(k) PROVE ControlAt(k)' /\ MaterialAt(k)'
  BY <1>1, <1>2, <1>5 DEF Rotates, ControlAt, MaterialAt, Saving, Unbinding, Following, Reset
<1>6. ASSUME Rotates(k), (k \in Sound)' PROVE PathAt(k)'
  <2>1. k \in Sound
    BY <1>1, <1>6 DEF Sound
  <2>2. /\ ControlAt(k) /\ MaterialAt(k) /\ RestAt(k) /\ OldAt(k) /\ NewAt(k) /\ UndoAt(k)
        /\ OnceAt(k) /\ IssuedAt(k) /\ RolesAt(k)
    BY <1>6, <2>1 DEF Rotates, PathAt
  <2>a. /\ pc[k] = "write" /\ Saving(k) /\ save'[k] = "" /\ material[k] # None
        /\ \/ journal[k] = "RETIRED" /\ save[k] = "" /\ journal'[k] = "" /\ pc'[k] = "discard"
           \/ journal[k] = "" /\ save[k] = "PREPARED" /\ journal'[k] = "PREPARED" /\ pc'[k] = "reconcile"
           \/ journal[k] = "PREPARED" /\ save[k] = "RECONCILED" /\ journal'[k] = "RECONCILED" /\ pc'[k] = "verify"
           \/ journal[k] = "RECONCILED" /\ save[k] = "VERIFIED" /\ journal'[k] = "VERIFIED" /\ pc'[k] = "retire"
           \/ /\ journal[k] = "VERIFIED" /\ save[k] = "RETIRED" /\ journal'[k] = "RETIRED"
              /\ pc'[k] \in {"discard", "read"}
    BY <1>2, <2>2, KeyTypes DEF ControlAt, MaterialAt, Saving, Following, Phases
  <2>3. RestAt(k)'
    BY <1>1, <2>a, <2>2
    DEF RestAt, NewAt, Saving, Verified, Gone, Unbinding, Old, New, S3, Managed, Own, Keycloak
  <2>4. OldAt(k)'
    BY <1>1, <2>a, <2>2
    DEF OldAt, NewAt, Saving, Verified, Gone, Unbinding, Old, New, S3, Managed, Own, Keycloak
  <2>5. NewAt(k)'
    BY <1>1, <2>a, <2>2
    DEF NewAt, Saving, Verified, Gone, Unbinding, Old, New, S3, Managed, Own, Keycloak
  <2>6. UndoAt(k)'
    BY <1>1, <2>a, <2>2 DEF UndoAt, OldAt, Unbinding, Old, New, Saving
  <2>7. OnceAt(k)'
    BY <1>1, <2>a, <2>2
    DEF OnceAt, NewAt, Saving, Verified, Gone, Unbinding, Old, New, S3, Managed, Own, Keycloak
  <2>8. IssuedAt(k)'
    BY <1>1, <2>a, <2>2
    DEF IssuedAt, NewAt, OldAt, Saving, Verified, Gone, Unbinding, Old, New, S3, Managed, Own,
       Keycloak
  <2>9. RolesAt(k)'
    BY <1>1, <1>2, <2>2 DEF RolesAt, Old, New
  <2>. QED  BY <2>3, <2>4, <2>5, <2>6, <2>7, <2>8, <2>9 DEF PathAt
<1>. QED  BY <1>3, <1>4, <1>b, <1>5, <1>6 DEF Rotates

(* The overlap of a client's secrets ends: the newest one stays accepted.  *)
LEMMA LapseKeeps ==
  ASSUME TypeOK, NEW k \in Keys, NumberAt(k), OneFileAt(k), Lapse(k)
  PROVE  TypeOK' /\ NumberAt(k)' /\ OneFileAt(k)' /\ (Rotates(k) => Rotates(k)')
<1>1. /\ kind' = kind /\ bound'[k] = bound[k] /\ ident'[k] = ident[k]
      /\ material'[k] = material[k] /\ journal'[k] = journal[k] /\ pc'[k] = pc[k]
      /\ save'[k] = save[k] /\ doc'[k] = doc[k] /\ issued'[k] = issued[k]
      /\ fresh'[k] = fresh[k] /\ undoing'[k] = undoing[k]
  BY DEF TypeOK, Lapse, Set, files, command
<1>2. /\ kind[k] = "client" /\ users'[k] = {Newest(k)} /\ torn'[k] = TRUE
  BY DEF TypeOK, Lapse, Set, files, command
<1>a. Newest(k) \in users[k] /\ Newest(k) \in Creds
  BY <1>2, NewestIsOne
<1>3. TypeOK'
  <2>1. UNCHANGED <<kind, bound, ident, material, journal, pc, save, doc, issued, fresh, undoing,
                    calm>>
    BY DEF Lapse, Set, files, command
  <2>2. users' \in [Keys -> SUBSET Creds]
    BY <1>a DEF TypeOK, Lapse, Set
  <2>3. torn' \in [Keys -> BOOLEAN]
    BY KeyTypes DEF TypeOK, Lapse, Set
  <2>4. outcome' \in [Keys -> {"none", "ok", "error"}]
    BY KeyTypes DEF TypeOK, Lapse, Set
  <2>. QED  BY <2>1, <2>2, <2>3, <2>4 DEF TypeOK
<1>4. NumberAt(k)'
  <2>1. \E c, d \in Creds : users'[k] = {c, d}
    BY <1>2, <1>a
  <2>. QED  BY <1>1, <1>2, <1>a, <2>1 DEF NumberAt
<1>b. OneFileAt(k)'
  BY <1>1, <1>2 DEF OneFileAt, Unbinding
<1>5. ASSUME Rotates(k) PROVE ControlAt(k)' /\ MaterialAt(k)'
  BY <1>1, <1>2, <1>5 DEF Rotates, ControlAt, MaterialAt, Saving, Unbinding, Following, Reset
<1>6. k \notin Sound'
  BY <1>1, <1>2 DEF Sound
<1>. QED  BY <1>3, <1>4, <1>b, <1>5, <1>6 DEF Rotates

-----------------------------------------------------------------------------
(* All keys *)

Same(j) ==
  /\ kind' = kind /\ users'[j] = users[j] /\ bound'[j] = bound[j] /\ ident'[j] = ident[j]
  /\ material'[j] = material[j] /\ pc'[j] = pc[j] /\ save'[j] = save[j] /\ doc'[j] = doc[j]
  /\ issued'[j] = issued[j] /\ fresh'[j] = fresh[j] /\ undoing'[j] = undoing[j]
  /\ torn'[j] = torn[j]

(* A command changes nothing of another key but the journal entries of its *)
(* own file.                                                               *)
LEMMA OthersSame ==
  ASSUME TypeOK, NEW k \in Keys, NEW j \in Keys, j # k, Step(k) \/ Stop(k) \/ Lapse(k)
  PROVE  Same(j) /\ (j \notin Peers(k) => journal'[j] = journal[j])
<1>. USE DEF Same
<1>1. CASE Start(k)
  BY <1>1 DEF TypeOK, Start, Set, service, files, history
<1>2. CASE Prepare(k)
  BY <1>2 DEF TypeOK, Prepare, Set, Goto, service, command
<1>3. CASE Create(k)
  BY <1>3 DEF TypeOK, Create, Set, Goto, End, files, history
<1>4. CASE Reconcile(k)
  BY <1>4 DEF TypeOK, Reconcile, Set, Goto, End, Undo, files
<1>5. CASE Verify(k)
  BY <1>5 DEF TypeOK, Verify, Set, Goto, End, Undo, service, files
<1>6. CASE Retire(k)
  BY <1>6 DEF TypeOK, Retire, Set, Goto, End, files, command
<1>7. CASE Commit(k)
  BY <1>7 DEF TypeOK, Commit, Set, Goto, service, history
<1>8. CASE Read(k)
  BY <1>8 DEF TypeOK, Read, Set, Goto, service, files, history
<1>9. CASE Write(k)
  BY <1>9 DEF TypeOK, Write, Set, Goto, service, history, Stored
<1>10. CASE Discard(k)
  BY <1>10 DEF TypeOK, Discard, Set, End, service, command, history
<1>11. CASE Unbind(k)
  BY <1>11 DEF TypeOK, Unbind, Set, Goto, End, DeleteNew, service, files, command, history
<1>12. CASE Delete(k)
  BY <1>12 DEF TypeOK, Delete, Set, Goto, DeleteNew, files, command, history
<1>13. CASE Unwrite(k)
  BY <1>13 DEF TypeOK, Unwrite, Set, Goto, service, Stored
<1>14. CASE Drop(k)
  BY <1>14 DEF TypeOK, Drop, Set, End, service, command, history
<1>15. CASE Issue(k)
  BY <1>15 DEF TypeOK, Issue, Set, Goto, End, files, command, history
<1>16. CASE SaveIssued(k)
  BY <1>16 DEF TypeOK, SaveIssued, Set, Goto, service, history
<1>17. CASE Rebind(k)
  BY <1>17 DEF TypeOK, Rebind, Set, Goto, files, command, history
<1>18. CASE CorePrepare(k)
  BY <1>18 DEF TypeOK, CorePrepare, Set, Goto, service, command
<1>19. CASE ProjectFails(k)
  BY <1>19 DEF TypeOK, ProjectFails, Set, End, files, command, history
<1>20. CASE Stop(k)
  BY <1>20 DEF TypeOK, Stop, Set, End, service, files
<1>21. CASE Lapse(k)
  BY <1>21 DEF TypeOK, Lapse, Set, files, command
<1>. QED  BY <1>1, <1>2, <1>3, <1>4, <1>5, <1>6, <1>7, <1>8, <1>9, <1>10, <1>11, <1>12, <1>13,
             <1>14, <1>15, <1>16, <1>17, <1>18, <1>19, <1>20, <1>21 DEF Step

(* The Core's entry is in a file of its own.                               *)
LEMMA CoreAlone ==
  ASSUME NEW k \in Keys, NEW j \in Keys, j # k, kind[j] = "core"
  PROVE  j \notin Peers(k)
BY DEF Peers, File, Own, Managed

(* One command keeps the types and the numbers of every key.               *)
LEMMA StepTypeInv ==
  ASSUME TypeInv, NEW k \in Keys, Step(k) \/ Stop(k) \/ Lapse(k)
  PROVE  TypeInv' /\ (Rotates(k) => Rotates(k)')
<1>1. TypeOK /\ NumberAt(k) /\ OneFileAt(k)
  BY DEF TypeInv
<1>2. TypeOK' /\ NumberAt(k)' /\ OneFileAt(k)' /\ (Rotates(k) => Rotates(k)')
  BY <1>1, StartKeeps, PrepareKeeps, CreateKeeps, ReconcileKeeps, VerifyKeeps, RetireKeeps,
     CommitKeeps, ReadKeeps, WriteKeeps, DiscardKeeps, UnbindKeeps, DeleteKeeps, UnwriteKeeps,
     DropKeeps, IssueKeeps, SaveIssuedKeeps, RebindKeeps, CorePrepareKeeps, ProjectFailsKeeps,
     StopKeeps, LapseKeeps DEF Step
<1>3. ASSUME NEW j \in Keys, j # k PROVE NumberAt(j)' /\ OneFileAt(j)'
  <2>1. Same(j) /\ NumberAt(j) /\ OneFileAt(j)
    BY <1>1, <1>3, OthersSame DEF TypeInv
  <2>2. kind[j] = "core" => journal'[j] = journal[j]
    BY <1>1, <1>3, OthersSame, CoreAlone
  <2>3. NumberAt(j)'
    BY <2>1 DEF Same, NumberAt
  <2>4. OneFileAt(j)'
    BY <2>1, <2>2 DEF Same, OneFileAt
  <2>. QED  BY <2>3, <2>4
<1>. QED  BY <1>2, <1>3 DEF TypeInv

(* The end of the faults changes no key.                                   *)
LEMMA SettleSame ==
  ASSUME TypeInv, Settle
  PROVE  TypeInv' /\ \A k \in Keys : Same(k) /\ journal'[k] = journal[k]
<1>1. UNCHANGED <<kind, users, bound, ident, material, journal, pc, save, doc, issued, outcome,
                  fresh, undoing, torn>>
      /\ calm' = TRUE
  BY DEF Settle, service, files, command, history
<1>2. TypeOK'
  BY <1>1 DEF TypeInv, TypeOK
<1>3. \A k \in Keys : NumberAt(k)' /\ OneFileAt(k)'
  BY <1>1 DEF TypeInv, NumberAt, OneFileAt
<1>. QED  BY <1>1, <1>2, <1>3 DEF TypeInv, Same

(* A key nothing happens to goes on rotating.                              *)
LEMMA SameRotates ==
  ASSUME NEW k \in Keys, Same(k), journal'[k] = journal[k], Rotates(k)
  PROVE  Rotates(k)'
<1>1. ControlAt(k)' /\ MaterialAt(k)'
  BY ZenonT(60) DEF Same, Rotates, ControlAt, MaterialAt, Saving, Reset
<1>2. ASSUME (k \in Sound)' PROVE PathAt(k)'
  <2>1. PathAt(k)
    BY <1>2 DEF Same, Rotates, Sound
  <2>2. RestAt(k)' /\ OldAt(k)' /\ UndoAt(k)'
    BY ZenonT(60), <2>1 DEF Same, PathAt, RestAt, OldAt, UndoAt, Saving, Old, New
  <2>3. NewAt(k)'
    BY <2>1 DEF Same, PathAt, NewAt, Saving, Verified, Gone, Old, New
  <2>4. OnceAt(k)' /\ IssuedAt(k)' /\ RolesAt(k)'
    BY <2>1 DEF Same, PathAt, OnceAt, IssuedAt, RolesAt, Saving, Old, New
  <2>. QED  BY <2>2, <2>3, <2>4 DEF PathAt
<1>. QED  BY <1>1, <1>2 DEF Rotates

(* The commands start without material, on the first credentials.          *)
LEMMA InitTypeInv == Init => TypeInv
<1>. SUFFICES ASSUME Init PROVE TypeInv
  OBVIOUS
<1>1. 0 \in Creds /\ None \in Material
  BY LimitAssumption DEF Creds, None, Material
<1>2. TypeOK
  BY <1>1 DEF Init, TypeOK, Phases, Steps
<1>3. ASSUME NEW k \in Keys PROVE NumberAt(k) /\ OneFileAt(k)
  <2>1. users[k] = {0} /\ {0} = {0, 0}
    BY DEF Init
  <2>2. kind[k] = "client" => \E c, d \in Creds : users[k] = {c, d}
    BY <1>1, <2>1
  <2>3. bound[k] = 0 /\ ident[k] = 0 /\ issued[k] = 0 /\ material[k] = None /\ pc[k] = "idle"
    BY <1>3 DEF Init
  <2>. QED  BY <2>1, <2>2, <2>3 DEF NumberAt, OneFileAt, Unbinding
<1>. QED  BY <1>2, <1>3 DEF TypeInv

(* No step leaves the types, whatever files the keys share.                *)
LEMMA NextTypeInv == TypeInv /\ [Next]_vars => TypeInv'
<1>. SUFFICES ASSUME TypeInv, [Next]_vars PROVE TypeInv'
  OBVIOUS
<1>1. CASE Settle
  BY <1>1, SettleSame
<1>2. ASSUME NEW k \in Keys, Step(k) \/ Stop(k) \/ Lapse(k) PROVE TypeInv'
  BY <1>2, StepTypeInv
<1>3. CASE UNCHANGED vars
  BY <1>3 DEF vars, TypeInv, TypeOK, NumberAt, OneFileAt
<1>. QED  BY <1>1, <1>2, <1>3 DEF Next

(* Before the first rotation there is no material and no entry, and the    *)
(* first credential is bound and accepted.                                 *)
LEMMA InitIInv == Init /\ Alone => IInv
<1>. SUFFICES ASSUME Init, Alone PROVE IInv
  OBVIOUS
<1>1. TypeInv
  BY InitTypeInv
<1>2. ASSUME NEW k \in Keys PROVE Rotates(k)
  <2>1. /\ users[k] = {0} /\ bound[k] = 0 /\ ident[k] = 0 /\ material[k] = None /\ journal[k] = ""
        /\ pc[k] = "idle" /\ save[k] = "" /\ ~fresh[k] /\ ~undoing[k] /\ ~torn[k]
        /\ material[k].user = material[k].old
    BY <1>2 DEF Init, None
  <2>. QED  BY <2>1
            DEF Rotates, ControlAt, MaterialAt, PathAt, RestAt, OldAt, NewAt, UndoAt, OnceAt,
            IssuedAt, RolesAt, Saving, Unbinding, Verified, Gone, Old, New
<1>. QED  BY <1>1, <1>2 DEF IInv, Rotates

(* A step of one key keeps that key's invariant, and leaves alone what the *)
(* others' is about.                                                       *)
LEMMA NextIInv == IInv /\ [Next]_vars => IInv'
<1>. SUFFICES ASSUME IInv, [Next]_vars PROVE IInv'
  OBVIOUS
<1>1. TypeInv /\ TypeInv' /\ Alone /\ \A k \in Keys : Rotates(k)
  BY NextTypeInv DEF IInv, Rotates
<1>2. CASE Settle
  <2>1. kind' = kind
    BY <1>2 DEF Settle
  <2>2. Alone'
    BY <1>1, <2>1 DEF Alone, Peers, File
  <2>3. \A k \in Keys : Rotates(k)'
    BY <1>1, <1>2, SettleSame, SameRotates
  <2>. QED  BY <1>1, <2>2, <2>3 DEF IInv, Rotates
<1>3. ASSUME NEW k \in Keys, Step(k) \/ Stop(k) \/ Lapse(k) PROVE IInv'
  <2>1. Rotates(k)'
    BY <1>1, <1>3, StepTypeInv
  <2>2. ASSUME NEW j \in Keys, j # k PROVE Rotates(j)' /\ kind' = kind
    <3>1. TypeOK /\ j \notin Peers(k)
      BY <1>1, <2>2 DEF TypeInv, Alone
    <3>2. Same(j) /\ journal'[j] = journal[j]
      BY <1>3, <2>2, <3>1, OthersSame
    <3>. QED  BY <1>1, <2>2, <3>2, SameRotates DEF Same
  <2>3. Alone'
    <3>1. ASSUME NEW j \in Keys, NEW i \in Keys, i # j PROVE kind' = kind
      <4>1. i # k \/ j # k
        BY <3>1
      <4>. QED  BY <2>2, <4>1
    <3>2. CASE kind' = kind
      BY <1>1, <3>2 DEF Alone, Peers, File
    <3>3. CASE \A i, j \in Keys : i = j
      BY <3>3 DEF Alone, Peers
    <3>. QED  BY <3>1, <3>2, <3>3
  <2>. QED  BY <1>1, <2>1, <2>2, <2>3 DEF IInv, Rotates
<1>4. CASE UNCHANGED vars
  <2>1. UNCHANGED <<kind, users, bound, ident, material, journal, pc, save, doc, issued, fresh,
                    undoing, torn>>
    BY <1>4 DEF vars
  <2>2. Alone'
    BY <1>1, <2>1 DEF Alone, Peers, File
  <2>3. \A k \in Keys : Rotates(k)'
    BY <1>1, <2>1, SameRotates DEF Same
  <2>. QED  BY <1>1, <2>2, <2>3 DEF IInv, Rotates
<1>. QED  BY <1>2, <1>3, <1>4 DEF Next

-----------------------------------------------------------------------------
(* What is proved *)

(* Whatever keys are rotated and whatever they share: the state of         *)
(* Rotation.Run and of the other loops keeps its type.                     *)
THEOREM TypeCorrect == Spec => []TypeOK
<1>1. TypeInv => TypeOK
  BY DEF TypeInv
<1>. QED  BY InitTypeInv, NextTypeInv, <1>1, PTL DEF Spec

(* The invariant of every step of a rotation, for any number of keys.      *)
THEOREM Invariance == Spec /\ Alone => []IInv
BY InitIInv, NextIInv, PTL DEF Spec

(* Through failures, rollbacks and restarts of any number of rotations,    *)
(* none of which shares its journal with another: the credential that is   *)
(* replaced stays accepted until the replacement is verified, the consumer *)
(* is bound to an accepted one, a bucket's identity file names the user to *)
(* retire next, and the Core has no role that is not on file.              *)
THEOREM Kept == Spec /\ Alone => []PathKept
<1>1. ASSUME IInv PROVE PathKept
  <2>1. \A k \in Sound : k \in Keys /\ RestAt(k) /\ OldAt(k) /\ RolesAt(k)
    BY <1>1 DEF IInv, PathAt, Sound
  <2>2. OldPathKept
    BY <2>1 DEF OldPathKept, OldAt, Old
  <2>3. Overlap
    BY <2>1 DEF Overlap, OldAt
  <2>4. IdentityFollows
    BY <2>1 DEF IdentityFollows, RestAt
  <2>5. NoUnknownRole
    BY <2>1 DEF NoUnknownRole, RolesAt, Sound, Old, New
  <2>. QED  BY <2>2, <2>3, <2>4, <2>5 DEF PathKept
<1>. QED  BY Invariance, <1>1, PTL

(* A journal that says VERIFIED or RETIRED is right whenever it is read:   *)
(* the consumer is bound to the replacement, which is accepted, and after  *)
(* RETIRED the old credential is not.                                      *)
THEOREM Live == Spec /\ Alone => []VerifiedIsLive
<1>1. ASSUME IInv PROVE VerifiedIsLive
  <2>1. \A k \in Sound : k \in Keys /\ MaterialAt(k) /\ NewAt(k)
    BY <1>1 DEF IInv, PathAt, Sound
  <2>. QED  BY <2>1 DEF VerifiedIsLive, MaterialAt, NewAt, Verified, Gone, Old, New
<1>. QED  BY Invariance, <1>1, PTL
=============================================================================
