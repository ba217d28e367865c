-------------------------- MODULE CredentialRotation --------------------------
(***************************************************************************)
(* The rotation of a managed credential: Rotation.Run                      *)
(* (internal/credential) with its journal and prepared material and the    *)
(* adapters it drives: an application's S3 bucket identity and the bucket  *)
(* identities of Loki and Tempo (internal/objectstorage), the RabbitMQ     *)
(* user, the MongoDB users and the Valkey password of an application       *)
(* (internal/application); and the rotations that have a loop of their     *)
(* own: Keycloak's administrator, the client secret and the signing key of *)
(* a realm (internal/identityprovider), and the database roles of the Core *)
(* (cmd/baha).  New material is made usable, the consumer is bound to it,  *)
(* it is verified, and only then the old one is retired.  The journal lets *)
(* a later command continue; any step may fail, and the process may die    *)
(* between two steps.                                                      *)
(*                                                                         *)
(* Abstractions: a credential is a number, 0 the first; the several users  *)
(* of one rotation (application and administration, the roles of the Core) *)
(* are one credential, and so are the copies of it on the members of a     *)
(* cluster.  The consumer has one binding (the file it is configured from  *)
(* and the containers that read it); of a signing key it is the key that   *)
(* signs, and the accepted ones are those published.  A file is replaced   *)
(* by rename.  A realm begins with BaseHarbor's own signing key.           *)
(***************************************************************************)
EXTENDS Naturals, FiniteSetsExt

CONSTANTS
  Keys,     \* credentials under rotation
  MaxCred   \* bound: replacements issued per key

ASSUME LimitAssumption == MaxCred \in Nat

Creds == 0..MaxCred
S3 == {"bucket", "platform"}
Managed == {"rabbitmq", "mongodb", "valkey"}
Keycloak == {"admin", "client", "signing"}
Own == Keycloak \cup {"core"}   \* rotations with a loop of their own
Kinds == S3 \cup Managed \cup Own
Phases == {"", "PREPARED", "RECONCILED", "VERIFIED", "RETIRED"}
None == [old |-> 0, user |-> 0, new |-> 0]   \* no material: new is never 0
Material == [old : Creds, user : Creds, new : Creds]

Steps == {"idle", "prepare", "create", "reconcile", "verify", "retire", "commit",
          "read", "write", "discard",                    \* journal, material
          "unbind", "delete", "unread", "unwrite", "drop"} \* rollbackAndReset

VARIABLES
  kind,
  users,     \* credentials the service accepts
  bound,     \* the one the consumer is bound to
  ident,     \* the identity file of a bucket: the user to retire next
  material,  \* prepared material (a bucket: the rotation state file)
  journal,   \* rotation journal
  pc,
  save,      \* phase a journal write is about to store
  doc,       \* the document it read
  issued,    \* replacements made so far
  outcome,
  calm,      \* calls no longer fail
  fresh,     \* history: no verified retirement of the material's old credential
  undoing,   \* history: a rollback has begun and is not complete
  torn       \* history: a rollback was interrupted, or an overlap has lapsed

vars == <<kind, users, bound, ident, material, journal, pc, save, doc, issued, outcome,
          calm, fresh, undoing, torn>>
service == <<users, bound>>
files == <<ident, material, journal>>
command == <<save, doc>>
history == <<fresh, undoing, torn>>

TypeOK ==
  /\ kind \in [Keys -> Kinds]
  /\ users \in [Keys -> SUBSET Creds]
  /\ bound \in [Keys -> Creds]
  /\ ident \in [Keys -> Creds]
  /\ material \in [Keys -> Material]
  /\ journal \in [Keys -> Phases]
  /\ pc \in [Keys -> Steps]
  /\ save \in [Keys -> Phases]
  /\ doc \in [Keys -> [Keys -> Phases]]
  /\ issued \in [Keys -> Creds]
  /\ outcome \in [Keys -> {"none", "ok", "error"}]
  /\ calm \in BOOLEAN
  /\ fresh \in [Keys -> BOOLEAN]
  /\ undoing \in [Keys -> BOOLEAN]
  /\ torn \in [Keys -> BOOLEAN]

Init ==
  /\ kind \in [Keys -> Kinds]
  /\ users = [k \in Keys |-> {0}]
  /\ bound = [k \in Keys |-> 0]
  /\ ident = [k \in Keys |-> 0]
  /\ material = [k \in Keys |-> None]
  /\ journal = [k \in Keys |-> ""]
  /\ pc = [k \in Keys |-> "idle"]
  /\ save = [k \in Keys |-> ""]
  /\ doc = [k \in Keys |-> [j \in Keys |-> ""]]
  /\ issued = [k \in Keys |-> 0]
  /\ outcome = [k \in Keys |-> "none"]
  /\ calm = FALSE
  /\ fresh = [k \in Keys |-> FALSE]
  /\ undoing = [k \in Keys |-> FALSE]
  /\ torn = [k \in Keys |-> FALSE]

-----------------------------------------------------------------------------
Set(f, k, v) == [f EXCEPT ![k] = v]
Goto(k, step) == pc' = Set(pc, k, step) /\ UNCHANGED outcome
End(k, result) == pc' = Set(pc, k, "idle") /\ outcome' = Set(outcome, k, result)

(* A failure before verification is rolled back. *)
Undo(k) == Goto(k, "unbind") /\ undoing' = Set(undoing, k, TRUE)

(* The step that follows a phase (rotationPhaseAtLeast).  The Core's is    *)
(* PREPARED before its roles exist, RECONCILED stands for its PROJECTED,   *)
(* and its phase and material are one file, removed at once.               *)
StepAfter(k, phase) ==
  CASE phase = "" -> "prepare"
    [] phase = "PREPARED" -> IF kind[k] = "core" THEN "create" ELSE "reconcile"
    [] phase = "RECONCILED" -> "verify"
    [] phase = "VERIFIED" -> "retire"
    [] phase = "RETIRED" -> IF kind[k] = "core" THEN "discard" ELSE "read"

(* Rotation.Run: the journal says where to continue. *)
Start(k) ==
  /\ pc[k] = "idle"
  /\ journal[k] = "" /\ (material[k] = None \/ kind[k] \in Keycloak) => issued[k] < MaxCred
  /\ pc' = Set(pc, k, StepAfter(k, journal[k]))
  /\ outcome' = Set(outcome, k, "none")
  /\ save' = Set(save, k, "")
  /\ UNCHANGED <<kind, service, files, doc, issued, calm, history>>

(* Prepare: material that exists is used again, else a replacement is made *)
(* and saved.  The old credential is the bound one; the old user of a      *)
(* bucket is the one its identity file names, and Loki's and Tempo's file  *)
(* also has the old credential.                                            *)
(* Mutant: the material is made anew. *)
ReuseNone(k) == FALSE
Reuse(k) == material[k] # None

Replacement(k) ==
  [old |-> IF kind[k] = "platform" THEN ident[k] ELSE bound[k],
   user |-> IF kind[k] \in S3 THEN ident[k] ELSE bound[k],
   new |-> issued[k] + 1]

Prepare(k) ==
  /\ pc[k] = "prepare" /\ kind[k] \notin Own
  /\ IF Reuse(k)
     THEN UNCHANGED <<material, issued, fresh>>
     ELSE /\ issued' = Set(issued, k, issued[k] + 1)
          /\ material' = Set(material, k, Replacement(k))
          /\ fresh' = Set(fresh, k, TRUE)
  /\ Goto(k, "create")
  /\ UNCHANGED <<kind, service, ident, journal, command, calm, undoing, torn>>

(* rotateControlPlaneDatabaseCredentials writes the replacement and the    *)
(* phase PREPARED in one file, before the first role is created.           *)
CorePrepare(k) ==
  /\ pc[k] = "prepare" /\ kind[k] = "core"
  /\ issued' = Set(issued, k, issued[k] + 1)
  /\ material' = Set(material, k, Replacement(k))
  /\ journal' = Set(journal, k, "PREPARED")
  /\ fresh' = Set(fresh, k, TRUE)
  /\ Goto(k, "create")
  /\ UNCHANGED <<kind, service, ident, command, calm, undoing, torn>>

(* Keycloak's rotations issue the replacement before they save anything,   *)
(* and never use saved material again.  RotateAdminCredential does it with *)
(* the current administrator; RotateClientSecret refuses when Keycloak's   *)
(* current secret is not the bound one, and Keycloak keeps one             *)
(* predecessor; RotateSigningKey adds a key of lower priority.             *)
Newest(k) == Max(users[k])
MayIssue(k) == IF kind[k] = "client" THEN bound[k] = Newest(k) ELSE bound[k] \in users[k]
Issued(k) == {issued[k] + 1} \cup IF kind[k] = "client" THEN {Newest(k)} ELSE users[k]

Issue(k) ==
  /\ pc[k] = "prepare" /\ kind[k] \in Keycloak
  /\ IF MayIssue(k)
     THEN /\ issued' = Set(issued, k, issued[k] + 1)
          /\ users' = Set(users, k, Issued(k))
          /\ Goto(k, "create")
     ELSE End(k, "error") /\ UNCHANGED <<users, issued>>
  /\ UNCHANGED <<kind, bound, files, command, calm, history>>

SaveIssued(k) ==
  /\ pc[k] = "create" /\ kind[k] \in Keycloak
  /\ material' = Set(material, k, [old |-> bound[k], user |-> bound[k], new |-> issued[k]])
  /\ fresh' = Set(fresh, k, TRUE)
  /\ save' = Set(save, k, "PREPARED")
  /\ Goto(k, "read")
  /\ UNCHANGED <<kind, service, ident, journal, doc, issued, calm, undoing, torn>>

(* s3.configure replaces a user; rabbitmqctl add_user refuses one that     *)
(* exists; mongosh, valkey-cli and psql authenticate with the old          *)
(* credential.  A failure of Prepare is not rolled back.  Mutant: a        *)
(* bucket's user must be new, too.                                         *)
CanCreateNew(k) == material[k].new \notin users[k]
CanCreate(k) ==
  CASE kind[k] \in S3 -> TRUE
    [] kind[k] = "rabbitmq" -> material[k].new \notin users[k]
    [] kind[k] \in {"mongodb", "valkey", "core"} -> material[k].old \in users[k]

Create(k) ==
  /\ pc[k] = "create" /\ kind[k] \notin Keycloak
  /\ \/ /\ CanCreate(k)
        /\ users' = Set(users, k, users[k] \cup {material[k].new})
        /\ IF kind[k] = "core"
           THEN Goto(k, "reconcile") /\ UNCHANGED save
           ELSE Goto(k, "read") /\ save' = Set(save, k, "PREPARED")
     \/ ~CanCreate(k) /\ End(k, "error") /\ UNCHANGED <<users, save>>
  /\ UNCHANGED <<kind, bound, files, doc, issued, calm, history>>

(* Reconcile: without material it fails, and Run's is rolled back; the     *)
(* binding may be replaced and the consumer still fail.                    *)
Reconcile(k) ==
  /\ pc[k] = "reconcile"
  /\ IF material[k] = None
     THEN /\ IF kind[k] \in Own THEN End(k, "error") /\ UNCHANGED undoing ELSE Undo(k)
          /\ UNCHANGED <<bound, save>>
     ELSE /\ bound' = Set(bound, k, material[k].new)
          /\ \/ Goto(k, "read") /\ save' = Set(save, k, "RECONCILED") /\ UNCHANGED undoing
             \/ ~calm /\ kind[k] \notin Own /\ Undo(k) /\ UNCHANGED save
  /\ UNCHANGED <<kind, users, files, doc, issued, calm, fresh, torn>>

(* An invalid projection of the Core's roles (ReplaceControlPlane-         *)
(* Credentials) or a client secret whose binding or phase cannot be        *)
(* written is taken back, if that succeeds.                                *)
ProjectFails(k) ==
  /\ pc[k] = "reconcile" /\ kind[k] \in {"core", "client"}
  /\ ~calm /\ material[k] # None
  /\ \E c \in {material[k].old, material[k].new} : bound' = Set(bound, k, c)
  /\ End(k, "error")
  /\ UNCHANGED <<kind, users, files, command, issued, calm, history>>

(* Verify: the replacement is accepted; a bucket's is also compared with   *)
(* the binding, RabbitMQ, MongoDB and Valkey connect once more with        *)
(* whatever is bound, a signing key must be the one that signs, and the    *)
(* others ask whether the consumer is ready.  A failure is rolled back,    *)
(* except of the Core's, which rolls its members here, of a signing key    *)
(* and of a client secret whose overlap is gone.                           *)
BucketWorks(k) == bound[k] = material[k].new
BrokerWorks(k) == bound[k] \in users[k]
CacheWorks(k) == bound[k] \in users[k]
SignerWorks(k) == bound[k] = material[k].new
Accepted(k) == material[k] # None /\ material[k].new \in users[k]

(* verifySigningRotationOverlap; RotateClientSecret also asks for the old  *)
(* secret before it retires it.                                            *)
Overlapping(k) == kind[k] \in {"client", "signing"} => material[k].old \in users[k]

(* Mutant: the binding is not looked at. *)
WorksAlone(k) == Accepted(k)
Works(k) == /\ Accepted(k)
            /\ kind[k] = "bucket" => BucketWorks(k)
            /\ kind[k] \in {"rabbitmq", "mongodb"} => BrokerWorks(k)
            /\ kind[k] = "valkey" => CacheWorks(k)
            /\ kind[k] = "signing" => SignerWorks(k)

Left(k) == kind[k] \in {"core", "signing"} \/ (kind[k] = "client" /\ Works(k))

Verify(k) ==
  /\ pc[k] = "verify"
  /\ \/ /\ Works(k) /\ Overlapping(k)
        /\ Goto(k, "read") /\ save' = Set(save, k, "VERIFIED") /\ UNCHANGED undoing
     \/ /\ ~Works(k) \/ ~Overlapping(k) \/ ~calm
        /\ \/ Left(k) /\ End(k, "error") /\ UNCHANGED undoing
           \/ kind[k] \notin {"core", "signing"} /\ (Works(k) => ~calm) /\ Undo(k)
        /\ UNCHANGED save
  /\ UNCHANGED <<kind, service, files, doc, issued, calm, fresh, torn>>

(* Retire: the old user is deleted and the old credential must then be     *)
(* rejected; rabbitmqctl delete_user refuses an absent user, ACL SETUSER   *)
(* may refuse an absent password, and all but the buckets' and RabbitMQ's  *)
(* authenticate with the new credential.  A failure keeps VERIFIED.        *)
CanRetire(k) ==
  /\ material[k] # None
  /\ kind[k] = "rabbitmq" => material[k].user \in users[k]
  /\ kind[k] \in {"mongodb", "valkey"} \cup Own => material[k].new \in users[k]

MayRefuse(k) == kind[k] = "valkey" /\ material[k].user \notin users[k]

Retire(k) ==
  /\ pc[k] = "retire"
  /\ \/ /\ CanRetire(k)
        /\ users' = Set(users, k, users[k] \ {material[k].user})
        /\ fresh' = Set(fresh, k, fresh[k] /\ journal[k] # "VERIFIED")
        /\ IF material[k].old \in users'[k] THEN End(k, "error") ELSE Goto(k, "commit")
     \/ /\ ~CanRetire(k) \/ MayRefuse(k)
        /\ End(k, "error") /\ UNCHANGED <<users, fresh>>
  /\ UNCHANGED <<kind, bound, files, command, issued, calm, undoing, torn>>

(* saveBucketCredentialIdentityState, savePlatformBucketState *)
Committed(k) == IF kind[k] \in S3 THEN material[k].new ELSE ident[k]

Commit(k) ==
  /\ pc[k] = "commit"
  /\ ident' = Set(ident, k, Committed(k))
  /\ save' = Set(save, k, "RETIRED")
  /\ Goto(k, "read")
  /\ UNCHANGED <<kind, service, material, journal, doc, issued, calm, history>>

-----------------------------------------------------------------------------
(* FileRotationJournal.Save and Clear read the document, change one entry  *)
(* and write the whole of it.  The brokers, databases and caches of an     *)
(* application share one file, its buckets another, and Loki and Tempo a   *)
(* third.                                                                  *)

File(k) == IF kind[k] \in Managed THEN "application" ELSE kind[k]
Peers(k) == {j \in Keys : j = k \/ (kind[k] \notin Own /\ File(j) = File(k))}

(* A rollback clears the entry; Keycloak's puts it back to PREPARED.       *)
Reset(k) == IF kind[k] \in Keycloak THEN "PREPARED" ELSE ""

Read(k) ==
  /\ pc[k] \in {"read", "unread"}
  /\ doc' = Set(doc, k, Set(journal, k, IF pc[k] = "read" THEN save[k] ELSE Reset(k)))
  /\ Goto(k, IF pc[k] = "read" THEN "write" ELSE "unwrite")
  /\ UNCHANGED <<kind, service, files, save, issued, calm, history>>

Stored(k) == [j \in Keys |-> IF j \in Peers(k) THEN doc[k][j] ELSE journal[j]]

Write(k) ==
  /\ pc[k] = "write"
  /\ journal' = Stored(k)
  /\ Goto(k, IF save[k] = "" THEN "discard" ELSE StepAfter(k, save[k]))
  /\ save' = Set(save, k, "")
  /\ doc' = Set(doc, k, [j \in Keys |-> ""])
  /\ UNCHANGED <<kind, service, ident, material, issued, calm, history>>

(* The material goes after the journal entry (Prepared.Clear, or a         *)
(* bucket's os.Remove), or with it (ClearControlPlaneCredentialRotation).  *)
Discard(k) ==
  /\ pc[k] = "discard"
  /\ material' = Set(material, k, None)
  /\ journal' = IF kind[k] = "core" THEN Set(journal, k, "") ELSE journal
  /\ End(k, "ok")
  /\ UNCHANGED <<kind, service, ident, command, issued, calm, history>>

-----------------------------------------------------------------------------
(* rollbackAndReset.  A bucket deletes the new identity and then binds the *)
(* old credential, the others bind and then delete; the deletion's error   *)
(* is ignored.  Only a bucket rolls back without material, doing nothing.  *)
(* Keycloak's (administrator and client secret) only binds, and ignores    *)
(* that error.                                                             *)

(* Mutant: the old one is deleted. *)
DeleteOld(k) == users' = Set(users, k, users[k] \ {material[k].old})
DeleteNew(k) ==
  \/ users' = IF kind[k] \in {"mongodb", "valkey"} => material[k].old \in users[k]
              THEN Set(users, k, users[k] \ {material[k].new}) ELSE users
  \/ ~calm /\ UNCHANGED users

Unbind(k) ==
  /\ pc[k] = "unbind" /\ kind[k] \notin Keycloak
  /\ IF material[k] = None
     THEN /\ IF kind[k] \in S3 THEN Goto(k, "unread") ELSE End(k, "error")
          /\ UNCHANGED service
     ELSE /\ IF kind[k] \in S3
             THEN DeleteNew(k) /\ UNCHANGED bound
             ELSE bound' = Set(bound, k, material[k].old) /\ UNCHANGED users
          /\ Goto(k, "delete")
  /\ UNCHANGED <<kind, files, command, issued, calm, history>>

Rebind(k) ==
  /\ pc[k] = "unbind" /\ kind[k] \in Keycloak
  /\ bound' = Set(bound, k, material[k].old) \/ (~calm /\ UNCHANGED bound)
  /\ Goto(k, "unread")
  /\ UNCHANGED <<kind, users, files, command, issued, calm, history>>

Delete(k) ==
  /\ pc[k] = "delete"
  /\ IF kind[k] \in S3
     THEN bound' = Set(bound, k, material[k].old) /\ UNCHANGED users
     ELSE DeleteNew(k) /\ UNCHANGED bound
  /\ Goto(k, "unread")
  /\ UNCHANGED <<kind, files, command, issued, calm, history>>

Unwrite(k) ==
  /\ pc[k] = "unwrite"
  /\ journal' = Stored(k)
  /\ doc' = Set(doc, k, [j \in Keys |-> ""])
  /\ undoing' = Set(undoing, k, FALSE)
  /\ Goto(k, "drop")
  /\ UNCHANGED <<kind, service, ident, material, save, issued, calm, fresh, torn>>

(* A bucket's state file stays, and the next rotation uses it again;       *)
(* Keycloak's material stays for the retry.                                *)
Drop(k) ==
  /\ pc[k] = "drop"
  /\ material' = IF kind[k] \in S3 \cup Keycloak THEN material ELSE Set(material, k, None)
  /\ End(k, "error")
  /\ UNCHANGED <<kind, service, ident, journal, command, issued, calm, history>>

(* ensureClientSecretRotationPolicy: Keycloak drops a client's previous    *)
(* secret after a day, whether its rotation is complete or not.            *)
Lapse(k) ==
  /\ ~calm /\ kind[k] = "client" /\ users[k] # {Newest(k)}
  /\ users' = Set(users, k, {Newest(k)})
  /\ torn' = Set(torn, k, TRUE)
  /\ UNCHANGED <<kind, bound, files, pc, command, issued, outcome, calm, fresh, undoing>>

(* A call fails without a rollback, or the process dies. *)
Stop(k) ==
  /\ ~calm /\ pc[k] # "idle"
  /\ End(k, "error")
  /\ save' = Set(save, k, "")
  /\ doc' = Set(doc, k, [j \in Keys |-> ""])
  /\ torn' = Set(torn, k, torn[k] \/ undoing[k])
  /\ UNCHANGED <<kind, service, files, issued, calm, fresh, undoing>>

Settle == ~calm /\ calm' = TRUE
          /\ UNCHANGED <<kind, service, files, pc, command, issued, outcome, history>>

Step(k) == \/ Start(k) \/ Prepare(k) \/ Create(k) \/ Reconcile(k) \/ Verify(k) \/ Retire(k)
           \/ Commit(k) \/ Read(k) \/ Write(k) \/ Discard(k)
           \/ Unbind(k) \/ Delete(k) \/ Unwrite(k) \/ Drop(k)
           \/ Issue(k) \/ SaveIssued(k) \/ Rebind(k)
           \/ CorePrepare(k) \/ ProjectFails(k)

Next == Settle \/ \E k \in Keys : Step(k) \/ Stop(k) \/ Lapse(k)

Spec == Init /\ [][Next]_vars

(* A running command goes on, and a failed rotation is run again. *)
FairSpec == Spec /\ \A k \in Keys : WF_vars(Step(k))
-----------------------------------------------------------------------------
(* Properties *)

Retired(k) == pc[k] = "retire" /\ users'[k] # users[k]

(* The keys the guarantees are given for: all but a bucket's, a signing    *)
(* key's and the Core's lose them with the first interrupted rollback      *)
(* (RetireVerified), and a client's when its overlap lapses.               *)
Sound == {k \in Keys : kind[k] \in {"bucket", "signing", "core"} \/ ~torn[k]}

(* Until a replacement is verified, the credential it replaces stays       *)
(* accepted, through failures, rollbacks and restarts: Prepare "must make  *)
(* new material usable without retiring the old path".                     *)
OldPathKept ==
  \A k \in Sound : fresh[k] /\ material[k] # None => material[k].old \in users[k]

(* A journal that says VERIFIED or RETIRED is right after a restart: the   *)
(* consumer is bound to the replacement, which is accepted; after RETIRED  *)
(* the old credential is not.                                              *)
VerifiedIsLive ==
  \A k \in Sound : journal[k] \in {"VERIFIED", "RETIRED"} =>
    /\ material[k] # None
    /\ bound[k] = material[k].new /\ bound[k] \in users[k]
    /\ journal[k] = "RETIRED" => material[k].old \notin users[k]

(* The consumer's credential is accepted at every moment of a rotation     *)
(* except while a rollback is under way or interrupted, or after one used  *)
(* the material of a finished rotation.                                    *)
Overlap == \A k \in Sound : fresh[k] /\ ~undoing[k] => bound[k] \in users[k]

(* Between rotations a bucket's identity file names the user whose         *)
(* credential is bound, so the next rotation retires the right one.        *)
IdentityFollows ==
  \A k \in Sound : kind[k] \in S3 /\ journal[k] = "" /\ material[k] = None
    => ident[k] = bound[k]

(* The Core's roles are on file before they exist: whatever dies, no role  *)
(* is left that a later run does not know.                                 *)
NoUnknownRole ==
  \A k \in Keys : kind[k] = "core" =>
    users[k] \subseteq {bound[k], material[k].old, material[k].new}

(* A credential that works is kept through all of a rotation, and the one  *)
(* to retire next is known between rotations.                              *)
PathKept == OldPathKept /\ Overlap /\ IdentityFollows /\ NoUnknownRole

(* A rotation that keeps its material through a failure, run again without *)
(* faults, ends with the consumer bound to an accepted credential.         *)
RetriesComplete ==
  \A k \in Keys :
    (/\ calm /\ k \in Sound
     /\ \/ kind[k] \in S3 /\ material[k] # None
        \/ kind[k] \in Own /\ journal[k] # "")
    ~> (outcome[k] = "ok" /\ bound[k] \in users[k])

(* "Retire runs only after successful verification" (rotation.go:14): no   *)
(* retirement takes away the credential the consumer is bound to.          *)
RetireVerified == [][\A k \in Keys : Retired(k) => bound[k] \in users'[k]]_vars

(* A rolled back rotation of a bucket leaves the consumer with a           *)
(* credential that works: rollback is to "restore previous valid           *)
(* credential path" (rotation.go:129).                                     *)
RollbackRestores ==
  \A k \in Keys : kind[k] \in S3 /\ pc[k] = "idle" /\ journal[k] = ""
    => bound[k] \in users[k]
=============================================================================
