----------------------------- MODULE CoreUpdate -----------------------------
(***************************************************************************)
(* The provider update of an owned, non-HA Core: one attempt of            *)
(* reconcileNativeCoreProviders (cmd/baha/update_core_native.go) is        *)
(* RunMixedProviderUpdates around ExecuteJournaled around Execute          *)
(* (internal/coreupdate).  The providers are updated in plan order under   *)
(* the Core lifecycle lock, so one attempt runs at a time, but it may fail *)
(* or crash at every step and is then run again by the operator.           *)
(*                                                                         *)
(* Providers are 1..N in plan order.  A native provider (PostgreSQL) is    *)
(* quiesced, its volume archived, and rolled back through that archive;    *)
(* the other providers keep their databases in it, so stopping, starting   *)
(* and restoring it concerns all of them.  A bound provider (OpenBao,      *)
(* Keycloak) is dumped while it runs, and its adapter stops and restores   *)
(* only itself.                                                            *)
(*                                                                         *)
(* Abstractions: the image of a provider is its installed one ("orig") or  *)
(* the one the release pins ("pinned"); its data is the number of writes   *)
(* it accepted and the format of its schema, which a pinned image migrates *)
(* on start and which a half restored volume has lost ("torn").  A file    *)
(* replaced by rename is written atomically; the Compose checkpoint, the   *)
(* recovery points and a volume are not.                                   *)
(*                                                                         *)
(* The same lock serialises `baha up` (coreinstallation.Run), which an     *)
(* operator runs between attempts to bring stopped services back.  It      *)
(* renders the Compose files from the templates of the installed           *)
(* executable, which name the original images, whatever an update pinned.  *)
(***************************************************************************)
EXTENDS Naturals

CONSTANTS
  N,            \* number of providers in the plan
  Bound,        \* the ones updated through a bound adapter
  Core,         \* the ones of the Core Compose project
  MaxCrashes, MaxFaults, MaxWrites   \* bounds

ASSUME NAssumption == N \in Nat \ {0}
(* Of the shared SQL, Secrets and Identity deltas only SQL is native.      *)
ASSUME BoundAssumption == /\ Bound \subseteq 1..N
                          /\ \A p, q \in (1..N) \ Bound : p = q
(* PostgreSQL is a service of the Core project; Keycloak has its own.      *)
ASSUME CoreAssumption == Core \subseteq 1..N /\ (1..N) \ Bound \subseteq Core
ASSUME LimitsAssumption == MaxCrashes \in Nat /\ MaxFaults \in Nat /\ MaxWrites \in Nat

Providers == 1..N
Native == Providers \ Bound

Images == {"orig", "pinned"}
Data == [writes : 0..MaxWrites, format : Images \cup {"torn"}]
JournalStates == {"none", "applying", "apply_failed", "verify_failed", "recovered", "verified"}
Interrupted == {"applying", "apply_failed", "verify_failed"}
RestorePhases == {"none", "sql_started", "sql_restored", "recovered"}

(* "partial": evidence no later capture accepts, such as an archive without *)
(* its checksum; "whole": a bound provider's dump and configuration         *)
(* without the receipt that seals them.                                     *)
PointStates == {"none", "partial", "whole", "sealed"}

Stages == {"idle", "preflight",
           "resume", "execute", "rollback",                     \* the loops
           "stop", "restore", "restore_sql", "restore_note",    \* Recover
           "unstage", "restart", "recheck",
           "quiesce", "capture", "complete", "seal",            \* RecoveryPoint
           "checkpoint", "stage", "start", "verify",            \* Apply, Verify
           "note", "log",                                       \* Record
           "up_start", "up_render", "up_recreate",              \* baha up
           "up_identity", "up_keycloak", "up_verify"}
Passes == {"none", "resume", "rollback", "up", "apply"}
CheckpointStates == {"none", "torn", "ok"}

VARIABLES
  compose,   \* image declared in the Compose file
  image,     \* image of the container, running or stopped
  up,        \* the provider answers
  data,      \* contents of its database
  point,     \* its recovery point: status, contents, Compose entry
  ckpt,      \* its Compose checkpoint: status and the images of the file
  restored,  \* phase of its restore receipt (bound providers)
  journal,   \* journal.json
  receipts,  \* receipts.json, the external projection
  ready,     \* Ready of the installation state
  pc,        \* where the attempt is: stage, provider, pass, status to record
  todo,      \* deltas of the plan that are not NoChange
  prior,     \* providers whose mutation an earlier attempt left interrupted
  outcome,   \* result of the last attempt
  crashes, faults,
  settled,   \* history: recovered by a loop that then went on, and not
             \* mutated since
  bypassed   \* history: providers whose pinned Compose entry `baha up` wrote
             \* over, or whose half restored volume it started, and that no
             \* recovery has settled since

vars == <<compose, image, up, data, point, ckpt, restored, journal, receipts, ready, pc,
          todo, prior, outcome, crashes, faults, settled, bypassed>>

evidence == <<point, ckpt, restored>>
records == <<journal, receipts, settled, bypassed>>
runtime == <<image, up, data>>
attempt == <<todo, prior, ready>>

Idle == [at |-> "idle", p |-> 0, pass |-> "none", status |-> "none"]

TypeOK ==
  /\ compose \in [Providers -> Images]
  /\ image \in [Providers -> Images]
  /\ up \in [Providers -> BOOLEAN]
  /\ data \in [Providers -> Data]
  /\ point \in [Providers -> [status : PointStates, copy : [Providers -> Data], conf : Images]]
  /\ ckpt \in [Providers -> [status : CheckpointStates, saved : [Providers -> Images]]]
  /\ restored \in [Providers -> RestorePhases]
  /\ journal \in [Providers -> JournalStates]
  /\ receipts \in [Providers -> JournalStates]
  /\ ready \in BOOLEAN
  /\ pc \in [at : Stages, p : 0..N+1, pass : Passes, status : JournalStates]
  /\ todo \in SUBSET Providers
  /\ prior \in SUBSET Providers
  /\ outcome \in {"none", "ok", "error", "crashed"}
  /\ crashes \in 0..MaxCrashes
  /\ faults \in 0..MaxFaults
  /\ settled \in [Providers -> BOOLEAN]
  /\ bypassed \in SUBSET Providers

Init ==
  /\ compose = [p \in Providers |-> "orig"]
  /\ image = [p \in Providers |-> "orig"]
  /\ up = [p \in Providers |-> TRUE]
  /\ data = [p \in Providers |-> [writes |-> 0, format |-> "orig"]]
  /\ point = [p \in Providers |-> [status |-> "none", copy |-> data, conf |-> "orig"]]
  /\ ckpt = [p \in Providers |-> [status |-> "none", saved |-> compose]]
  /\ restored = [p \in Providers |-> "none"]
  /\ journal = [p \in Providers |-> "none"]
  /\ receipts = [p \in Providers |-> "none"]
  /\ ready = TRUE
  /\ pc = Idle
  /\ todo = {}
  /\ prior = {}
  /\ outcome = "none"
  /\ crashes = 0
  /\ faults = 0
  /\ settled = [p \in Providers |-> TRUE]
  /\ bypassed = {}

-----------------------------------------------------------------------------
(* The containers and databases that stopping or restoring p concerns: the *)
(* SQL project holds everybody's database.                                 *)
Scope(p) == IF p \in Bound THEN {p} ELSE Providers

(* The services of p's Compose file, and those that starting p concerns: a *)
(* project is started as a whole, and after SQL also its dependents.       *)
File(p) == IF p \in Core THEN Core ELSE Providers \ Core
Project(p) == IF p \in Bound THEN File(p) ELSE Providers

AllUp == \A p \in Providers : up[p]

(* StopProject, stopSelected.  A call that fails stops some of them.       *)
StopSet(S) ==
  /\ up' = [q \in Providers |-> up[q] /\ q \notin S]
  /\ UNCHANGED <<image, data>>
StopScope(p) == StopSet(Scope(p))
StopSome(p) == \E S \in SUBSET Scope(p) : StopSet(S)

(* UpProject and resumeSQLDependents: containers are recreated from the    *)
(* Compose file; a pinned image migrates the data it finds, unless there   *)
(* is only half of it.                                                     *)
StartSet(S) ==
  /\ up' = [q \in Providers |-> up[q] \/ q \in S]
  /\ image' = [q \in Providers |-> IF q \in S THEN compose[q] ELSE image[q]]
  /\ data' = [q \in Providers |->
                IF q \in S /\ compose[q] = "pinned" /\ data[q].format # "torn"
                THEN [data[q] EXCEPT !.format = "pinned"] ELSE data[q]]
StartProject(p) == StartSet(Project(p))
StartSome(p) == \E S \in SUBSET Project(p) : StartSet(S)

(* The data of p's scope once its recovery point is back in place, and     *)
(* when a volume restore stopped half way.                                 *)
Rewound(p) == [q \in Providers |-> IF q \in Scope(p) THEN point[p].copy[q] ELSE data[q]]
Torn(p) == [q \in Providers |->
              IF q \in Scope(p) THEN [data[q] EXCEPT !.format = "torn"] ELSE data[q]]

InterruptedIn(j) == {p \in Providers : j[p] \in Interrupted}

(* p is the first provider of S at or after i in plan order, N+1 if none.  *)
IsFirst(p, S, i) == /\ p >= i /\ p \in S \cup {N + 1}
                    /\ \A q \in S : q >= i => p <= q

GotoAt(stage, p, pass, status) == pc' = [at |-> stage, p |-> p, pass |-> pass, status |-> status]
Goto(stage) == pc' = [pc EXCEPT !.at = stage] /\ UNCHANGED outcome
Record(status) == pc' = [pc EXCEPT !.at = "note", !.status = status] /\ UNCHANGED outcome
At(stage) == pc.at = stage

Fault == faults < MaxFaults /\ faults' = faults + 1

Return(result) == pc' = Idle /\ outcome' = result

(* ExecuteJournaled returned an error: RunMixedProviderUpdates enters its  *)
(* rollback loop.                                                          *)
Abort == GotoAt("rollback", 1, "rollback", "none") /\ UNCHANGED outcome

(* An error in the rollback loop ends the attempt.                         *)
Fail == IF pc.pass = "rollback" THEN Return("error") ELSE Abort

-----------------------------------------------------------------------------
(* reconcileNativeCoreProviders: plan from the live image identities.  If  *)
(* nothing changed, verifyCoreBinaryOnly alone decides.  A Core that is    *)
(* not Ready is refused before anything is planned.                        *)
BeginAttempt ==
  /\ At("idle") /\ ready
  /\ todo' = {p \in Providers : image[p] # "pinned"}
  /\ prior' = InterruptedIn(journal)
  /\ \/ /\ todo' # {}
        /\ GotoAt("preflight", 0, "none", "none")
        /\ outcome' = "none"
        /\ UNCHANGED faults
     \/ /\ todo' = {} /\ AllUp
        /\ Return("ok")
        /\ UNCHANGED faults
     \/ /\ todo' = {}
        /\ \/ ~AllUp /\ UNCHANGED faults
           \/ Fault
        /\ Return("error")
  /\ UNCHANGED <<compose, evidence, records, runtime, ready, crashes>>

(* Preflight of every provider: it needs the live services.                *)
Preflight ==
  /\ At("preflight")
  /\ \/ /\ AllUp
        /\ GotoAt("resume", 1, "resume", "none")
        /\ UNCHANGED <<faults, outcome>>
     \/ /\ ~AllUp /\ UNCHANGED faults
        /\ Abort
     \/ Fault /\ Abort
  /\ UNCHANGED <<compose, evidence, records, runtime, attempt, crashes>>

(* What the resume and the rollback loop recover.  Mutants: the resume loop *)
(* passes over deltas without change, the rollback loop takes back          *)
(* everything the journal mentions.                                         *)
ResumeChanged == InterruptedIn(journal) \cap todo
ToResume == InterruptedIn(journal)
RollBackAll == {p \in Providers : journal[p] # "none"}
ToRollBack == InterruptedIn(journal) \ prior

(* ExecuteJournaled: recover every interrupted delta.  One that is         *)
(* NoChange has no assets (native) or a backup of another version (bound), *)
(* so its recovery is refused.  Then every delta to be skipped as verified *)
(* is verified again; of a native one only what it serves is.              *)
StillReady(p) == AllUp /\ (p \in Bound => image[p] = "pinned")

ResumeNext ==
  /\ At("resume")
  /\ \E p \in 1..N+1 :
       /\ IsFirst(p, ToResume, pc.p)
       /\ \/ /\ p = N + 1
             /\ \A q \in todo : journal[q] = "verified" => StillReady(q)
             /\ GotoAt("execute", 1, "none", "none") /\ UNCHANGED <<outcome, faults>>
          \/ /\ p = N + 1
             /\ \E q \in todo : /\ journal[q] = "verified"
                                /\ (~StillReady(q) /\ UNCHANGED faults) \/ Fault
             /\ Abort
          \/ /\ p \in todo
             /\ GotoAt("stop", p, "resume", "none") /\ UNCHANGED <<outcome, faults>>
          \/ /\ p \in Providers \ todo
             /\ Abort /\ UNCHANGED faults
  /\ UNCHANGED <<compose, evidence, records, runtime, attempt, crashes>>

(* Execute: the deltas that are neither NoChange nor already verified.  A  *)
(* bound provider whose backup receipt exists reuses it.  When none is     *)
(* left, verifyReconciledCore has the last word.                           *)
ExecuteNext ==
  /\ At("execute")
  /\ \E p \in 1..N+1 :
       /\ IsFirst(p, {q \in todo : journal[q] # "verified"}, pc.p)
       /\ \/ /\ p \in Native
             /\ GotoAt("quiesce", p, "none", "none")
             /\ UNCHANGED <<outcome, faults>>
          \/ /\ p \in Bound
             /\ IF point[p].status = "sealed" THEN GotoAt("note", p, "none", "applying")
                                              ELSE GotoAt("checkpoint", p, "none", "none")
             /\ UNCHANGED <<outcome, faults>>
          \/ /\ p = N + 1
             /\ AllUp /\ \A q \in Providers : image[q] = "pinned"
             /\ Return("ok")
             /\ UNCHANGED faults
          \/ /\ p = N + 1
             /\ \/ ~(AllUp /\ \A q \in Providers : image[q] = "pinned") /\ UNCHANGED faults
                \/ Fault
             /\ Return("error")
  /\ UNCHANGED <<compose, evidence, records, runtime, attempt, crashes>>

(* RunMixedProviderUpdates: recover what this attempt left interrupted.    *)
RollbackNext ==
  /\ At("rollback")
  /\ \E p \in 1..N+1 :
       /\ IsFirst(p, ToRollBack, pc.p)
       /\ \/ /\ p \in Providers
             /\ GotoAt("stop", p, "rollback", "none") /\ UNCHANGED outcome
          \/ /\ p = N + 1
             /\ Return("error")
  /\ UNCHANGED <<compose, evidence, records, runtime, attempt, crashes, faults>>

-----------------------------------------------------------------------------
(* Mutant: recovery puts the original image back, not the data.            *)
RecoverImageOnly ==
  /\ At("stop")
  /\ StopScope(pc.p) /\ Goto("unstage")
  /\ UNCHANGED <<compose, evidence, records, attempt, crashes, faults>>

(* Recover.  Quiesce; some containers may be stopped although it failed.   *)
RecoverStop ==
  /\ At("stop")
  /\ \/ StopScope(pc.p) /\ Goto("restore") /\ UNCHANGED faults
     \/ Fault /\ Fail /\ StopSome(pc.p)
  /\ UNCHANGED <<compose, evidence, records, attempt, crashes>>

(* VolumeRecovery.Recover: the volume is emptied, then unpacked.           *)
RestoreVolume ==
  /\ At("restore") /\ pc.p \in Native
  /\ \/ /\ point[pc.p].status = "sealed"
        /\ data' = Rewound(pc.p)
        /\ Goto("unstage") /\ UNCHANGED faults
     \/ /\ Fault /\ Fail
        /\ data' \in {data, Torn(pc.p)}
  /\ UNCHANGED <<compose, image, up, evidence, records, attempt, crashes>>

(* providerSQLBackupSpec.restore: its receipt lets the SQL run only once   *)
(* for a backup; configuration replay completes it.  Keycloak's            *)
(* configuration includes its Compose file.  A receipt may be in place     *)
(* although its write reported an error, and a file replayed before one.   *)
Replayed(p) == IF p \in Core THEN compose ELSE [compose EXCEPT ![p] = point[p].conf]

RestoreBound ==
  /\ At("restore") /\ pc.p \in Bound
  /\ \/ /\ restored[pc.p] = "none"
        /\ restored' = [restored EXCEPT ![pc.p] = "sql_started"]
        /\ Goto("restore_sql") /\ UNCHANGED <<compose, faults>>
     \/ /\ restored[pc.p] = "sql_started"
        /\ Fail /\ UNCHANGED <<compose, restored, faults>>
     \/ /\ restored[pc.p] = "sql_restored"
        /\ compose' = Replayed(pc.p)
        /\ restored' = [restored EXCEPT ![pc.p] = "recovered"]
        /\ Goto("unstage") /\ UNCHANGED faults
     \/ /\ restored[pc.p] = "recovered"
        /\ Goto("unstage") /\ UNCHANGED <<compose, restored, faults>>
     \/ /\ Fault /\ Fail
        /\ \/ UNCHANGED <<compose, restored>>
           \/ /\ restored[pc.p] = "none" /\ UNCHANGED compose
              /\ restored' = [restored EXCEPT ![pc.p] = "sql_started"]
           \/ /\ restored[pc.p] = "sql_restored" /\ compose' = Replayed(pc.p)
              /\ restored' \in {restored, [restored EXCEPT ![pc.p] = "recovered"]}
  /\ UNCHANGED <<runtime, point, ckpt, records, attempt, crashes>>

(* The single-transaction psql run; an error can follow its commit.        *)
RestoreSQL ==
  /\ At("restore_sql")
  /\ \/ data' = Rewound(pc.p) /\ Goto("restore_note") /\ UNCHANGED faults
     \/ Fault /\ Fail /\ data' \in {data, Rewound(pc.p)}
  /\ UNCHANGED <<compose, image, up, evidence, records, attempt, crashes>>

RestoreNote ==
  /\ At("restore_note")
  /\ \/ /\ restored' = [restored EXCEPT ![pc.p] = "sql_restored"]
        /\ Goto("restore") /\ UNCHANGED faults
     \/ /\ Fault /\ Fail
        /\ restored' \in {restored, [restored EXCEPT ![pc.p] = "sql_restored"]}
  /\ UNCHANGED <<compose, runtime, point, ckpt, records, attempt, crashes>>

(* The Compose file is the one the checkpoint saved, but perhaps for p's   *)
(* own image.                                                              *)
Matches(p) == \A q \in File(p) \ {p} : compose[q] = ckpt[p].saved[q]

(* ComposeCheckpoint.Restore.                                              *)
Unstage ==
  /\ At("unstage")
  /\ \/ /\ ckpt[pc.p].status = "ok" /\ Matches(pc.p)
        /\ compose' = [compose EXCEPT ![pc.p] = "orig"]
        /\ Goto("restart") /\ UNCHANGED faults
     \/ /\ \/ ~(ckpt[pc.p].status = "ok" /\ Matches(pc.p)) /\ UNCHANGED faults
           \/ Fault
        /\ Fail /\ UNCHANGED compose
  /\ UNCHANGED <<runtime, evidence, records, attempt, crashes>>

(* ReconcileOriginal.                                                      *)
Restart ==
  /\ At("restart")
  /\ \/ StartProject(pc.p) /\ Goto("recheck") /\ UNCHANGED faults
     \/ Fault /\ Fail /\ StartSome(pc.p)
  /\ UNCHANGED <<compose, evidence, records, attempt, crashes>>

(* VerifySemantics ends a recovery.  The resume loop goes on without       *)
(* journaling it; the rollback loop records "recovered".                   *)
Recheck ==
  /\ At("recheck")
  /\ \/ /\ AllUp
        /\ settled' = [settled EXCEPT ![pc.p] = settled[pc.p] \/ pc.pass = "resume"]
        /\ bypassed' = bypassed \ {pc.p}
        /\ IF pc.pass = "resume"
             THEN GotoAt("resume", pc.p + 1, "resume", "none") /\ UNCHANGED outcome
             ELSE Record("recovered")
        /\ UNCHANGED faults
     \/ /\ \/ ~AllUp /\ UNCHANGED faults
           \/ Fault
        /\ Fail /\ UNCHANGED <<settled, bypassed>>
  /\ UNCHANGED <<compose, runtime, evidence, journal, receipts, attempt, crashes>>

-----------------------------------------------------------------------------
(* Mutant: a stopped volume is taken for a saved one.                      *)
QuiesceOnly ==
  /\ At("quiesce")
  /\ StopScope(pc.p) /\ Record("applying")
  /\ UNCHANGED <<compose, evidence, records, attempt, crashes, faults>>

(* RecoveryPoint of a native provider: Quiesce, then VolumeRecovery.Capture *)
(* publishes the archive and then its checksum.                             *)
Quiesce ==
  /\ At("quiesce")
  /\ \/ StopScope(pc.p) /\ Goto("capture") /\ UNCHANGED faults
     \/ Fault /\ Abort /\ StopSome(pc.p)
  /\ UNCHANGED <<compose, evidence, records, attempt, crashes>>

(* An existing point is reused if complete and refused if partial.  A      *)
(* bound provider is dumped while it runs.                                 *)
Capture ==
  /\ At("capture")
  /\ \/ /\ point[pc.p].status = "none"
        /\ point' = [point EXCEPT ![pc.p] =
                     [status |-> "partial", copy |-> data, conf |-> @.conf]]
        /\ Goto(IF pc.p \in Bound THEN "complete" ELSE "seal") /\ UNCHANGED faults
     \/ /\ point[pc.p].status = "whole"
        /\ Goto("seal") /\ UNCHANGED <<point, faults>>
     \/ /\ point[pc.p].status = "sealed"
        /\ Record("applying") /\ UNCHANGED <<point, faults>>
     \/ /\ \/ point[pc.p].status = "partial" /\ UNCHANGED faults
           \/ Fault
        /\ Abort /\ UNCHANGED point
  /\ UNCHANGED <<compose, runtime, ckpt, restored, records, attempt, crashes>>

(* captureConfiguration: the second half of a bound provider's backup.     *)
Complete ==
  /\ At("complete")
  /\ \/ /\ point' = [point EXCEPT ![pc.p] =
                     [status |-> "whole", copy |-> @.copy, conf |-> compose[pc.p]]]
        /\ Goto("seal") /\ UNCHANGED faults
     \/ Fault /\ Abort /\ UNCHANGED point
  /\ UNCHANGED <<compose, runtime, ckpt, restored, records, attempt, crashes>>

(* The checksum (native), persistBackup (bound): either may be half        *)
(* written, or complete although its directory was not synced.             *)
Seal ==
  /\ At("seal")
  /\ \/ /\ point' = [point EXCEPT ![pc.p].status = "sealed"]
        /\ Record("applying") /\ UNCHANGED faults
     \/ /\ Fault /\ Abort
        /\ point' \in {point, [point EXCEPT ![pc.p].status = "partial"],
                       [point EXCEPT ![pc.p].status = "sealed"]}
  /\ UNCHANGED <<compose, runtime, ckpt, restored, records, attempt, crashes>>

(* ComposeCheckpoint.Capture opens a bound provider's RecoveryPoint,       *)
(* ComposeCheckpoint.Stage a native one's Apply.  An image that is not the *)
(* installed one is not saved; a saved file is compared.                   *)
Savable(p) == ckpt[p].status = "none" /\ compose[p] = "orig"
Comparable(p) == ckpt[p].status = "ok" /\ Matches(p)

Checkpoint ==
  /\ At("checkpoint")
  /\ \/ /\ Savable(pc.p)
        /\ ckpt' = [ckpt EXCEPT ![pc.p] = [status |-> "ok", saved |-> compose]]
        /\ Goto(IF pc.p \in Bound THEN "capture" ELSE "stage") /\ UNCHANGED faults
     \/ /\ Comparable(pc.p)
        /\ Goto(IF pc.p \in Bound THEN "capture" ELSE "stage") /\ UNCHANGED <<ckpt, faults>>
     \/ /\ \/ ~Savable(pc.p) /\ ~Comparable(pc.p) /\ UNCHANGED <<ckpt, faults>>
           \/ /\ Fault
              /\ \/ UNCHANGED ckpt
                 \/ Savable(pc.p) /\ ckpt' = [ckpt EXCEPT ![pc.p].status = "torn"]
        /\ IF pc.p \in Bound THEN Abort ELSE Record("apply_failed")
  /\ UNCHANGED <<compose, runtime, point, restored, records, attempt, crashes>>

Stage ==
  /\ At("stage")
  /\ \/ /\ Comparable(pc.p)
        /\ compose' = [compose EXCEPT ![pc.p] = "pinned"]
        /\ Goto("start") /\ UNCHANGED faults
     \/ /\ ~Comparable(pc.p)
        /\ Record("apply_failed") /\ UNCHANGED <<compose, faults>>
     \/ /\ Comparable(pc.p) /\ Fault /\ Record("apply_failed")
        /\ compose' \in {compose, [compose EXCEPT ![pc.p] = "pinned"]}
  /\ UNCHANGED <<runtime, evidence, records, attempt, crashes>>

(* ReconcilePinned and the adapter's wait for readiness.                   *)
Start ==
  /\ At("start")
  /\ \/ StartProject(pc.p) /\ Goto("verify") /\ UNCHANGED faults
     \/ Fault /\ Record("apply_failed") /\ StartSome(pc.p)
  /\ UNCHANGED <<compose, evidence, records, attempt, crashes>>

(* The adapter's Verify and VerifySemantics.                               *)
Verify ==
  /\ At("verify")
  /\ \/ /\ AllUp /\ image[pc.p] = "pinned"
        /\ Record("verified") /\ UNCHANGED faults
     \/ /\ \/ ~(AllUp /\ image[pc.p] = "pinned") /\ UNCHANGED faults
           \/ Fault
        /\ Record("verify_failed")
  /\ UNCHANGED <<compose, runtime, evidence, records, attempt, crashes>>

-----------------------------------------------------------------------------
(* Journal.Record: "verified" cannot regress.                              *)
Recordable(file) == file[pc.p] = "verified" => pc.status = "verified"

Recorded(file) == [file EXCEPT ![pc.p] = pc.status]

(* A record that fails: refused, not written, or renamed into place but    *)
(* not synced.                                                             *)
RecordFails(file) ==
  \/ ~Recordable(file) /\ UNCHANGED faults
  \/ Fault

(* Record publishes the receipt first, then the journal entry.             *)
Note ==
  /\ At("note")
  /\ \/ /\ Recordable(receipts)
        /\ receipts' = Recorded(receipts)
        /\ Goto("log") /\ UNCHANGED faults
     \/ /\ RecordFails(receipts) /\ Fail
        /\ receipts' \in {receipts} \cup {r \in {Recorded(receipts)} : Recordable(receipts)}
  /\ UNCHANGED <<compose, runtime, evidence, journal, settled, bypassed, attempt, crashes>>

AfterRecord ==
  CASE pc.status = "applying" ->
         Goto(IF pc.p \in Bound THEN "stage" ELSE "checkpoint")
    [] pc.status = "verified" ->
         GotoAt("execute", pc.p + 1, "none", "none") /\ UNCHANGED outcome
    [] pc.status = "recovered" ->
         GotoAt("rollback", pc.p + 1, "rollback", "none") /\ UNCHANGED outcome
    [] OTHER -> Abort

Log ==
  /\ At("log")
  /\ \/ /\ Recordable(journal)
        /\ journal' = Recorded(journal)
        /\ AfterRecord /\ UNCHANGED faults
     \/ /\ RecordFails(journal) /\ Fail
        /\ journal' \in {journal} \cup {j \in {Recorded(journal)} : Recordable(journal)}
  /\ settled' = [settled EXCEPT ![pc.p] =
                   (settled[pc.p] /\ journal'[pc.p] # "applying") \/ journal'[pc.p] = "recovered"]
  /\ UNCHANGED <<compose, runtime, evidence, receipts, bypassed, attempt, crashes>>

-----------------------------------------------------------------------------
(* coreinstallation.Run under the same lock, for `baha up`; "apply" is the *)
(* first step alone, which an application's apply and doctor's repair run. *)
(* The installation is not Ready until the last step has succeeded.  Core  *)
(* services that answer are left alone unless the operator names the       *)
(* recovery file.  The plan of the attempt before it is gone.              *)
CoreUp == \A q \in Core : up[q]

BeginUp(kind) ==
  /\ At("idle")
  /\ ready' = (ready /\ kind = "apply")
  /\ \/ GotoAt("up_start", 0, kind, "none")
     \/ CoreUp /\ kind = "up" /\ GotoAt("up_identity", 0, kind, "none")
  /\ todo' = {} /\ prior' = {} /\ outcome' = "none"
  /\ UNCHANGED <<compose, evidence, records, runtime, crashes, faults>>

(* Any step may fail: the command ends there.                              *)
UpFails == pc' = Idle /\ UNCHANGED outcome

(* A volume that a restore left half way is started like any other.        *)
UpSet(S) ==
  /\ StartSet(S)
  /\ bypassed' = bypassed \cup {q \in S \cap Native : data[q].format = "torn"}
UpSome(S) == \E T \in SUBSET S : UpSet(T)

(* startExistingControlPlaneRuntime: the Core project as its file is.      *)
UpStart ==
  /\ At("up_start")
  /\ \/ UpSet(Core) /\ Goto("up_render")
     \/ UpSome(Core) /\ UpFails
  /\ UNCHANGED <<compose, evidence, journal, receipts, settled, attempt, crashes, faults>>

(* A Compose file rendered from its template names the original images.    *)
Render(S) ==
  /\ compose' = [q \in Providers |-> IF q \in S THEN "orig" ELSE compose[q]]
  /\ bypassed' = bypassed \cup {q \in S : compose[q] = "pinned"}

(* reconcileControlPlaneServiceAccess: EnsureServiceAccess, then the Core  *)
(* project again.                                                          *)
UpRender ==
  /\ At("up_render")
  /\ \/ Render(Core) /\ Goto("up_recreate")
     \/ UpFails /\ UNCHANGED <<compose, bypassed>>
  /\ UNCHANGED <<runtime, evidence, journal, receipts, settled, attempt, crashes, faults>>

UpRecreate ==
  /\ At("up_recreate")
  /\ \/ UpSet(Core) /\ pc.pass = "up" /\ Goto("up_identity")
     \/ UpSome(Core) /\ UpFails
  /\ UNCHANGED <<compose, evidence, journal, receipts, settled, attempt, crashes, faults>>

(* EnsureCoreIdentity: the identity file, then its project.                *)
UpIdentity ==
  /\ At("up_identity")
  /\ \/ Render(Providers \ Core) /\ Goto("up_keycloak")
     \/ UpFails /\ UNCHANGED <<compose, bypassed>>
  /\ UNCHANGED <<runtime, evidence, journal, receipts, settled, attempt, crashes, faults>>

UpKeycloak ==
  /\ At("up_keycloak")
  /\ \/ UpSet(Providers \ Core) /\ Goto("up_verify")
     \/ UpSome(Providers \ Core) /\ UpFails
  /\ UNCHANGED <<compose, evidence, journal, receipts, settled, attempt, crashes, faults>>

UpVerify ==
  /\ At("up_verify")
  /\ pc' = Idle
  /\ \/ AllUp /\ ready' = TRUE
     \/ UNCHANGED ready
  /\ UNCHANGED <<compose, evidence, records, runtime, todo, prior, outcome, crashes, faults>>

-----------------------------------------------------------------------------
(* The process dies.  A volume restore, a checkpoint or the receipt that   *)
(* seals a backup may be left half written.                                *)
Crash ==
  /\ ~At("idle")
  /\ crashes < MaxCrashes
  /\ crashes' = crashes + 1
  /\ pc' = Idle
  /\ outcome' = "crashed"
  /\ \/ UNCHANGED <<data, ckpt, point>>
     \/ /\ At("restore") /\ pc.p \in Native
        /\ data' = Torn(pc.p) /\ UNCHANGED <<ckpt, point>>
     \/ /\ At("checkpoint") /\ Savable(pc.p)
        /\ ckpt' = [ckpt EXCEPT ![pc.p].status = "torn"] /\ UNCHANGED <<data, point>>
     \/ /\ At("seal")
        /\ point' = [point EXCEPT ![pc.p].status = "partial"] /\ UNCHANGED <<data, ckpt>>
  /\ UNCHANGED <<compose, image, up, restored, records, attempt, faults>>

(* External: clients of a running provider.                                *)
Write(p) ==
  /\ up[p] /\ data[p].writes < MaxWrites
  /\ data' = [data EXCEPT ![p].writes = @ + 1]
  /\ UNCHANGED <<compose, image, up, evidence, records, pc, attempt, outcome, crashes, faults>>

Step ==
  \/ Preflight \/ ResumeNext \/ ExecuteNext \/ RollbackNext
  \/ RecoverStop \/ RestoreVolume \/ RestoreBound \/ RestoreSQL \/ RestoreNote
  \/ Unstage \/ Restart \/ Recheck
  \/ Quiesce \/ Capture \/ Complete \/ Seal
  \/ Checkpoint \/ Stage \/ Start \/ Verify \/ Note \/ Log

UpStep ==
  \/ UpStart \/ UpRender \/ UpRecreate \/ UpIdentity \/ UpKeycloak \/ UpVerify

Next ==
  \/ BeginAttempt \/ Step \/ UpStep \/ Crash
  \/ \E kind \in {"up", "apply"} : BeginUp(kind)
  \/ \E p \in Providers : Write(p)

Spec == Init /\ [][Next]_vars

(* Fairness.  An attempt keeps running: every hook runs under a context    *)
(* with a deadline and returns.  For the recovery question the operator    *)
(* also runs the update and `baha up` again, until they go through.        *)
LiveSpec == Spec /\ WF_vars(Step \/ UpStep)

GoesOn(stage) == At(stage) /\ pc.pass = "up" /\ UpStep /\ (pc'.at # "idle" \/ ready')

OperatorSpec ==
  /\ LiveSpec /\ SF_vars(BeginAttempt) /\ SF_vars(BeginUp("up"))
  /\ \A stage \in {"up_start", "up_render", "up_recreate",
                    "up_identity", "up_keycloak", "up_verify"} : SF_vars(GoesOn(stage))

-----------------------------------------------------------------------------
(* Properties.                                                             *)

(* Nothing of a provider is changed, and no mutation of it is journaled,   *)
(* before its recovery point is complete and holds data of the original    *)
(* format (Execute: RecoveryPoint before Record "applying" before Apply).  *)
PointBeforeMutation ==
  \A p \in Providers :
     journal[p] # "none" \/ compose[p] = "pinned" \/ image[p] = "pinned"
       => point[p].status = "sealed" /\ point[p].copy[p].format = "orig"

(* A journal entry "verified", which later attempts skip, stands for a     *)
(* provider whose container and Compose file are still the pinned ones,    *)
(* whatever was recovered, crashed or restarted since; only the template   *)
(* that `baha up` writes over its entry takes it back.                     *)
VerifiedIsLive ==
  \A p \in Providers \ bypassed :
     journal[p] = "verified" => image[p] = "pinned" /\ compose[p] = "pinned"

(* The journal never claims what the receipt projection does not: the      *)
(* receipt is published first and a verified receipt cannot regress.       *)
JournalFollowsReceipts ==
  \A p \in Providers : journal[p] = "verified" => receipts[p] = "verified"

(* A native provider never runs its original image on data that the pinned *)
(* image migrated or that a restore left half way, unless `baha up` wrote  *)
(* the template over its pinned entry or started the volume; the next      *)
(* recovery makes it hold again.                                           *)
NativeRunsOwnFormat ==
  \A p \in Native \ bypassed : up[p] /\ image[p] = "orig" => data[p].format = "orig"

(* Plan order and recovery before replay: at most one provider is in the   *)
(* middle of a mutation, over any sequence of failed attempts.             *)
AtMostOneInterrupted ==
  \A p, q \in InterruptedIn(journal) : p = q

(* Accepted writes are only ever taken back by the recovery of a provider  *)
(* whose mutation is journaled as interrupted.                             *)
RewindOnlyInterrupted ==
  [][\A q \in Providers :
        data'[q].writes < data[q].writes =>
          \E p \in InterruptedIn(journal) : q \in Scope(p)]_vars

(* Stated by the code and the documentation, and violated by the model:    *)
(* the README's section on disagreements has the traces.                   *)

(* The recovery point of a quiesced volume is the data the mutation starts *)
(* from: "It deliberately rejects pre-existing recovery points".           *)
RecoveryPointIsCurrent ==
  At("checkpoint") /\ pc.p \in Native =>
     \A q \in Providers : point[pc.p].copy[q].writes = data[q].writes

(* A provider that was recovered and verified is not rewound again before  *)
(* it is mutated again: "Journal stores per-realization progress after     *)
(* each successful transition".                                            *)
RestoreSparesSettled ==
  [][\A p \in Native :
        At("restore") /\ pc.p = p /\ data'[p].writes < data[p].writes => ~settled[p]]_vars

(* Success is never reported over an interrupted journal entry: "An        *)
(* interrupted apply is NEVER skipped".                                    *)
SuccessMeansSettled ==
  outcome = "ok" => InterruptedIn(journal) = {}

(* A recovered provider runs its original image on its original schema:    *)
(* "the complete schema/data restore runs in one transaction".             *)
OriginalRunsOwnFormat ==
  \A p \in Providers : journal[p] = "recovered" => data[p].format = "orig"

(* "Resume incomplete owned state idempotently": an interrupted mutation   *)
(* is eventually verified or recovered when the operator keeps trying.     *)
InterruptedSettles ==
  \A p \in Providers : (journal[p] \in Interrupted) ~> (journal[p] \notin Interrupted)

=============================================================================
