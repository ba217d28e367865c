------------------------------ MODULE HACutover ------------------------------
(***************************************************************************)
(* The point recovery of an owned HA Core (`baha update --recover`):       *)
(* recoverOwnedCoreHA (cmd/baha/update_ha_cutover_native.go) around        *)
(* RunVerifiedDCSCutover (internal/coreupdate/dcs_cutover.go).  It stops   *)
(* the PostgreSQL members and then the etcd members, switches the managed  *)
(* Compose manifest to restored etcd directories and separate PostgreSQL   *)
(* volumes, and starts the cluster on them.  Its phase is journaled; an    *)
(* attempt may fail or die at every step and is run again by the operator. *)
(*                                                                         *)
(* Beside it run: a repeated update of the same release, which boots the   *)
(* restored etcd directories in an isolated project to verify its          *)
(* evidence; `baha down`; `baha up`, which starts the Core as its manifest *)
(* is, then writes that manifest from the template of the installed        *)
(* executable and starts the Core again; and an application apply, which   *)
(* runs the same start.                                                    *)
(*                                                                         *)
(* Abstractions: a container is described by the manifest it was created   *)
(* from: the original one, the one with the release's PostgreSQL image     *)
(* pins, or the projected recovery manifest, the only one that mounts the  *)
(* restored data.  The recovery evidence (base backup, etcd snapshot and   *)
(* their receipts) exists and is intact, credentials have not drifted, and *)
(* health probes succeed when the members they need run.                   *)
(***************************************************************************)
EXTENDS Naturals

CONSTANTS
  Writers, Etcd,   \* the PostgreSQL members and the DCS members
  Leader,          \* the PostgreSQL member the base backup is seeded into
  MaxCrashes, MaxFaults, MaxStops   \* bounds

ASSUME MembersAssumption == Leader \in Writers /\ Writers \cap Etcd = {}
ASSUME LimitsAssumption == MaxCrashes \in Nat /\ MaxFaults \in Nat /\ MaxStops \in Nat

Members == Writers \cup Etcd

Phases == {"none", "prepared", "fenced", "activated", "verified", "committed"}
Manifests == {"old", "rolled", "new"}
FileStates == {"none", "torn", "written"}

(* Steps of a recovery while it holds the cutover's own lock file.         *)
CutoverSteps == {"boot", "down", "record", "list", "stop_sql", "stop_dcs", "proven",
                 "check", "activate", "seed", "receipt", "stage", "up_dcs",
                 "quorum", "up_leader", "up_members", "settle", "commit"}
UpdateSteps == {"evidence", "evidence_down", "pin", "roll"}
Steps == {"idle", "prior", "enter"} \cup CutoverSteps \cup UpdateSteps

VARIABLES
  phase,     \* ha-cutover.journal
  lock,      \* ha-cutover.journal.lock exists
  prior,     \* ha-before-cutover.yaml: a manifest, "none" or "torn"
  compose,   \* the managed Compose manifest
  volume,    \* the leader's replacement volume: "empty", "partial" or "seeded"
  receipt,   \* ha-volumes-prepared
  mark,      \* ha-cutover-committed
  fenced,    \* members whose container is in ha-fenced-containers.json
  built,     \* the manifest each member's container was created from
  running,   \* members whose container runs
  isolated,  \* the isolated project runs on the restored etcd directories
  pc,        \* step of the command that holds the Core lifecycle lock
  starter,   \* step of a Core start: "none", "render" or "recreate"
  starterBy, \* who runs it: "core" (`baha up`) or "app" (application apply)
  rewritten, \* history: a start wrote the template over the projected manifest
  crashes, faults, stops   \* against the bounds

files == <<phase, prior, compose, volume, receipt, mark>>
cluster == <<fenced, built, running>>
start == <<starter, starterBy, rewritten>>
vars == <<files, lock, cluster, isolated, pc, start, crashes, faults, stops>>

TypeOK ==
  /\ phase \in Phases /\ lock \in BOOLEAN
  /\ prior \in Manifests \cup {"none", "torn"} /\ compose \in Manifests
  /\ volume \in {"empty", "partial", "seeded"}
  /\ receipt \in FileStates /\ mark \in FileStates
  /\ fenced \subseteq Members /\ running \subseteq Members
  /\ built \in [Members -> Manifests]
  /\ isolated \in BOOLEAN /\ pc \in Steps
  /\ starter \in {"none", "render", "recreate"} /\ starterBy \in {"core", "app"}
  /\ rewritten \in BOOLEAN
  /\ crashes \in 0..MaxCrashes /\ faults \in 0..MaxFaults /\ stops \in 0..MaxStops

(* The update captured its recovery evidence and then failed or was        *)
(* abandoned.                                                              *)
Init ==
  /\ phase = "none" /\ lock = FALSE /\ prior = "none" /\ compose = "old"
  /\ volume = "empty" /\ receipt = "none" /\ mark = "none"
  /\ fenced = {} /\ built = [m \in Members |-> "old"] /\ running = Members
  /\ isolated = FALSE /\ pc = "idle"
  /\ starter = "none" /\ starterBy = "core" /\ rewritten = FALSE
  /\ crashes = 0 /\ faults = 0 /\ stops = 0

-----------------------------------------------------------------------------
(* The cluster as the container runtime changes it.                        *)

OnNew(m) == built[m] = "new"

(* The PostgreSQL image pins are no part of an etcd member's definition.   *)
Definition(m, manifest) == IF manifest = "rolled" /\ m \in Etcd THEN "old" ELSE manifest

(* Compose up of S recreates the containers whose definition changed.      *)
Up(S) ==
  /\ built' = [m \in Members |-> IF m \in S THEN Definition(m, compose) ELSE built[m]]
  /\ running' = running \cup S
  /\ fenced' = {m \in fenced : m \in S => built[m] = Definition(m, compose)}

(* With --force-recreate every container of S is a new one.                *)
ForceUp(S) ==
  /\ built' = [m \in Members |-> IF m \in S THEN Definition(m, compose) ELSE built[m]]
  /\ running' = running \cup S
  /\ fenced' = fenced \ S

Stop(S) == running' = running \ S /\ UNCHANGED <<fenced, built>>

(* Mutant: changed container identities are taken for a fence.             *)
FencedByIdentity == \A m \in running : m \notin fenced

(* VerifyFenced: no running member is in the fence list, and each mounts   *)
(* the restored data.                                                      *)
Fenced == \A m \in running : m \notin fenced /\ OnNew(m)

-----------------------------------------------------------------------------
(* How a command ends.  A deferred remove takes the cutover's lock file    *)
(* away, unless the process dies or the attempt never owned it.            *)

Holds == pc \in CutoverSteps
(* Mutant: the lock file is not removed.                                   *)
LeaveLocked == pc' = "idle" /\ lock' = lock

Leave == pc' = "idle" /\ lock' = (lock /\ ~Holds)
Return == Leave /\ UNCHANGED <<crashes, faults, stops>>
Goto(step) == pc' = step /\ UNCHANGED <<lock, crashes, faults, stops>>

Break ==
  \/ /\ faults < MaxFaults /\ faults' = faults + 1
     /\ Leave /\ UNCHANGED <<crashes, stops>>
  \/ /\ crashes < MaxCrashes /\ crashes' = crashes + 1
     /\ pc' = "idle" /\ UNCHANGED <<lock, faults, stops>>

(* A file written in place: a failed write leaves nothing, a torn file, or *)
(* the whole file whose sync failed.                                       *)
Written(file, next) ==
  \/ file' = "written" /\ Goto(next)
  \/ file' \in FileStates /\ Break

-----------------------------------------------------------------------------
(* The recovery.  It and an update hold the Core lifecycle lock.           *)

Unlocked == pc = "idle" /\ ~ (starter # "none" /\ starterBy = "core")

BeginRecover ==
  /\ Unlocked
  /\ Goto("prior")
  /\ UNCHANGED <<files, cluster, isolated, start>>

(* The manifest before the cutover is saved once; what is active must be   *)
(* that manifest or its projection.                                        *)
Prior ==
  /\ pc = "prior"
  /\ \/ /\ prior = "none" /\ compose # "new"
        /\ \/ prior' = compose /\ Goto("enter")
           \/ prior' \in {"none", "torn", compose} /\ Break
     \/ /\ prior # "none" \/ compose = "new"
        /\ UNCHANGED prior
        /\ \/ IF prior \in Manifests /\ compose \in {prior, "new"}
              THEN Goto("enter") ELSE Return
           \/ Break
  /\ UNCHANGED <<phase, compose, volume, receipt, mark, cluster, isolated, start>>

(* RunVerifiedDCSCutover takes its lock file exclusively and continues     *)
(* from the journaled phase.  The two ambiguous phases are refused.        *)
Enter ==
  /\ pc = "enter"
  /\ \/ lock /\ Return
     \/ /\ ~lock
        /\ UNCHANGED <<crashes, faults, stops>>
        /\ \/ phase \in {"prepared", "verified"} /\ pc' = "idle" /\ lock' = FALSE
           \/ phase = "none" /\ pc' = "boot" /\ lock' = TRUE
           \/ phase \in {"fenced", "activated"} /\ pc' = "check" /\ lock' = TRUE
           \/ phase = "committed" /\ pc' = "quorum" /\ lock' = TRUE
     \/ Break
  /\ UNCHANGED <<files, cluster, isolated, start>>

(* The isolated project is booted on the restored directories.             *)
Boot ==
  /\ pc \in {"boot", "evidence"}
  /\ \/ isolated' = TRUE /\ Goto(IF pc = "boot" THEN "down" ELSE "evidence_down")
     \/ isolated' \in BOOLEAN /\ Break
  /\ UNCHANGED <<files, cluster, start>>

(* ... and torn down by a deferred call, which may fail as well.           *)
Down ==
  /\ pc \in {"down", "evidence_down"}
  /\ \/ isolated' = FALSE /\ Goto(IF pc = "down" THEN "record" ELSE "pin")
     \/ isolated' \in BOOLEAN /\ Break
  /\ UNCHANGED <<files, cluster, start>>

NextPhase ==
  [p \in Phases |-> CASE p = "none" -> "prepared" [] p = "prepared" -> "fenced"
                       [] p = "fenced" -> "activated" [] p = "activated" -> "verified"
                       [] OTHER -> "committed"]
AfterRecord ==
  [p \in Phases |-> CASE p = "none" -> "list" [] p = "prepared" -> "check"
                       [] p = "fenced" -> "quorum" [] p = "activated" -> "commit"
                       [] OTHER -> "idle"]

(* The journal is replaced by rename; only the sync after it may fail.     *)
Record ==
  /\ pc = "record"
  /\ \/ /\ phase' = NextPhase[phase] /\ pc' = AfterRecord[phase]
        /\ lock' = (phase # "verified") /\ UNCHANGED <<crashes, faults, stops>>
     \/ phase' \in {phase, NextPhase[phase]} /\ Break
  /\ UNCHANGED <<prior, compose, volume, receipt, mark, cluster, isolated, start>>

-----------------------------------------------------------------------------
(* FenceOldDCS                                                             *)

ListContainers ==
  /\ pc = "list"
  /\ \/ fenced' = Members /\ Goto("stop_sql")
     \/ fenced' \in {fenced, Members} /\ Break
  /\ UNCHANGED <<files, built, running, isolated, start>>

StopSQL ==
  /\ pc = "stop_sql"
  /\ \/ Stop(Writers) /\ Goto("stop_dcs")
     \/ (\E S \in SUBSET Writers : Stop(S)) /\ Break
  /\ UNCHANGED <<files, isolated, start>>

StopDCS ==
  /\ pc = "stop_dcs"
  /\ \/ running \cap Writers # {} /\ Return /\ UNCHANGED cluster
     \/ running \cap Writers = {} /\ Stop(Etcd) /\ Goto("proven")
     \/ running \cap Writers = {} /\ (\E S \in SUBSET Etcd : Stop(S)) /\ Break
  /\ UNCHANGED <<files, isolated, start>>

(* VerifyFenced closes the fence and opens a resumed attempt.              *)
CheckFence ==
  /\ pc \in {"proven", "check"}
  /\ \/ ~Fenced /\ Return
     \/ Fenced /\ Goto(IF pc = "proven" THEN "record"
                       ELSE IF phase = "activated" THEN "quorum" ELSE "activate")
     \/ Break
  /\ UNCHANGED <<files, cluster, isolated, start>>

-----------------------------------------------------------------------------
(* ActivateIsolated                                                        *)

(* The seed receipt decides whether the replacement volumes are prepared.  *)
Activate ==
  /\ pc = "activate"
  /\ \/ (~Fenced \/ receipt = "torn") /\ Return
     \/ Fenced /\ receipt = "written" /\ Goto("stage")
     \/ Fenced /\ receipt = "none" /\ Goto("seed")
     \/ Break
  /\ UNCHANGED <<files, cluster, isolated, start>>

(* Mutant: a volume with files in it is taken for a seeded one.            *)
SeedUnlessUsed ==
  /\ pc = "seed"
  /\ \/ volume # "empty" /\ Goto("receipt") /\ UNCHANGED volume
     \/ volume = "empty" /\ volume' = "seeded" /\ Goto("receipt")
     \/ volume = "empty" /\ volume' \in {"empty", "partial", "seeded"} /\ Break
  /\ UNCHANGED <<phase, prior, compose, receipt, mark, cluster, isolated, start>>

(* SeedOwnedVolume refuses a volume that is not empty.                     *)
Seed ==
  /\ pc = "seed"
  /\ \/ volume # "empty" /\ Return /\ UNCHANGED volume
     \/ volume = "empty" /\ volume' = "seeded" /\ Goto("receipt")
     \/ volume = "empty" /\ volume' \in {"empty", "partial", "seeded"} /\ Break
  /\ UNCHANGED <<phase, prior, compose, receipt, mark, cluster, isolated, start>>

WriteReceipt ==
  /\ pc = "receipt"
  /\ Written(receipt, "stage")
  /\ UNCHANGED <<phase, prior, compose, volume, mark, cluster, isolated, start>>

(* Mutant: the members are recreated from the manifest as it is.           *)
StageNothing ==
  /\ pc = "stage" /\ Goto("up_dcs")
  /\ UNCHANGED <<files, cluster, isolated, start>>

Stage ==
  /\ pc = "stage"
  /\ \/ compose \notin {prior, "new"} /\ Return /\ UNCHANGED compose
     \/ compose \in {prior, "new"} /\ compose' = "new" /\ Goto("up_dcs")
     \/ compose \in {prior, "new"} /\ compose' \in {compose, "new"} /\ Break
  /\ UNCHANGED <<phase, prior, volume, receipt, mark, cluster, isolated, start>>

UpDCS ==
  /\ pc = "up_dcs"
  /\ \/ ForceUp(Etcd) /\ Goto("record")
     \/ (\E S \in SUBSET Etcd : ForceUp(S)) /\ Break
  /\ UNCHANGED <<files, isolated, start>>

-----------------------------------------------------------------------------
(* VerifyNewQuorum, VerifyPatroniDCS and CommitCutover                     *)

Quorum ==
  /\ pc = "quorum"
  /\ LET ready == \A m \in Etcd : m \in running /\ OnNew(m) IN
       \/ ready /\ Goto("up_leader")
       \/ ~ready /\ Return
       \/ Break
  /\ UNCHANGED <<files, cluster, isolated, start>>

UpLeader ==
  /\ pc = "up_leader"
  /\ \/ ~Fenced /\ Return /\ UNCHANGED cluster
     \/ Fenced /\ Up({Leader}) /\ Goto("up_members")
     \/ Fenced /\ (\E S \in SUBSET {Leader} : Up(S)) /\ Break
  /\ UNCHANGED <<files, isolated, start>>

(* The other members follow once the leader answers as primary.            *)
UpMembers ==
  /\ pc = "up_members"
  /\ \/ Leader \notin running /\ Return /\ UNCHANGED cluster
     \/ Leader \in running /\ Up(Writers) /\ Goto("settle")
     \/ Leader \in running /\ (\E S \in SUBSET Writers : Up(S)) /\ Break
  /\ UNCHANGED <<files, isolated, start>>

(* Patroni's members, SQL and the mounts are verified; a replay of a       *)
(* committed recovery ends here.                                           *)
Settle ==
  /\ pc = "settle"
  /\ \/ ~ (Members \subseteq running /\ Fenced) /\ Return
     \/ Writers \subseteq running /\ Fenced /\ phase = "committed" /\ Return
     \/ Writers \subseteq running /\ Fenced /\ phase # "committed" /\ Goto("record")
     \/ Break
  /\ UNCHANGED <<files, cluster, isolated, start>>

Commit ==
  /\ pc = "commit"
  /\ \/ ~ (Fenced /\ compose = "new") /\ Return /\ UNCHANGED mark
     \/ Fenced /\ compose = "new" /\ Written(mark, "record")
  /\ UNCHANGED <<phase, prior, compose, volume, receipt, cluster, isolated, start>>

-----------------------------------------------------------------------------
(* An update of the same release: it verifies the recovery evidence before *)
(* each member it rolls.  The evidence names the etcd cluster it was taken *)
(* from, so a cluster on restored data is refused before the boot, and a   *)
(* committed recovery gives the update a transaction directory of its own. *)

Unrolled == {w \in Writers : built[w] # "rolled"}

(* Mutant: the evidence is not compared with the live etcd cluster.        *)
BeginUpdateUnattested ==
  /\ Unlocked
  /\ mark = "none" /\ running = Members /\ Unrolled # {}
  /\ Goto("evidence")
  /\ UNCHANGED <<files, cluster, isolated, start>>

BeginUpdate ==
  /\ Unlocked
  /\ mark = "none" /\ running = Members
  /\ \A m \in Members : ~OnNew(m)
  /\ Unrolled # {}
  /\ Goto("evidence")
  /\ UNCHANGED <<files, cluster, isolated, start>>

(* The image pins of the release are staged once the quorum is healthy.    *)
Pin ==
  /\ pc = "pin"
  /\ LET pinned == IF compose = "old" THEN "rolled" ELSE compose IN
       \/ running # Members /\ Return /\ UNCHANGED compose
       \/ running = Members /\ compose' = pinned /\ Goto("roll")
       \/ running = Members /\ compose' \in {compose, pinned} /\ Break
  /\ UNCHANGED <<phase, prior, volume, receipt, mark, cluster, isolated, start>>

(* Every member that remains is verified against the quorum and replaced.  *)
Roll ==
  /\ pc = "roll"
  /\ \/ (running # Members \/ Unrolled = {}) /\ Return /\ UNCHANGED cluster
     \/ /\ running = Members
        /\ \E w \in Unrolled :
             /\ ForceUp({w})
             /\ Goto(IF Unrolled = {w} THEN "idle" ELSE "evidence") \/ Break
     \/ UNCHANGED cluster /\ Break
  /\ UNCHANGED <<files, isolated, start>>

-----------------------------------------------------------------------------
(* Beside them                                                             *)

(* `baha down`, or members that die.  It holds the Target's lock and not   *)
(* the Core lifecycle lock, so a recovery may be under way.                *)
StopCore ==
  /\ stops < MaxStops /\ stops' = stops + 1
  /\ \E S \in SUBSET Members : S # {} /\ Stop(S)
  /\ UNCHANGED <<files, lock, isolated, pc, start, crashes, faults>>

(* `baha up` holds both locks; an application apply runs the same start    *)
(* under the Target's lock only.  Compose up may reach only some members,  *)
(* and the start ends there when OpenBao stays sealed or it fails or dies. *)
StartCore(by) ==
  /\ starter = "none" /\ (by = "core" => Unlocked)
  /\ \/ Up(Members) /\ starter' = "render"
     \/ (\E S \in SUBSET Members : Up(S)) /\ starter' = "none"
  /\ starterBy' = by
  /\ Goto(pc)
  /\ UNCHANGED <<files, isolated, rewritten>>

(* It goes on to reconcile the service access, which writes the manifest   *)
(* from the template, whatever a recovery or an update made of it ...      *)
Render ==
  /\ starter = "render"
  /\ \/ /\ compose' = "old" /\ starter' = "recreate"
        /\ rewritten' = (rewritten \/ compose = "new")
     \/ starter' = "none" /\ UNCHANGED <<compose, rewritten>>
  /\ Goto(pc)
  /\ UNCHANGED <<phase, prior, volume, receipt, mark, cluster, isolated, starterBy>>

(* ... and brings the project up again.                                    *)
Recreate ==
  /\ starter = "recreate"
  /\ \E S \in SUBSET Members : Up(S)
  /\ starter' = "none"
  /\ Goto(pc)
  /\ UNCHANGED <<files, isolated, starterBy, rewritten>>

-----------------------------------------------------------------------------
CutoverStep ==
  \/ Prior \/ Enter \/ Boot \/ Down \/ Record
  \/ ListContainers \/ StopSQL \/ StopDCS \/ CheckFence
  \/ Activate \/ Seed \/ WriteReceipt \/ Stage \/ UpDCS
  \/ Quorum \/ UpLeader \/ UpMembers \/ Settle \/ Commit

UpdateStep == Pin \/ Roll

(* The recovery, the updates and the operator's `baha down` and `baha up`. *)
CutoverNext ==
  \/ BeginRecover \/ BeginUpdate \/ CutoverStep \/ UpdateStep
  \/ StopCore \/ StartCore("core") \/ Render \/ Recreate

CutoverSpec == Init /\ [][CutoverNext]_vars

(* An application apply starts the Core, at any time.                      *)
ApplySpec == Init /\ [][CutoverNext \/ StartCore("app")]_vars

(* A command that runs makes progress: every probe and every call of the   *)
(* container runtime has a deadline.  The operator keeps retrying the      *)
(* recovery.                                                               *)
LiveSpec ==
  /\ CutoverSpec
  /\ WF_vars(CutoverStep \/ UpdateStep)
  /\ WF_vars(Render \/ Recreate)
  /\ SF_vars(BeginRecover)

-----------------------------------------------------------------------------
(* Docs, core-provider-update-v1.md: the recovery "never reactivates both  *)
(* old and new data".  Members on original and members on restored data    *)
(* never run together, whatever step of whatever attempt fails, as long as *)
(* no `baha up` wrote the template over the projected manifest.            *)
OldAndNewApart ==
  ~rewritten => \A m, n \in running : OnNew(m) <=> OnNew(n)

(* From the phase activated on a member runs on the original data again    *)
(* only if a `baha up` has written the template over the projected         *)
(* manifest; no failed attempt, update, stop or partial start does it.     *)
RecoveredStays ==
  phase \in {"activated", "verified", "committed"} /\ (\E m \in running : ~OnNew(m))
    => rewritten

(* The restored leader never runs on a volume that was not seeded          *)
(* completely: one that is empty or half unpacked would be promoted as the *)
(* primary of an empty database.                                           *)
LeaderIsSeeded ==
  Leader \in running /\ OnNew(Leader) => volume = "seeded" /\ receipt = "written"

(* A committed recovery rests on everything its phases wrote: the marker   *)
(* that opens the next transaction directory, the seed receipt, the saved  *)
(* manifest and, until a `baha up` writes over it, the projected one.      *)
CommittedIsComplete ==
  phase = "committed" =>
    /\ mark = "written" /\ receipt = "written" /\ volume = "seeded"
    /\ prior \in Manifests
    /\ compose = "new" \/ rewritten

(* The isolated boot, of a recovery or of an update that verifies its      *)
(* evidence, never starts on directories the active quorum runs on.        *)
IsolatedBootSparesActive ==
  [][isolated' /\ ~isolated => \A m \in running \cap Etcd : ~OnNew(m)]_vars

(* A recovery stops the writers before the DCS: no etcd member is stopped  *)
(* by it while a PostgreSQL member may still accept writes.                *)
WritersStopFirst ==
  [][pc # "idle" /\ pc' # pc /\ ~ (running \cap Etcd \subseteq running')
       => running \cap Writers = {}]_vars

(* The cluster changes sides only as CutoverSides allows.                  *)
Side == INSTANCE CutoverSides WITH
  side <- IF compose = "new" THEN "new" ELSE "old",
  on <- [m \in Members |-> IF m \notin running THEN "off"
                           ELSE IF OnNew(m) THEN "new" ELSE "old"]
SwitchesAtRest == Side!Spec

(* Retries bring a recovery that activated the restored cluster forward,   *)
(* whatever failed before: until an etcd member is stopped, a `baha up`    *)
(* writes the template over the manifest, or a process that died leaves    *)
(* the cutover's lock file behind (an attempt that fails releases it).     *)
RetriesAdvance ==
  (phase = "activated") ~>
    \/ phase # "activated"
    \/ rewritten \/ ~ (Etcd \subseteq running)
    \/ crashes > 0 /\ lock /\ pc = "idle"

(* Stated by the documentation and violated by the model.                  *)

(* "never reactivates both old and new data": `baha up` does.              *)
NeverBoth == \A m, n \in running : OnNew(m) <=> OnNew(n)

(* Only "Ambiguous fencing, partial volume seeding or interrupted commit   *)
(* requires reconciliation", so an activated recovery advances also after  *)
(* a crash.                                                                *)
ActivatedAdvances ==
  (phase = "activated") ~> (phase # "activated" \/ rewritten \/ ~ (Etcd \subseteq running))

=============================================================================
