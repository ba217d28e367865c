# BaseHarbor verification project

BaseHarbor (`src/`) is a Go control plane and command line (`baha`) that runs a
*Core* - PostgreSQL, OpenBao and Keycloak, optionally a Patroni/etcd cluster - and
deploys applications on it. This directory holds TLA+ models of the parts of it in
which a wrong order of steps, a crash or a second actor can lose data, the TLC
configurations that check them on small instances, and TLAPS proofs of the main
results for every value of the constants. `PROJECT.json` maps every definition to
the lines it models and lists runs, mutants, hazards, findings and theorems.

## 1. Inventory

### Modelled

**Runtime operations** (`internal/runtimeoperation`, `internal/runtimeresourceapi`).
State: the maps `ops` and `keys` of `Manager`, the journal `operations.json`, one
goroutine per unfinished operation. Operations: `New`/`load`, `Resume`, `Submit`
(with replay by idempotency key), `execute`, `update`; the HTTP handlers decide what
may be submitted. Interacts with the executors (calls that change the outside world)
and with the supervisor that restarts the process. Hard: crashes between the journal
write, the answer and the effect; journal writes that fail, one of which (`update`)
is ignored; executor tables that differ between starts. Correct when: what was
acknowledged survives; a key has one operation and one answer; whatever exists
outside is journaled; a delete cannot be undone by the re-execution of its create;
accepted work is settled in the end.

**Core provider update** (`internal/coreupdate`, `cmd/baha/update_core_native.go`
and the provider adapters). State: the Compose file and its checkpoint, containers
and volumes, recovery points, `journal.json`, `receipts.json`, restore receipts.
Operations: plan, preflight, the resume / execute / rollback loops, and inside them
RecoveryPoint, Apply, Verify, Recover and Record. Interacts with Docker Compose, the
database tools and clients that keep writing. Hard: a failure or crash at every step,
several attempts in sequence, two journals written one after the other, rollback
through a volume shared by all providers, and `baha up` between attempts, which renders
the Compose files from templates that know nothing of the update. Correct when: nothing
is mutated without a complete recovery point; what the journal calls verified runs; the
update itself never leaves an original image on migrated data; accepted writes are only
taken back by a recovery; one provider at a time is interrupted.

**HA point recovery** (`internal/coreupdate/dcs_*.go`, `cmd/baha/update_ha_*.go`,
`update_etcd_*.go`). State: the phase journal and lock file of the cutover, the saved
and the managed Compose manifest, the replacement volume and its receipt, the commit
marker, the list of fenced containers, the containers. Operations: the isolated boot,
fencing, seeding, switching the manifest, bringing up etcd, leader and replicas,
verification and commit; beside it the update of the same release, `baha down`,
`baha up` and an application apply. Hard: each of those may come between any two
steps, and each step may fail or die. Correct when: the recovery never runs original and
restored members together and never undoes itself, the leader only runs on a
completely seeded volume, and a committed recovery is complete.

**Patroni rolling update** (`internal/coreupdate/patroni_*.go`, `stream_recovery.go`,
`cmd/baha/update_patroni_*.go`). State: the member journal, the Compose file and
its checkpoint, base backup and DCS receipt, the members' images and the leader.
Operations: inventory, evidence, stage, recreate replicas, switchover, recreate the old
primary, resume. Patroni elects and restarts on its own. Hard: the leader moves between
a snapshot and its use; a death after the switchover leaves a journal without roles.
Correct when: evidence is of the untouched cluster, one member at a time is down by the
roll, the primary comes last and leadership is switched once, and what can be resumed
completes.

**Credential rotation** (`internal/credential`, the adapters in `objectstorage`,
`application` and `identityprovider`, and the Core's roles in `cmd/baha`). State: journal
and prepared material, what the service accepts, what the consumer is bound to.
Operations: prepare, reconcile, verify, retire, roll back, resume. Hard: every step may
fail or die, and rollback itself has steps. Correct when: the old path works until the
new one is verified, and what the journal calls verified is live.

**Target enrollment** (`internal/targetenrollment`, `internal/database`). State: grants,
the node's row, the certificate overlap, what the issuer signed and revoked. Operations:
create grant, enroll, renew, disconnect, revoke. Hard: two systems without a common
transaction, answers that are lost, requests that race. Correct when: a grant signs once,
nothing unrecorded is handed out, nothing revoked is admitted.

**Target session** (`internal/targetsession`). State: sessions, their slot, the pool.
Operations: serve, negotiate, dispatch, open and read a stream, watch admission. Hard: a
session is chosen under a lock and used outside it, deadlines race answers. Correct when:
an answer is the one to its request, a failed exchange retires its connection, nothing
waits for ever. It works on the registry that enrollment implements.

**Machine operations and terminals** (`internal/machinehttp`). State: an execution with
a bounded history and its subscribers; terminal records, their process, timer and cleanup.
Hard: the history is cut and channels overflow while a follower catches up; attach, input,
close, timer and deadline race. Correct when: a follower reads an ordered history that ends
with the outcome; limits hold, inputs are applied once and in order, every terminal ends.

**Deployment configuration** (`internal/deployment`, `cmd/baha/target_*.go`). State: the
configuration file, the selection, recovery copies, the lock. Operations: create, update,
detach, restore, select, and the saves that compare nothing. Hard: a plan is applied minutes
after it was made; a detach writes three files. Correct when: what is detached is
recoverable, no other entry is lost, and a detach never redirects commands.

**Application backup and restore** (`cmd/baha/app_backup_*.go`, `application_restore_*.go`,
apply and up). State: what runs, what each state class holds, the deployment's files, its
registration and its scope in OpenBao, archives, and the journal of the application's runtime
broker. Hard: the backup takes no lock; a restore takes the deployment apart before it
rebuilds it; the broker's journal survives both, and the executor that carries its
operations out is stopped by neither. Correct when: an archive is of one
instant, a restore starts the workload on exactly what the archive holds, and what was
stopped is started again.

### Not modelled

The reasons per part are in `PROJECT.json`. In short: manifests, Compose and Quadlet
rendering, repository inspection and capability registries are conversions without state;
provider clients, readers of logs, metrics and traces, and the command line's parsing and
output are I/O around calls that are atomic to their callers. They are by far the larger
part of the roughly 170 000 lines, which is why the lines the models translate are a small
share of them. Core installation, operator login, the connectivity relay, the runtime
broker, service certificates and the self update keep state of their own and remain
candidates (section 7).

### Interactions

The control-plane process hosts the operation manager, the machine API and the sessions.
`baha update` and `baha update --recover` run under the Core lifecycle lock
(`coreinstallation/lifecycle_lock.go`), so they exclude each other and themselves; `baha
down` and an application apply hold a Target's lock instead and run beside them; a backup
holds none. Where components interact, one module contains both sides (HACutover: recovery,
update, Core start; ApplicationRecovery: backup, restore, apply) or an abstract module is
the interface: TargetEnrollment implements `NodeRegistry`, and TargetSession starts from it.

## 2. Modules

| module | role |
|---|---|
| `RuntimeOperation` | the operation manager and its handlers |
| `OperationLedger` | abstract: a key goes absent -> accepted -> succeeded/failed and never back |
| `CoreUpdate` | the non-HA provider update |
| `HACutover` | the HA point recovery and what runs beside it |
| `CutoverSides` | abstract: members start on the side the manifest names, which goes over to the restored one only while nothing runs on the original |
| `PatroniRoll` | the rolling update of the three members |
| `CredentialRotation` | nine kinds of credential under one rotation protocol or a loop of their own |
| `TargetEnrollment` | grants and certificates of one Connector node |
| `NodeRegistry` | abstract: a certificate is admitted once, lost for ever, and ends with the node |
| `TargetSession` | sessions, pool, requests and streams over the registry |
| `MachineExecution` | one execution and its followers |
| `MachineTerminal` | terminals of the machine API |
| `TargetConfig` | the configuration file, the selection and recovery copies |
| `ApplicationRecovery` | backup, restore, apply and up of one application |
| `MC*` | the instances TLC checks |
| `*_proofs` | inductive invariants and theorems; `HighAvailability_proofs` is about HACutover and PatroniRoll, `MachineHTTP_proofs` about both modules of the machine API, `Deployment_proofs` about TargetConfig and ApplicationRecovery |

Each module's header states its abstractions, each variable names the file, field or
container state it stands for, and each action the function it translates. Variables
commented as history only record; no guard depends on them. Where two specifications are
proved about in one module, one of them has names of its own (`TerminalSpec`, `AppSpec`,
`RollSpec`, ... beside `Spec`). Definitions that stand beside an action
and say what a bug would do (`SubmitUnjournaled`, `SeedUnlessUsed`, `AnyBytes`,
`HaltButBroker`, ...) are mutants, used to show that a property can fail.

### RuntimeOperation

`ops`, `keys` and `executors` are the fields of `Manager`, `disk` is the journal,
`jobs` the program counter of each goroutine, `world` the resources that exist.
`Start` is `New` with `load`; `ResumeReset` and `ResumeLaunch` are the two journal
writes of `Resume`; `Submit`, `SubmitRejected`, `Reply` and `Replay` are the paths of
`Submit`, with the answer a step of its own so that a crash can come before it;
`Begin`, `Execute`, `Finish` are the goroutine. A journal write is atomic (rename)
and may fail. `acked` is history: what clients were told. Identifiers are never drawn
twice; the executors' effects are idempotent, as
`docs/spec/runtime-provider-contract-v1.md` asks of them. The crash is that of the process: the code does not fsync, and a machine
crash is not modelled.

### CoreUpdate

Providers are `1..N` in plan order; `Native` ones (PostgreSQL) are rolled back through
a volume archive that holds the databases of all, `Bound` ones (OpenBao, Keycloak) by
their adapters. `pc` says where the attempt is: stage, provider, pass (resume or
rollback) and the status to record. An attempt is `BeginAttempt`, `Preflight`,
`ResumeNext`, `ExecuteNext` or `RollbackNext`, and below them the stages of a recovery
(`RecoverStop` ... `Recheck`), of a recovery point (`Quiesce` ... `Seal`), of an apply
(`Checkpoint`, `Stage`, `Start`, `Verify`) and of a record (`Note` for the receipts,
`Log` for the journal). Every stage has the outcomes the code has, partial ones too:
half a volume, a recovery point without its checksum, containers of which some
started. Data is a count of accepted writes and a schema format.

Beside it, clients write to a provider that is up, and between attempts the operator runs
`baha up` (`BeginUp("up")`, `UpStart` ... `UpVerify`: `cmd/baha/runtime_start.go` and
`coreinstallation.Run`, under the same lock): the Core project is started as its file is,
its file is written from the template of the installed executable
(`controlplane/stack.go:204`) and the project brought up again, then the same for the
identity project, and `Ready` is set again when everything answers; it may fail or die at
every step. Pass "apply" is the first part of it, which an application's apply and
doctor's repair run as well. The template names the original images, so it takes back
what an update pinned; `bypassed` is the history of the providers to which it did that, or
whose half restored volume it started, until a recovery settles them. The properties say
what holds of the others; section 4 says what becomes of these.

### HACutover

A container is described by the manifest it was created from (`built`): the original
one, the one with the release's image pins, or the projected recovery manifest, the
only one with restored data. `phase` is the journal, `fenced` the recorded container
identities, which a recreation drops. `BeginRecover` ... `Commit` are the recovery,
`BeginUpdate`, `Pin`, `Roll` an update of the same release, `StopCore` a `baha down`
or dying members. `Break` is a failure or a death at the step. `StartCore`, `Render` and
`Recreate` are the whole of a `baha up`: Compose up as the manifest is, the manifest written
from the template, and Compose up again, each reaching some or all members. `rewritten` is
history: such a start wrote the template over the recovery manifest.

`CutoverNext` has the recovery, the updates, `baha down` and `baha up`; every run and every
theorem is about it. `ApplySpec` adds an application apply, which runs the same start under
another lock and so in the middle of a recovery (Disagreements).

`CutoverSides` is the promise that remains true with `baha up`: nothing is started on a side
the manifest does not name, the manifest goes over to the restored side only while no member
runs on the original data, and only the template takes it back.

### PatroniRoll

`leader`, `up`, `image` and `requested` are Patroni and the runtime; `declared` (the image in
the Compose file), `ckpt`, `base`, `dcs` and `journal` are files; `at`, `lead`, `member` and
`todo` the attempt. `Attempt`
is a step of the roll: inventory and refusals, the two pieces of evidence and the
checkpoint, the stage, then mark, recreate, wait, verify per member, the switchover and its
wait, and the resumption that infers the old primary. `CutShort` and `Timeout` end a step or a wait,
`StopRoll` is a failure or a death anywhere. `Patroni` (elect, rejoin, carry out a requested
switchover), `Failover` and `Flap` are the cluster on its own; `FaultsCease` says that nothing
more goes wrong, which only the liveness property needs.

### CredentialRotation

`kind` picks the adapter. `users` is what the service accepts, `bound` what the consumer
uses, `ident` the file that says which user to retire. `Step` is the rotation: the phases
of `Rotation.Run` with a journal write as read and write, the rollback and its two steps,
and the loops of the Keycloak and Core rotations. `Stop` is a failure or a death, `Lapse`
the end of Keycloak's overlap for an old client secret. The guarantees are stated for
`Sound` keys, since six kinds lose them after an interrupted rollback (the finding below).

### TargetEnrollment and TargetSession

In `TargetEnrollment` a transaction is one step whose answer may be lost: `Create`,
`CreateRenewal`, the steps of `Enroll` (consume, sign, record, hand out, revoke on
failure), `Disconnect`, `RevokeIssued`, `RevokeCertificate`, and time (`Lapse`,
`OverlapEnds`, `Expire`). `TargetSession` has a connection's goroutine (`Connect`, `Serve`,
`Watch`, `Finish`), a caller (`Choose`, `Proceed`, `GiveUp`) and the external Connector
(`Peer`). `Enroll` there is a step of `NodeRegistry`.

### MachineExecution and MachineTerminal

`create`, `start`, progress and `finish` are the execution; `subscribe`, `Serve` and
`Disconnect` a follower. For terminals, `Opening` is the handler that opens one, `Timers`
the unattached timer, `Cleanup` the function that waits for the context, `Deadline` the
session deadline, `Exits` the process; `Arrive`, `Handle`, `Streaming`, `Detach` and
`WriteDeadline` are the requests that attach, send input and close.

### TargetConfig

A command is a process: `Plan` reads the file, `Work` is consent, lock, compare, recovery
copy, selection, replacement, and failure or death before each. `Activate` is the operator
selecting a Target; `Local` is the name "local", which may be selected without a definition.
Kinds `save` and `rollback` write without comparing.

### ApplicationRecovery

`up` are the parts that run, `data` what each class holds as a stamp, `files`,
`brokerFiles`, `registered` and `scope` the deployment. A backup goes through `StopWriter`,
`Capture`, `WriteArchive` and `Restart`, with the failures beside each; the command that
holds the Target's lock goes through `RestoreSteps` or `ApplySteps` (`StopForReset`,
`Reset`, `StartPart`, `RestoreClass`, `Verify`), is refused, fails or dies. `After` is the
order of the steps of all three, `Halfway` what a step that broke off may have done: a
database dropped while its entry stays, an entry without its database, a part of the
secrets. `Gone` is the stamp of a database that does not exist, `Generated` that of the
secrets an apply makes up where the manifest requires them.

The workload writes by itself (`Write`; a secret through the broker, synchronously) and asks
the broker for operations on object storage: `Submit` journals one, `Dispatch` is the
goroutine - the first one, or the one `Resume` starts when the broker comes up again - that
calls the executor, `Execute` is the executor, which changes the buckets whether or not the
broker still runs. The journal is in a volume that neither a stop nor a restore removes.

`calm` and `flight` are history: whether somebody else started a part or replaced data in
between, and whether an operation was in the executor's hands when a backup stopped the
broker, or unsettled when a restore started it.

## 3. Runs

| run | instance | shows | distinct states |
|---|---|---|---|
| `runtime_operation` | 3 identifiers, 4 requests, 2 crashes, 1 failed write | acknowledged work survives and settles, answers agree, refinement of the ledger | 194 058 |
| `core_update` | 3 providers, 1 crash, 1 fault, 1 write each, any number of `baha up` | recovery point before mutation; verified is live and data follows the image unless `baha up` took them back; one interruption at a time | 3 014 769 |
| `ha_cutover` | 2 PostgreSQL, 2 etcd, 1 crash, 2 faults, 2 stops, any number of `baha up` | refinement of CutoverSides, leader seeded, isolated boots spare the active side, recoveries are kept until `baha up` writes over them and are brought forward by retries | 904 076 |
| `patroni_roll` | 3 members, no bound | evidence, journal and order of the roll; what can be resumed completes | 495 288 |
| `credential_rotation` | 1 key of each kind, 3 replacements | the old path is kept, verified is live, retries complete | 19 202 |
| `credential_rotation_unverified` | the same | violated: a retirement takes the credential in use (section 4) | - |
| `target_enrollment` | 3 grants, 2 requests, 3 certificates | certificates accounted for, renewals form one chain, refinement of NodeRegistry | 1 035 552 |
| `target_session` | 2 sessions, 2 callers, capacity 1, 2 calls, streams of 3 | exchanges kept apart, answer or retire, nothing hangs | 139 088 |
| `machine_execution` | 2 followers, 2 streams each, history 2, channel 1, 2 progress reports | streams are faithful, the outcome arrives | 128 115 |
| `machine_terminal` | 2 terminals, 2 requests, limit 1 per actor, 2 inputs | limits, inputs, one attachment; terminals end | 42 097 |
| `target_config` | 2 names, 2 definitions, 2 commands at once, 5 in all | recoverable, others preserved, no hand-off | 2 839 726 |
| `application_recovery` | 2 backups, 3 classes, 1 change, 1 failure or death | archives of one instant, restores are whole, service returns | 3 792 449 |

*Bounds.* `runtime_operation`: two creates share a key for different resources, two create
the same resource under different keys, one deletes it, and of two executor tables one lacks
create. Conflicts are between two operations at most, and the third identifier lets a retry
follow; the second crash reaches the restart that follows an interrupted `Resume`.
`core_update`: a fault and a death may each come anywhere in any attempt, recovery or
`baha up`, the one in what the other led to; a `baha up` may besides fail at each of its
steps without using the bound, and attempts and starts are not bounded. `ha_cutover`: a leader, a replica and
two etcd members, so that "some members" and "the other side" exist. `patroni_roll`: `VerifyPatroniQuorum`
accepts exactly three members. `credential_rotation`: one rotation after a failed one after
a completed one. `target_enrollment`: enrollment, renewal and one more, with two requests
presenting one token. `target_session`: a pool that is full with one session, so that the
second connection replaces or is refused, and two callers that want the same one.
`machine_*`: histories, channels and limits are smaller than what happens, so cutting, loss
and refusal all occur. `target_config`: five commands are a detach whose plan is outlived by
a change, a detach and a restore by others. `application_recovery`: one backup is only there
to interfere - it is of the database, and its archive is not kept -, the other leaves the
database out, so that a class that is restored, one that is emptied first and one that is
only erased all occur; the one change is by the workload or by an operation, before, between
or after the stops of either, which is what the properties tell apart. The
safety results of all runs are also proved for every value of the constants (section 5), so
the bounds limit only what is said of liveness.

*Deadlock* is checked where the system goes on for ever (`core_update`, `ha_cutover`,
`patroni_roll`). Elsewhere the instance ends when identifiers, calls, commands or
replacements are used up.

*Fairness.* RuntimeOperation: the supervisor restarts the process, Go schedules the
goroutines, executors answer (their client gives up after 30 seconds); nothing is assumed of
clients. HACutover `LiveSpec`: a command that runs makes progress,
its probes and runtime calls having deadlines, and the operator keeps retrying the recovery -
strong fairness, since a start or an update may hold the lock in between; nothing is assumed
of `baha up` but that one which runs ends. PatroniRoll: an attempt's steps, the timeouts of its waits, and
Patroni's elections, rejoins and requested switchovers; completion is claimed only from
`calm`. CredentialRotation: a running command goes on and a failed rotation is run again.
TargetSession: the goroutines of a connection, its admission ticker, and a caller's steps and
deadline; nothing of the Connector. MachineExecution: the execution's goroutine, whose
context has a deadline, and followers that read; the stream's own deadline is left out, so
that the outcome has to arrive without it, and the final event is not lost on the wire. MachineTerminal: handlers, timers and cleanup;
the session deadline is assumed only in the part of the property that names it. CoreUpdate,
TargetEnrollment, TargetConfig and ApplicationRecovery are checked for safety only; their
`OperatorSpec` and `AppFairSpec` (the operator keeps trying, and each stage of `baha up` goes
through again and again) are for the liveness questions of section 4.

*Mutants.* Each property of a passing run has one: a plausible bug of the code it is about,
under which TLC finds it violated.

## 4. Findings and disagreements

### Finding

`credential_rotation_unverified`: for RabbitMQ, MongoDB, Valkey, platform buckets and
Keycloak's administrator and client secret, a rollback that was interrupted after it bound
the old credential leaves a journal from which a retry records VERIFIED, and retires the
credential in use. `credential/rotation.go:13` says retirement "runs only after successful
verification". Application buckets, signing keys and the Core's roles compare the binding and
are safe.

### Disagreements

Places where a comment or document promises more than the code keeps. Each has a definition
in its module; set the named specification and property in the run's configuration to see
the trace.

| module, specification | property | the code | the text |
|---|---|---|---|
| CoreUpdate, `Spec` | `RecoveryPointIsCurrent` | a retry reuses an archive taken before later writes (`volume_recovery.go:64`) | `volume_recovery.go:42` "deliberately rejects pre-existing recovery points" |
| CoreUpdate, `Spec` | `RestoreSparesSettled` | a recovery completed by the resume loop is not journaled (`execution_journal.go:47`) and is repeated by the next attempt, losing writes accepted in between | `journal.go:13` "progress after each successful transition" |
| CoreUpdate, `Spec` | `SuccessMeansSettled` | the no-change path reports success over an interrupted entry (`update_core_native.go:481`) | `execution_journal.go:10` "NEVER skipped" |
| CoreUpdate, `Spec` | `OriginalRunsOwnFormat` | the second rollback in one release finds the first one's receipt and restores nothing (`update_provider_sql_backup.go:427`); needs `MaxFaults = 2` | `docs/explanation/providers.md:135` |
| CoreUpdate, `OperatorSpec` | `InterruptedSettles` | an interrupted provider that runs the pinned image already is no change, and its recovery is refused on every attempt (`execution_journal.go:47`) | `docs/spec/core-provider-update-v1.md:29` "Resume incomplete owned state idempotently" |
| HACutover, `LiveSpec` | `ActivatedAdvances` | the `O_EXCL` lock file survives a process that dies; every retry is refused (`dcs_cutover.go:159`) | the same spec, line 38, and `lifecycle_lock.go:9` |
| HACutover, `CutoverSpec` | `NeverBoth` | `baha up` renders the template over the recovery manifest and recreates members on original data, some beside restored ones (`stack.go:204`) | the same spec, line 38, "never reactivates both old and new data" |
| HACutover, `ApplySpec` | `OldAndNewApart` | an application apply, under another lock, starts the fenced cluster between the fence check and the switch (`app_core_requirement.go:205`); `SwitchesAtRest` and `IsolatedBootSparesActive` fail as well, `LeaderIsSeeded` holds | the same spec, lines 36 and 38 |
| CredentialRotation, `Spec` | `RollbackRestores` | a death between `Journal.Clear` (`rotation.go:82`) and the removal of the state file (`objectstorage/credential_rotation.go:157`) lets the next rollback use the material of a finished rotation | `rotation.go:129` |
| CredentialRotation, `Spec`, two keys | `PathKept` | two rotations read, change and write one journal file without a lock (`rotation_journal.go:51`) | - |
| ApplicationRecovery, `AppSpec` | `RetryAdmitted` | a restore that broke off after the release, or before the broker's files were written again, or that dropped the database and not its entry (`shared_backends_resources_runtime.go:484`), is refused until an apply has rebuilt the deployment (`runtimebroker/broker.go:120`) | `application_restore_identity.go:57` "retains its generated deployment identity for retry" |

Others have no property of their own.

*`baha up` in the middle of an update* (`CoreUpdate`). A verified provider goes back to its
original image, over data the pinned image migrated, while the journal keeps calling it
verified. The next attempt plans it again, but `ExecuteJournaled` verifies it as done instead
of updating it: of a bound provider this check fails, of PostgreSQL the attempt goes on and
the final verification fails, each time. With a later provider interrupted, the Compose file
no longer matches that one's checkpoint, and its recovery is refused. None of these updates
can finish. An application's apply that ends between the rendering and the recreation leaves
pinned containers over an original Compose file, which the no-change path reports as success.
And a volume that a restore left half way is started like any other. `bypassed` marks all of these.

*`baha up` after a cutover* (`HACutover`). Besides running both sides, the retry of the
recovery, which finds the projected manifest gone, may start the leader on the original data
beside restored etcd members, and never finishes. `rewritten` marks these.

*Idempotency keys* (`RuntimeOperation`). The key leaves the resource's name out
(`manager.go:320`): one that is used again for another resource is answered with the first
operation.

*Credential rotation.* `PathKept` and `VerifiedIsLive` are stated for rotations that began
without leftover material (`Sound`); a client secret whose one day of overlap
(`keycloak_client_secret_policy.go:34`) ends before a retry can neither be completed nor begun
anew (`keycloak_secret_rotation_driver.go:112` and 66), and `Lapse` marks such a key.

*Backups without a lock* (`ApplicationRecovery`). Another backup that starts what this one had
stopped, or an apply, may let writers run during a capture
(`docs/reference/backup-and-restore.md`: "quiesces the repository workload"), and a backup may
start the workload in the middle of a restore (line 54 there: "while the workload is
stopped"); `calm` marks these.

*Operations that outlive the stop* (`ApplicationRecovery`). A backup stops the broker and not
the runtime executor: an operation in its hands changes buckets during the capture. A restore
removes the volumes of the application's module and not the broker's journal
(`DestroyProject`), and the broker it starts before it writes the data (`bound_runtime.go:110`)
resumes operations accepted after the backup was taken. Buckets made at run time and declared
ones share the names of `PhysicalBucketName`, so the restored ones may be meant. `flight` marks
both.

*A blocked selection* (`TargetConfig`). After a Target was restored, the selection a detach
blocked ("!detached:", `target_selection_mutation.go:28`) stays blocked until the operator
selects again: a failure to resolve, never another Target.

## 5. Proofs

Fifty-five theorems over 320 lemmas, in eight modules (the manifest lists the forty-four
that are results and leaves out intermediate ones), of the form `Spec => []Inv`,
`Spec => [][A]_vars` or a refinement, for every value of the constants under the named
assumptions: requests have their four fields; "no identifier" is none, and "nothing" or a
blocked selection is told apart from every name; at most one native provider; the leader is
a writer, and writers and etcd members are disjoint; a history holds at least one event, and
a stream has at least its "ready"; the sets of names, tokens, sessions and terminals are not
empty (a record at rest names one of them); an application declares its database and its
secrets, and no backup is called "none"; bounds are naturals. The bounds on crashes,
faults, calls, commands, replacements, writes and certificates are parameters, so the results hold for any number
of them. Each inductive invariant was checked by TLC on the instance of its run before it
was proved.

*RuntimeOperation_proofs.* `IInv`: memory and journal hold the same operations under
the same requests; where they disagree on a state, memory is ahead, never on an
outcome the journal already holds; `keys` is exactly the index of `ops`; goroutines
belong to unfinished operations. Without the second part `DeleteSettlesItsCreate` is
not inductive: `update` ignores a failed write, and it is the whole-snapshot write of
the delete that carries the create's outcome to disk. Results: type correctness,
`AckedIsDurable`, `OneOperationPerKey`, `EffectsAreJournaled`,
`DeleteSettlesItsCreate`, `AnswersAgree`, and the refinement of `OperationLedger`.

*CoreUpdate_proofs.* The invariant is built in layers: `PlaceInv` (which pass and
provider belong to a stage), `JournalInv` (what the journal says while a provider is
mutated, recovered or recorded), `ImageInv` (which images stand where a record is about
to be written), `OrderInv` (the providers before the current one are verified, those
after it untouched), `TornInv` (only `baha up` starts half restored data), `PointInv` (a
recovery point was taken before its provider was migrated, and archives never hold
torn data), `FormatInv` (the native provider's data follows its image). Plan order is
what makes the shared volume safe: restoring PostgreSQL's archive takes back the
databases of the others, which is only right while none of them has been migrated.
What `baha up` may have done enters as `bypassed`: outside it `ImageInv`, `TornInv` and
`FormatInv` hold, and the stages of a recovery restore them for the provider at hand before
`Recheck` takes it out. A torn volume belongs to the interrupted native provider, and
`TornInv` says where an attempt may stand while there is one: every path either restores it
again first or ends.
Results: type correctness, the four properties of the run,
that the journal never runs ahead of the receipts (`JournalFollowsReceipts`) and that
accepted writes are only taken back for an interrupted provider
(`RewindOnlyInterrupted`).

*HighAvailability_proofs, HACutover.* All of it is about `CutoverSpec`, the whole `baha up`
included. `SideInv`: the manifest decides the side - until it is written over, no container
was ever built on restored data before the switch; while it names the restored side, every
running one is. `SwitchInv`: between the fence check and the switch nothing runs on the
original data, and the phases agree with the manifest unless it was written over. `SeedInv`:
the receipt vouches for the volume and the manifest, or its having been written over, for the
receipt. `MarkInv`: the marker precedes the phase. `StartInv`: a `baha up` has the lifecycle
lock to itself, which is what an application apply has not. Results: type correctness,
`OldAndNewApart`, `LeaderIsSeeded`, `CommittedIsComplete`, `RecoveredStays`,
`IsolatedBootSparesActive`, `WritersStopFirst`, and the refinement of `CutoverSides`
(`SwitchesAtRest`). Only `OldAndNewApart`, `RecoveredStays` and the manifest's part of
`CommittedIsComplete` depend on no template having been written; the refinement, the seeded
leader and the isolated boot hold whatever `baha up` did.

*HighAvailability_proofs, PatroniRoll.* The module has no constants - `VerifyPatroniQuorum`
demands three members - and TLC visits every state of it, so the proof adds the reason rather
than instances. `EvidenceInv`: no step past the stage without all evidence, and a cluster that
was touched has it, so what is missing can only be taken of an untouched one. `AtInv`: the mode
and the journal entry of the member at each step. `OrderInv`: while replicas are rolled the
expected leader is unrecorded, afterwards every member but the one at hand is verified.
`MarkedInv`: when all members are recorded, one of them was recorded as the primary, and that
one's peers are verified; this is why `resumePatroniAfterSwitchover`, which sees states and no
roles, is right about the old primary, and why no attempt switches leadership a second time.
`TakenInv`: before a recreation everything the roll took down has come back. Results: type
correctness, `EvidencePredatesRoll`, `JournalAgrees`, `RollInOrder`.

*TargetEnrollment_proofs.* `SignInv`: a grant pays for one signature, so the request that may
still sign is the only one with its consumed token. `SerialInv`: every serial anyone holds,
carries or revokes was signed, and one request has it. `LineageInv`: what the overlap and the
chain of predecessors name was recorded. `PlaceInv`: what the store knows of a certificate at
each step of its request. `IssuerInv`: until the node is revoked the issuer revokes only what
nobody has; without it `HeldIsRecorded` says nothing of the certificate that was signed and
could not be recorded. Results: type correctness, `CertificatesAccounted`, `RenewalsFormAChain`
(the transaction that records a renewal wants the certificate its grant names to be current
still, so one renewal of it goes through), and the refinement of `NodeRegistry`
(`ImplementsRegistry`): a commit of the store is one step of the registry, and what happens
between signing and recording is a stutter.

*TargetSession_proofs.* `IdInv`: calls in progress have identifiers of their own, and the slot
of a session carries that of the call that uses it or of one that is over. That last part is
what makes the deferred release of a finished call harmless to its successor. `EventInv`: the
caller has been handed exactly the events its stream counted. `SeenInv`: a certificate that a
connection was made with does not become admitted again. `LateInv`: after the one request
written after a revocation no call is past its check. Results: type correctness,
`ExchangesApart` and the action property `AnswerOrRetire`. The module's registry is
`NodeRegistry`, which TargetEnrollment is proved to implement, so what is proved of sessions
relies on nothing else of the store.

*MachineHTTP_proofs, MachineExecution.* `HistoryInv`: the history is the newest events, numbered up to
`nextSeq`, and only the last carries the outcome. `FollowInv`: what a follower has, what it
copied under the lock and what waits in its channel are one increasing sequence that misses
nothing but the events dropped from a full channel. The property speaks of what the client
has read; only the concatenation of the three is inductive, since every write moves an event
from one part to the next. Results: type correctness and `StreamsAreFaithful`.

*MachineHTTP_proofs, MachineTerminal.* `LifeInv`: a terminal has its record until its PTY is closed, whoever
ends it, which is why counting records bounds PTYs. `BoundInv`: what `reserve` counts.
`LockInv` and `InputInv`: one request at a time is past `record.mu`, and while the terminal
lives every consumed number but that of this request has reached the process. `AttachInv`: one
stream per attached record. Results: type correctness and `TerminalSafety` (limits, inputs in
order, one attachment).

*Deployment_proofs, TargetConfig.* A command acts on a file it read before the operator's consent.
`LockInv`: who is past the lock holds it. `PlanInv`: what the plan found. `CompareInv`: a
command that compared still has the file it planned on. `CopyInv` and `SelectInv`: a detach
past its copy has the copy, and past its selection has it blocked. Results: type correctness,
`DetachedIsRecoverable`, and the action properties `OthersPreserved` and `NoSilentHandoff`.

*Deployment_proofs, ApplicationRecovery.* `BackupAt`: between its stop of the broker and its
last capture an undisturbed backup has workload and broker stopped and data as it was, but for
buckets under an operation that was in the executor's hands at that stop (`flight`); only a
complete capture becomes a whole archive. That the broker goes last is what makes this
inductive: once it is down no journaled operation can be sent. `DeploymentInv`: without an entry
there is no database and without a scope no secret, and without files neither entry nor scope, so a restore that begins on a half-deleted deployment, whatever
broke off before it, still starts on empty classes. `RestoreInv`: what is restored, and what is
still empty, at each step of an undisturbed restore, and that no operation is left unless the
broker found one. `ServiceInv`: while nothing failed,
whoever stopped a part has the step that starts it ahead (`Ahead`); several may have stopped
the same part, and each start discharges only its own. Results: type correctness,
`ArchiveOfOneInstant`, `RestoreIsWhole`, `ServiceReturns`, for any number of backups, any
selections, and any number of writes, failures and deaths.

*CredentialRotation_proofs.* The invariant is one of each key. `ControlAt`: which journal entry
belongs to a step, and which one it is about to write. `NumberAt`: a replacement is newer than
what it replaces, so retiring the one never removes the other. `MaterialAt`: whoever is past
its preparation has material. `PathAt`: what the service accepts and what the consumer is
bound to at each entry - in `OldAt` until a verified retirement, in `NewAt` from the
reconciliation on, in `UndoAt` through a rollback; `OnceAt` and `IssuedAt` say when material of
a finished rotation may be met again, which is where the kinds differ. Results: type
correctness for any keys; `PathKept` and `VerifiedIsLive` under `Alone`, which says of the
initial state that no two keys share a journal file. Every instance with one key satisfies it,
and so do any number of Keycloak's and of the Core's rotations, which have files of their own.
Without it the theorem is false: two rotations over one file lose each other's entries
(section 4).

*Only model-checked:* liveness everywhere, since liveness under fairness is outside the
prover, and the violated property, for which a trace is the evidence. `RestoreCompletes` of ApplicationRecovery
(a restore that broke off is completed by retries and applies) was checked under `AppFairSpec`
with one backup (73 492 states); with two the state graph is too large for a liveness check
of a few minutes.

## 6. Not modelled inside the modelled parts

- RuntimeOperation: machine crashes and file-system durability; the contents of results and
  bindings.
- CoreUpdate: the version classification of the plan (a provider is changed or not),
  checksums and signatures of evidence, `RunNativeProviderUpdates`, which no command calls,
  and the HA branch. The templates are those of the installed executable throughout: replacing
  the executable between attempts is not modelled. Of `baha up`, a truncated `os.WriteFile` of
  the rendered file, the bootstrap's `DownProject` and the resumption of a credential rotation
  are left out. An application's apply, doctor's repair, `openbao unseal` and `bootstrap` and
  the rotation of the PKI run the same materialisation under the Target's lock only; they are
  modelled between attempts (pass "apply") and not in the middle of one.
- HACutover: the capture of base backup and etcd snapshot, the transaction directory opened
  after a commit, the journal of the Patroni roll (`Roll` replaces one member at a time; the
  roll itself is PatroniRoll), and what two etcd processes do on one directory when the
  isolated project is left running at activation, which etcd's own lock decides.
- PatroniRoll: an inspection that sees members at different instants; replication lag other
  than its presence.
- CredentialRotation: rotation of certificate authorities; the several users of one rotation
  are one credential.
- TargetSession: the limit of concurrent connections, the input side of terminal streams, and a
  Connector that skips an event's number (`Emit` repeats or withholds events, it skips none).
- MachineExecution: a final event lost on the wire, and the deadline of a stream.
- TargetConfig: access entries, hand edits, the Target's own lifecycle lock.
- ApplicationRecovery: log history, archive formats, consent, the records of the last backup
  and restore, the other providers an apply converges, more than one operation in the broker's
  journal at a time, and the effect of an operation on a bucket other than making it new.

## 7. Plan

1. `HACutover` with the roll of `PatroniRoll` in place of `Roll`, so that a recovery meets
   every state a broken roll leaves.
2. Core installation (bootstrap of SQL, Secrets and Identity with its record), service
   certificates and the self update, which persist state between steps; then the connectivity
   relay's bounds and the operator's session file.

Conventions: constants with named assumptions, one action per operation, invariants as
conjunctions of named parts, no RECURSIVE operators.
