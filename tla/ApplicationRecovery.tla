------------------------- MODULE ApplicationRecovery -------------------------
(***************************************************************************)
(* Backup and restore of one application: `baha app backup` (which takes   *)
(* no lock), and, under the lifecycle lock of the Target, `baha app        *)
(* restore`, `baha app apply` and `baha app up`.  A backup stops the       *)
(* exposure, the workload and the runtime broker, captures one class of    *)
(* state after the other, writes the archive and starts again what it      *)
(* stopped.  A restore takes the deployment apart, builds it anew, writes  *)
(* the classes of the archive and starts the application.                  *)
(*                                                                         *)
(* The application has every part the manifest can ask for: a managed      *)
(* exposure, a repository workload, a runtime broker, SQL in the shared    *)
(* PostgreSQL provider, secrets, buckets and workload volumes.  What a     *)
(* class holds is a stamp that a write makes new.  The broker writes       *)
(* secrets while it answers; an operation on object storage it journals in *)
(* a volume that no command removes, and the runtime executor, which no    *)
(* backup and no restore stops, carries it out.  Log history is left out:  *)
(* a restore adds to it and replaces nothing.  Encryption, the recovery    *)
(* manifest and the consent of the operator are part of the guards that    *)
(* admit a command; the records of the last backup and restore are left    *)
(* out.                                                                    *)
(* The provider registry keeps naming the shared placement throughout.     *)
(***************************************************************************)
EXTENDS Integers, Sequences, FiniteSets, SequencesExt

CONSTANTS
    Backups,      \* invocations of the backup command, each with its archive
    Kept,         \* those whose archive is kept to be restored
    Declared,     \* the state classes of the application
    Selections,   \* what --include-state and --exclude-state may select, for each
    MaxWrites,    \* bound on stamps
    MaxBreaks     \* bound on steps that fail and processes that die

\* The order in which classes are captured, and restored.
Classes == <<"sql", "secrets", "objects", "storage">>

ASSUME ConstantsOK ==
    /\ IsFiniteSet(Backups) /\ "none" \notin Backups /\ Kept \subseteq Backups
    /\ Declared \subseteq Range(Classes) /\ {"sql", "secrets"} \subseteq Declared
    /\ Selections \in [Backups -> SUBSET SUBSET Declared]
    /\ MaxWrites \in Nat \ {0} /\ MaxBreaks \in Nat

VARIABLES
    up,          \* the parts that run
    operation,   \* the operation in the broker's journal: none, journaled, or
                 \* sent to the executor
    data,        \* what each class holds
    clock,       \* the last stamp
    files,       \* compose.yaml and runtime.env of the deployment
    brokerFiles, \* broker.compose.yaml beside them
    registered,  \* the database and its entry in the shared provider's state
    scope,       \* AppRole and policy in OpenBao
    backup,      \* the backup commands
    archive,     \* their archive files
    cmd,         \* the command that holds the Target's lock
    interrupted, \* the archive whose restore broke off, until one completes
    breaks       \* how often a step failed or a process died

deployment == <<files, brokerFiles, registered, scope>>
appVars == <<up, operation, data, clock, deployment, backup, archive, cmd, interrupted, breaks>>

Empty == 0
Torn == -1
Gone == -2       \* there is no database
Generated == -3  \* the secrets an apply makes up
Parts == {"exposure", "workload", "broker"}
Stamps == {Generated, Gone, Torn, Empty} \cup 1..MaxWrites

\* What resetRestoreTarget erases, whatever the archive holds.
Erased == {"sql", "secrets"}

StopSteps == {"stop exposure", "stop workload", "stop broker"}
StartSteps == {"start broker", "start workload", "start exposure"}
BackupSteps == StopSteps \cup {"capture", "write"} \cup StartSteps
ResetSteps == StopSteps \cup {"release", "unscope", "delete"}
BuildSteps == {"files", "register", "scope"}
ApplySteps == BuildSteps \cup StartSteps
RestoreSteps == ResetSteps \cup ApplySteps \cup {"data", "verify"}

\* The step that follows s in a command, "end" after the last.
After(kind, s) ==
    CASE s = "stop exposure" -> "stop workload"
      [] s = "stop workload" -> "stop broker"
      [] s = "stop broker" -> IF kind = "backup" THEN "capture" ELSE "release"
      [] s = "capture" -> "write"
      [] s = "write" -> "start broker"
      [] s = "release" -> "unscope"
      [] s = "unscope" -> "delete"
      [] s = "delete" -> "files"
      [] s = "files" -> "register"
      [] s = "register" -> "scope"
      [] s = "scope" -> "start broker"
      [] s = "start broker" -> IF kind = "restore" THEN "data" ELSE "start workload"
      [] s = "data" -> "start workload"
      [] s = "start workload" -> "start exposure"
      [] s = "start exposure" -> IF kind = "restore" THEN "verify" ELSE "end"
      [] s = "verify" -> "end"

\* The part a stop or a start step is about.
PartOf(s) == CASE s \in {"stop exposure", "start exposure"} -> "exposure"
               [] s \in {"stop workload", "start workload"} -> "workload"
               [] OTHER -> "broker"

NoCommand == [kind |-> "none", pc |-> "end", of |-> "none", done |-> {}, calm |-> TRUE,
              flight |-> FALSE]

AppTypeOK ==
    /\ up \subseteq Parts
    /\ operation \in {"none", "journaled", "sent"}
    /\ data \in [Declared -> Stamps] /\ clock \in 1..MaxWrites
    /\ {files, brokerFiles, registered, scope} \subseteq BOOLEAN
    /\ \A b \in Backups :
         /\ backup[b].pc \in BackupSteps \cup {"idle", "end", "dead"}
         /\ backup[b].sel \in SUBSET Declared /\ DOMAIN backup[b].got \subseteq backup[b].sel
         /\ backup[b].stopped \subseteq Parts
    /\ archive \in [Backups -> {"none", "torn", "whole"}]
    /\ cmd.kind \in {"none", "restore", "apply"}
    /\ cmd.pc \in RestoreSteps \cup {"end"} /\ (cmd.kind = "apply" => cmd.pc \in ApplySteps)
    /\ cmd.done \subseteq Declared
    /\ interrupted \in Backups \cup {"none"}

AppInit ==
    /\ up = Parts /\ operation = "none"
    /\ data = [c \in Declared |-> 1] /\ clock = 1
    /\ files = TRUE /\ brokerFiles = TRUE /\ registered = TRUE /\ scope = TRUE
    /\ backup = [b \in Backups |->
                   [pc |-> "idle", sel |-> {}, got |-> <<>>, before |-> <<>>,
                    stopped |-> {}, calm |-> TRUE, flight |-> FALSE]]
    /\ archive = [b \in Backups |-> "none"]
    /\ cmd = NoCommand /\ interrupted = "none"
    /\ breaks = 0

-----------------------------------------------------------------------------
(* The application at work.                                                *)

Available(c) == /\ c = "sql" => registered /\ data[c] # Gone
                /\ c = "secrets" => scope /\ files

\* The workload writes; a secret through the broker, which waits for OpenBao.
Write(c) ==
    /\ "workload" \in up /\ (c = "secrets" => "broker" \in up) /\ Available(c)
    /\ data[c] # Torn /\ clock < MaxWrites
    /\ clock' = clock + 1 /\ data' = [data EXCEPT ![c] = clock + 1]
    /\ UNCHANGED <<up, operation, deployment, backup, archive, cmd, interrupted, breaks>>

\* The broker journals an operation on object storage and answers.
Submit ==
    /\ {"workload", "broker"} \subseteq up /\ "objects" \in Declared
    /\ operation = "none" /\ clock < MaxWrites
    /\ operation' = "journaled"
    /\ UNCHANGED <<up, data, clock, deployment, backup, archive, cmd, interrupted, breaks>>

\* The goroutine of the operation, or the one that Resume starts for it when
\* the broker comes up, calls the executor.
Dispatch ==
    /\ "broker" \in up /\ operation = "journaled"
    /\ operation' = "sent"
    /\ UNCHANGED <<up, data, clock, deployment, backup, archive, cmd, interrupted, breaks>>

\* The executor carries it out or fails, whether or not the broker is there to
\* settle it. An unsettled operation is resumed.
Execute ==
    /\ operation = "sent"
    /\ \/ /\ data["objects"] # Torn /\ clock < MaxWrites
          /\ clock' = clock + 1 /\ data' = [data EXCEPT !["objects"] = clock + 1]
       \/ UNCHANGED <<data, clock>>
    /\ operation' = IF "broker" \in up THEN "none" ELSE "journaled"
    /\ UNCHANGED <<up, deployment, backup, archive, cmd, interrupted, breaks>>

-----------------------------------------------------------------------------
(* The effects of a step, whichever command takes it.                      *)

Quiet(b) == backup[b].pc \in StopSteps \cup {"capture"}
Rebuilding == cmd.kind = "restore" /\ cmd.pc \in RestoreSteps \ {"start exposure", "verify"}

\* History: the other backups that stand between their first stop and their
\* last capture when somebody starts a part or replaces data. What there was
\* before is of no interest then.
Disturbed(others) == [b \in Backups |->
    IF b \in others /\ Quiet(b)
    THEN [backup[b] EXCEPT !.calm = FALSE, !.before = <<>>, !.flight = FALSE]
    ELSE backup[b]]

\* A backup whose capture is over: only a whole archive keeps what it holds.
Forget(b, whole, pc) == [backup[b] EXCEPT
    !.pc = pc, !.before = <<>>, !.calm = TRUE, !.flight = FALSE,
    !.sel = IF whole THEN @ ELSE {}, !.got = IF whole THEN @ ELSE <<>>,
    !.stopped = IF pc = "start broker" THEN @ ELSE {}]

\* Mutant: the stop of the broker is not waited for.
HaltButBroker(p) == up' = up \ ({p} \ {"broker"}) /\ UNCHANGED operation

Halt(p) == up' = up \ {p} /\ UNCHANGED operation

Stays == UNCHANGED <<up, operation>>

Break == breaks < MaxBreaks /\ breaks' = breaks + 1

-----------------------------------------------------------------------------
(* Backup.                                                                 *)

BackupIdle == UNCHANGED <<data, clock, files, registered, scope, interrupted>>

\* ExistingRuntimeFiles, verifyDesiredRuntimeServices, CheckApplicationScope
\* and inspectManagedExposure, which probes the workload through its routes.
BeginBackup(b, S) ==
    /\ backup[b].pc = "idle"
    /\ Available("sql") /\ Available("secrets") /\ {"exposure", "workload"} \subseteq up
    /\ backup' = [backup EXCEPT ![b] = [@ EXCEPT !.pc = "stop exposure", !.sel = S]]
    /\ BackupIdle /\ Stays /\ UNCHANGED <<brokerFiles, archive, cmd, breaks>>

\* What a stop notes to be undone: exposure or broker whether or not it worked,
\* the workload if it found containers, which a stopped one may have left.
\* Mutant: the broker is not noted.
NotedButBroker(p) == {{p} \ {"broker"}}
Noted(p) == {{p}} \cup (IF p = "workload" /\ p \notin up THEN {{}} ELSE {})

StopWriter(b) ==
    LET p == PartOf(backup[b].pc)
        last == p = "broker" /\ backup[b].calm
    IN
    /\ backup[b].pc \in StopSteps
    /\ p = "broker" => brokerFiles
    /\ Halt(p)
    /\ \E noted \in Noted(p) :
         backup' = [backup EXCEPT ![b] =
             [@ EXCEPT !.pc = After("backup", backup[b].pc), !.stopped = backup[b].stopped \cup noted,
                       !.before = IF last THEN data ELSE <<>>,
                       !.flight = last /\ operation = "sent"]]
    /\ BackupIdle /\ UNCHANGED <<brokerFiles, archive, cmd, breaks>>

\* A stop that fails, with the part stopped or not: recoverFailure.
StopWriterFails(b) ==
    LET p == PartOf(backup[b].pc) IN
    /\ backup[b].pc \in StopSteps
    /\ \/ Break /\ (Halt(p) \/ Stays)
       \/ p = "broker" /\ ~brokerFiles /\ UNCHANGED breaks /\ Stays
    /\ backup' = [backup EXCEPT ![b] =
           [Forget(b, FALSE, "start broker") EXCEPT
               !.stopped = backup[b].stopped \cup IF p = "workload" /\ up' = up THEN {} ELSE {p}]]
    /\ BackupIdle /\ UNCHANGED <<brokerFiles, archive, cmd>>

Left(b) == backup[b].sel \ DOMAIN backup[b].got
NextClass(todo) == SelectInSeq(Classes, LAMBDA c : c \in todo)

Capture(b) ==
    LET c == Classes[NextClass(Left(b))]
        got == [x \in DOMAIN backup[b].got \cup {c} |-> IF x = c THEN data[c] ELSE backup[b].got[x]]
    IN
    /\ backup[b].pc = "capture" /\ Left(b) # {} /\ Available(c)
    /\ backup' = [backup EXCEPT ![b] =
           [@ EXCEPT !.got = got, !.pc = IF Left(b) = {c} THEN "write" ELSE "capture"]]
    /\ BackupIdle /\ Stays /\ UNCHANGED <<brokerFiles, archive, cmd, breaks>>

CaptureFails(b) ==
    /\ backup[b].pc = "capture"
    /\ \/ Break
       \/ ~Available(Classes[NextClass(Left(b))]) /\ UNCHANGED breaks
    /\ backup' = [backup EXCEPT ![b] = Forget(b, FALSE, "start broker")]
    /\ BackupIdle /\ Stays /\ UNCHANGED <<brokerFiles, archive, cmd>>

\* writeBackupArchive: a failed write removes the file again.
WriteArchive(b) ==
    /\ backup[b].pc = "write"
    /\ \/ archive' = [archive EXCEPT ![b] = IF b \in Kept THEN "whole" ELSE @] /\ UNCHANGED breaks
       \/ Break /\ UNCHANGED archive
    /\ backup' = [backup EXCEPT ![b] = Forget(b, archive'[b] = "whole", "start broker")]
    /\ BackupIdle /\ Stays /\ UNCHANGED <<brokerFiles, cmd>>

\* restartAfterBackup: what was stopped is started; the first failure ends it.
\* A workload that does not get ready is taken down again.
Restart(b) ==
    LET p == PartOf(backup[b].pc)
        next(bs, pc) == [bs EXCEPT ![b] = IF pc = "end" THEN Forget(b, archive[b] = "whole", pc)
                                          ELSE [@ EXCEPT !.pc = pc]]
    IN
    /\ backup[b].pc \in StartSteps
    /\ \/ /\ p \notin backup[b].stopped
          /\ backup' = next(backup, After("backup", backup[b].pc))
          /\ UNCHANGED <<up, brokerFiles, cmd, breaks>>
       \/ /\ p \in backup[b].stopped /\ files
          /\ up' = up \cup {p} /\ brokerFiles' = (brokerFiles \/ p = "broker")
          /\ backup' = next(Disturbed(Backups \ {b}), After("backup", backup[b].pc))
          /\ cmd' = IF Rebuilding THEN [cmd EXCEPT !.calm = FALSE] ELSE cmd
          /\ UNCHANGED breaks
       \/ /\ p \in backup[b].stopped
          /\ \/ ~files /\ UNCHANGED breaks
             \/ Break
          /\ up' \in {up, up \ ({p} \cap {"workload"})}
          /\ backup' = next(backup, "end")
          /\ UNCHANGED <<brokerFiles, cmd>>
    /\ BackupIdle /\ UNCHANGED <<operation, archive>>

\* The process of a backup dies; one that was writing leaves a torn archive.
BackupDies(b) ==
    /\ backup[b].pc \in BackupSteps /\ Break
    /\ backup' = [backup EXCEPT ![b] = Forget(b, archive[b] = "whole", "dead")]
    /\ archive' = IF backup[b].pc = "write" /\ b \in Kept THEN [archive EXCEPT ![b] = "torn"] ELSE archive
    /\ BackupIdle /\ Stays /\ UNCHANGED <<brokerFiles, cmd>>

-----------------------------------------------------------------------------
(* Commands under the lock of the Target.                                  *)

\* The step is done and the command goes on to the next one.
Proceed == cmd' = IF After(cmd.kind, cmd.pc) = "end" THEN NoCommand
                  ELSE [cmd EXCEPT !.pc = After(cmd.kind, @), !.calm = @ \/ cmd.pc = "start workload",
                                   !.flight = /\ cmd.kind = "restore" /\ cmd.pc = "start broker"
                                              /\ cmd.calm /\ operation # "none"]

\* The command ends here, with an error or with its process.
Abandon == /\ cmd' = NoCommand
           /\ interrupted' = IF cmd.kind = "restore" THEN cmd.of ELSE interrupted

\* Only a whole archive opens. A deployment without runtime files is not reset,
\* so a workload that a backup started behind an earlier reset goes on running.
BeginRestore(b) ==
    /\ cmd = NoCommand /\ archive[b] = "whole"
    /\ cmd' = [NoCommand EXCEPT !.kind = "restore", !.of = b, !.calm = files \/ up = {},
                                !.pc = IF files THEN "stop exposure" ELSE "files"]
    /\ Stays /\ UNCHANGED <<data, clock, deployment, backup, archive, interrupted, breaks>>

BeginApply ==
    /\ cmd = NoCommand
    /\ cmd' = [NoCommand EXCEPT !.kind = "apply", !.pc = "files"]
    /\ Stays /\ UNCHANGED <<data, clock, deployment, backup, archive, interrupted, breaks>>

\* `baha app up` builds nothing: it wants the deployment as it was applied,
\* required secrets included, and then starts it as an apply does.
BeginUp ==
    /\ cmd = NoCommand /\ Available("sql") /\ Available("secrets") /\ data["secrets"] # Empty
    /\ cmd' = [NoCommand EXCEPT !.kind = "apply", !.pc = "start broker"]
    /\ Stays /\ UNCHANGED <<data, clock, deployment, backup, archive, interrupted, breaks>>

CmdIdle == UNCHANGED <<clock, archive>>

StopForReset ==
    /\ cmd.pc \in StopSteps
    /\ PartOf(cmd.pc) = "broker" => brokerFiles
    /\ Halt(PartOf(cmd.pc)) /\ Proceed
    /\ CmdIdle /\ UNCHANGED <<data, deployment, backup, interrupted, breaks>>

\* Mutant: the entry goes and the database stays.
ReleasedInName ==
    /\ cmd.pc = "release" /\ Available("sql")
    /\ registered' = FALSE
    /\ UNCHANGED <<data, files, brokerFiles, scope>>

\* ReleaseSharedBackendApplication wants the entry and the database it owns, then
\* DestroyProject, which removes no volume of the broker.
Released ==
    /\ cmd.pc = "release" /\ Available("sql")
    /\ registered' = FALSE /\ data' = [data EXCEPT !["sql"] = Gone]
    /\ UNCHANGED <<files, brokerFiles, scope>>

\* DestroyVerifiedApplicationScope: the secrets, then role and policy.
Descoped ==
    /\ cmd.pc = "unscope" /\ scope
    /\ data' = [data EXCEPT !["secrets"] = Empty]
    /\ UNCHANGED <<files, brokerFiles, registered>>

\* Store.Delete removes the application's directory, metadata included.
Deleted ==
    /\ cmd.pc = "delete"
    /\ files' = FALSE /\ brokerFiles' = FALSE
    /\ UNCHANGED <<data, registered, scope>>

\* What building adds: a database where there is none, and for an apply the
\* secrets that the manifest requires and the scope lacks.
Provided ==
    CASE cmd.pc = "register" /\ data["sql"] = Gone -> [data EXCEPT !["sql"] = Empty]
      [] cmd.kind = "apply" /\ cmd.pc = "scope" /\ data["secrets"] = Empty ->
           [data EXCEPT !["secrets"] = Generated]
      [] OTHER -> data

\* Sync and EnsureRuntime, ReconcileSharedBackends, EnsureApplicationScope.
Built ==
    /\ cmd.pc \in BuildSteps
    /\ files' = (files \/ cmd.pc = "files")
    /\ registered' = (registered \/ cmd.pc = "register")
    /\ scope' = (scope \/ cmd.pc = "scope")
    /\ data' = Provided /\ UNCHANGED brokerFiles

\* A restore wants the new scope to be empty.
Reset ==
    /\ \/ Released
       \/ Descoped /\ scope' = FALSE
       \/ Deleted
       \/ Built /\ (cmd.kind = "restore" /\ cmd.pc = "scope" => data["secrets"] = Empty)
    /\ backup' = IF data' = data THEN backup ELSE Disturbed(Backups)
    /\ Proceed
    /\ CmdIdle /\ Stays /\ UNCHANGED <<interrupted, breaks>>

\* Starting a part that runs changes nothing.
StartPart ==
    LET p == PartOf(cmd.pc) IN
    /\ cmd.pc \in StartSteps
    /\ up' = up \cup {p} /\ brokerFiles' = (brokerFiles \/ p = "broker")
    /\ backup' = IF p \in up THEN backup ELSE Disturbed(Backups)
    /\ Proceed
    /\ CmdIdle /\ UNCHANGED <<operation, data, files, registered, scope, interrupted, breaks>>

Selected == backup[cmd.of].sel
Content == backup[cmd.of].got
Todo == Classes[NextClass(Selected \ cmd.done)]

\* RestoreApplicationSecrets refuses a scope that holds secrets; the database
\* was created empty, volumes and buckets are emptied first.
Writable(c) == Available(c) /\ (c = "secrets" => data[c] = Empty)

RestoreClass ==
    /\ cmd.pc = "data" /\ Writable(Todo)
    /\ data' = [data EXCEPT ![Todo] = Content[Todo]]
    /\ backup' = Disturbed(Backups)
    /\ cmd' = IF Selected = cmd.done \cup {Todo}
              THEN [cmd EXCEPT !.done = {}, !.pc = "start workload"]
              ELSE [cmd EXCEPT !.done = @ \cup {Todo}]
    /\ CmdIdle /\ Stays /\ UNCHANGED <<deployment, interrupted, breaks>>

\* Final status and doctor.
Healthy == up = Parts /\ data["secrets"] # Empty

Verify ==
    /\ cmd.pc = "verify" /\ Healthy
    /\ cmd' = NoCommand /\ interrupted' = "none"
    /\ CmdIdle /\ Stays /\ UNCHANGED <<data, deployment, backup, breaks>>

\* What the code refuses to do in the state it finds.
Refused ==
    \/ cmd.pc = "stop broker" /\ ~brokerFiles
    \/ cmd.pc = "release" /\ ~Available("sql")
    \/ cmd.pc = "unscope" /\ ~scope
    \/ cmd.kind = "restore" /\ cmd.pc = "scope" /\ data["secrets"] # Empty
    \/ cmd.pc = "data" /\ ~Writable(Todo)
    \/ cmd.pc = "verify" /\ ~Healthy

CmdRefused ==
    /\ Refused /\ Abandon
    /\ scope' = (scope \/ cmd.pc = "scope")
    /\ CmdIdle /\ Stays /\ UNCHANGED <<data, files, brokerFiles, registered, backup, breaks>>

\* What a step that broke off may have done: nothing, its work, or half of it.
\* A release drops the database before it writes the state without the entry,
\* ReconcileSharedBackends writes the entry before it creates the database, and
\* secrets are deleted and restored one by one.
Halfway ==
    \/ UNCHANGED <<data, deployment>>
    \/ Released \/ Deleted \/ Built
    \/ Descoped /\ scope' \in BOOLEAN
    \/ /\ cmd.pc = "release" /\ Available("sql")
       /\ data' = [data EXCEPT !["sql"] = Gone] /\ UNCHANGED deployment
    \/ /\ cmd.pc = "register" /\ registered' = TRUE
       /\ UNCHANGED <<data, files, brokerFiles, scope>>
    \/ /\ cmd.pc = "unscope" /\ scope /\ data["secrets"] # Empty
       /\ data' = [data EXCEPT !["secrets"] = Torn] /\ UNCHANGED deployment
    \/ /\ cmd.pc = "scope" /\ scope' = TRUE
       /\ UNCHANGED <<data, files, brokerFiles, registered>>
    \/ /\ cmd.pc = "data" /\ Writable(Todo)
       /\ data' = [data EXCEPT ![Todo] = Torn] /\ UNCHANGED deployment

BreakOff == /\ Halfway /\ Abandon
            /\ backup' = IF data' = data /\ up' \subseteq up THEN backup ELSE Disturbed(Backups)
            /\ CmdIdle

\* A step fails. applyRepositoryWorkload takes down what did not get ready, and
\* a restore tries to stop the workload when its exposure fails.
CmdFails ==
    /\ cmd # NoCommand /\ Break
    /\ LET p == PartOf(cmd.pc) IN
       \/ cmd.pc \in StopSteps /\ Halt(p)
       \/ Stays
       \/ cmd.pc = "start workload" /\ up' = up \ {p} /\ UNCHANGED operation
       \/ /\ cmd.pc = "start exposure" /\ UNCHANGED operation
          /\ \E u \in {up, up \cup {p}} :
               up' = u \/ (cmd.kind = "restore" /\ up' = u \ {"workload"})
    /\ BreakOff

\* The process dies; the kernel releases the lock.
CmdDies ==
    /\ cmd # NoCommand /\ Break
    /\ LET p == PartOf(cmd.pc) IN
       \/ cmd.pc \in StopSteps /\ Halt(p)
       \/ /\ up' \in {up} \cup (IF cmd.pc \in StartSteps THEN {up \cup {p}} ELSE {})
          /\ UNCHANGED operation
    /\ BreakOff

-----------------------------------------------------------------------------
BackupStep(b) == StopWriter(b) \/ StopWriterFails(b) \/ Capture(b) \/ CaptureFails(b)
                 \/ WriteArchive(b) \/ Restart(b)

CmdStep == StopForReset \/ Reset \/ StartPart \/ RestoreClass \/ Verify \/ CmdRefused

AppNext ==
    \/ \E c \in Declared : Write(c)
    \/ Submit \/ Dispatch \/ Execute
    \/ \E b \in Backups :
         \/ \E S \in Selections[b] : BeginBackup(b, S)
         \/ BackupStep(b) \/ BackupDies(b)
         \/ BeginRestore(b)
    \/ BeginApply \/ BeginUp
    \/ CmdStep \/ CmdFails \/ CmdDies

AppSpec == AppInit /\ [][AppNext]_appVars

\* Commands that run go on, and the operator keeps applying the application and
\* retrying the restore.
AppFairSpec ==
    /\ AppSpec
    /\ WF_appVars(CmdStep) /\ SF_appVars(BeginApply)
    /\ \A b \in Backups : WF_appVars(BackupStep(b)) /\ SF_appVars(BeginRestore(b))

-----------------------------------------------------------------------------
(* Properties.                                                             *)

\* An archive holds the state of one instant, the one at which the broker, the
\* last of the writers, was stopped - unless another command started a part or
\* replaced data between the stops and the last capture, and except for the
\* buckets when the executor had an operation in hand at that instant.
ArchiveOfOneInstant ==
    \A b \in Backups : backup[b].pc = "write" /\ backup[b].calm =>
        \A c \in backup[b].sel : \/ backup[b].got[c] = backup[b].before[c]
                                 \/ c = "objects" /\ backup[b].flight

\* A restore, unless a backup started a part in the middle of it, works on a
\* stopped workload, and when it starts the workload every class is what the
\* archive holds, or empty where the reset erased what the archive leaves out -
\* except for the buckets when the broker that the restore starts finds an
\* unsettled operation in its journal.
RestoreIsWhole ==
    cmd.kind = "restore" /\ cmd.calm =>
        /\ cmd.pc \notin {"stop exposure", "stop workload", "start exposure", "verify"}
              => "workload" \notin up
        /\ cmd.pc = "start workload" =>
              \A c \in Selected \cup Erased :
                 \/ data[c] = IF c \in Selected THEN Content[c] ELSE Empty
                 \/ c = "objects" /\ cmd.flight

\* However backups, restores and starts interleave, when all of them have ended
\* and none failed or died the application runs.
ServiceReturns ==
    /\ cmd = NoCommand /\ interrupted = "none" /\ breaks = 0
    /\ \A b \in Backups : backup[b].pc \in {"idle", "end"}
    => up = Parts

\* A restore that broke off is completed by retrying, with an apply where the
\* retry is refused.
RestoreCompletes == interrupted # "none" ~> interrupted = "none"

\* ... and without one: what a broken restore leaves is accepted by the next.
RetryAdmitted == cmd = NoCommand /\ interrupted # "none" /\ files => brokerFiles /\ Available("sql") /\ scope
=============================================================================
