-------------------------- MODULE RuntimeOperation --------------------------
(***************************************************************************)
(* The durable runtime operation manager of the Core runtime               *)
(* (internal/runtimeoperation), driven by the resource API                 *)
(* (internal/runtimeresourceapi) and started by                            *)
(* internal/controlplaneruntime.  Applications ask for a resource to be    *)
(* created or deleted under an idempotency key; the manager journals the   *)
(* operation in operations.json, answers, and executes it in a goroutine.  *)
(*                                                                         *)
(* The process may crash between any two file-system effects and is        *)
(* started again, possibly with another set of executors.  Any write of    *)
(* the journal may fail (full disk, permissions).  The journal is replaced *)
(* by rename, so a failed or interrupted write leaves the old contents.    *)
(* The crash modelled is the crash of the process, not of the machine: the *)
(* code does not fsync.                                                    *)
(***************************************************************************)
EXTENDS Naturals, FiniteSets

CONSTANTS
  Ids,           \* identifiers newID can draw (128 random bits: never twice)
  Requests,      \* the requests clients send
  ExecutorSets,  \* the executor tables a start may be configured with
  NoId,          \* "" : the missing entry of Manager.keys
  MaxCrashes,    \* bound on process crashes
  MaxFaults      \* bound on failed writes of the journal

Kinds == {"runtime.create", "runtime.delete"}

ASSUME RequestsAssumption ==
  \A r \in Requests : /\ DOMAIN r = {"capability", "operation", "resource", "key"}
                      /\ r.operation \in Kinds
ASSUME IdsAssumption == NoId \notin Ids
ASSUME ExecutorsAssumption ==
  ExecutorSets \subseteq SUBSET {<<r.capability, r.operation>> : r \in Requests}
ASSUME BoundsAssumption == MaxCrashes \in Nat /\ MaxFaults \in Nat

(* executorKey: which executor serves a request.                           *)
ExecutorKey(r) == <<r.capability, r.operation>>

(* idempotencyKey: the application is fixed by the handler.  The resource  *)
(* name is not part of it.                                                 *)
IdempotencyKey(r) == <<r.capability, r.operation, r.key>>

IdemKeys == {IdempotencyKey(r) : r \in Requests}
ResourceOf(r) == <<r.capability, r.resource>>
Resources == {ResourceOf(r) : r \in Requests}

States == {"pending", "running", "succeeded", "failed"}
Unfinished == {"pending", "running"}
Terminal == {"succeeded", "failed"}

Operation == [state : States, req : Requests]
Absent == [state |-> "absent"]

VARIABLES
  phase,     \* "down", "loaded" (New returned), "reset" (inside Resume), "up"
  executors, \* Manager.executors: executor keys with an executor
  ops,       \* Manager.ops
  keys,      \* Manager.keys
  disk,      \* operations.json
  jobs,      \* the goroutine of each operation, by its program counter
  world,     \* resources that exist at the providers
  crashes,   \* crashes so far
  faults,    \* failed journal writes so far
  acked      \* history: the operation each idempotency key was answered with

vars == <<phase, executors, ops, keys, disk, jobs, world, crashes, faults, acked>>

(* "submitted": Submit returned from persistLocked, has not replied.       *)
(* "queued": execute not begun.  "calling": inside executor.Execute.       *)
(* "done", "erred": Execute returned, final update pending.                *)
JobStates == {"none", "submitted", "queued", "calling", "done", "erred"}

TypeOK ==
  /\ phase \in {"down", "loaded", "reset", "up"}
  /\ executors \in SUBSET {ExecutorKey(r) : r \in Requests}
  /\ ops \in [Ids -> Operation \cup {Absent}]
  /\ keys \in [IdemKeys -> Ids \cup {NoId}]
  /\ disk \in [Ids -> Operation \cup {Absent}]
  /\ jobs \in [Ids -> JobStates]
  /\ world \in SUBSET Resources
  /\ crashes \in 0..MaxCrashes
  /\ faults \in 0..MaxFaults
  /\ acked \in [IdemKeys -> Ids \cup {NoId}]

NoOps == [i \in Ids |-> Absent]
NoJobs == [i \in Ids |-> "none"]
NoKeys == [k \in IdemKeys |-> NoId]

Init ==
  /\ phase = "down"
  /\ executors = {}
  /\ ops = NoOps
  /\ keys = NoKeys
  /\ disk = NoOps
  /\ jobs = NoJobs
  /\ world = {}
  /\ crashes = 0
  /\ faults = 0
  /\ acked = NoKeys

(* Mutant: the write carries only the operation that changed.              *)
SnapshotOne(old, new, id) == [old EXCEPT ![id] = new[id]]

-----------------------------------------------------------------------------
(* persistLocked: the file written is a snapshot of every operation in     *)
(* memory, not only of the one that changed.                               *)
Snapshot(old, new, id) == new

(* A write of operations.json, for the change of id, that succeeds ...     *)
Persisted(new, id) ==
  /\ disk' = Snapshot(disk, new, id)
  /\ UNCHANGED faults

(* ... or fails, leaving the previous file.                                *)
PersistFails ==
  /\ faults < MaxFaults
  /\ faults' = faults + 1
  /\ UNCHANGED disk

(* Mutant: load forgets the idempotency index.                             *)
IndexForgotten(o, k) == NoId

(* The index load rebuilds from the operations of the file.                *)
IndexOf(o, k) ==
  IF \E i \in Ids : o[i] # Absent /\ IdempotencyKey(o[i].req) = k
  THEN CHOOSE i \in Ids : o[i] # Absent /\ IdempotencyKey(o[i].req) = k
  ELSE NoId

(* New and load.                                                           *)
Start ==
  /\ phase = "down"
  /\ phase' = "loaded"
  /\ executors' \in ExecutorSets
  /\ ops' = disk
  /\ keys' = [k \in IdemKeys |-> IndexOf(disk, k)]
  /\ UNCHANGED <<disk, jobs, world, crashes, faults, acked>>

(* Mutants: Resume resets every operation, or none.                        *)
ResetEvery(o) ==
  [i \in Ids |-> IF o[i] # Absent
                 THEN [state |-> "pending", req |-> o[i].req] ELSE o[i]]
ResetNone(o) == o

(* Process memory after the process ended.                                 *)
LoseMemory ==
  /\ phase' = "down"
  /\ executors' = {}
  /\ ops' = NoOps
  /\ keys' = NoKeys
  /\ jobs' = NoJobs

ResetUnfinished(o) ==
  [i \in Ids |-> IF o[i].state \in Unfinished
                 THEN [state |-> "pending", req |-> o[i].req] ELSE o[i]]

(* The first half of Resume: every unfinished operation becomes pending    *)
(* again.  An error of the write ends the start.                           *)
ResumeReset ==
  /\ phase = "loaded"
  /\ \/ /\ phase' = "reset"
        /\ ops' = ResetUnfinished(ops)
        /\ disk' = ResetUnfinished(ops)
        /\ UNCHANGED <<executors, keys, jobs, faults>>
     \/ /\ PersistFails
        /\ LoseMemory
  /\ UNCHANGED <<world, crashes, acked>>

Supported(r) == ExecutorKey(r) \in executors

FailUnsupported(o) ==
  [i \in Ids |-> IF o[i].state = "pending" /\ ~Supported(o[i].req)
                 THEN [state |-> "failed", req |-> o[i].req] ELSE o[i]]

(* The second half: pending operations without an executor fail, the       *)
(* others get a goroutine.                                                 *)
ResumeLaunch ==
  /\ phase = "reset"
  /\ \/ /\ phase' = "up"
        /\ ops' = FailUnsupported(ops)
        /\ disk' = FailUnsupported(ops)
        /\ jobs' = [i \in Ids |-> IF FailUnsupported(ops)[i].state = "pending"
                                  THEN "queued" ELSE "none"]
        /\ UNCHANGED <<executors, keys, faults>>
     \/ /\ PersistFails
        /\ LoseMemory
  /\ UNCHANGED <<world, crashes, acked>>

-----------------------------------------------------------------------------
(* FindResource, which Handler.delete calls first (resourceRequest): a     *)
(* succeeded create of the resource must be known.                         *)
FindResource(res) ==
  \E i \in Ids : /\ ops[i].state = "succeeded"
                 /\ ops[i].req.operation = "runtime.create"
                 /\ ResourceOf(ops[i].req) = res

(* Handler.create and Handler.delete call Submit only for these requests.  *)
MaySubmit(r) ==
  /\ phase = "up"
  /\ r.operation = "runtime.delete" => FindResource(ResourceOf(r))
  /\ Supported(r)

(* Mutant: Submit ignores the error of its journal write.                  *)
SubmitUnjournaled(r, id) ==
  /\ MaySubmit(r)
  /\ keys[IdempotencyKey(r)] = NoId
  /\ ops[id] = Absent /\ disk[id] = Absent
  /\ LET new == [ops EXCEPT ![id] = [state |-> "pending", req |-> r]] IN
       /\ Persisted(new, id) \/ PersistFails
       /\ ops' = new
  /\ keys' = [keys EXCEPT ![IdempotencyKey(r)] = id]
  /\ jobs' = [jobs EXCEPT ![id] = "submitted"]
  /\ UNCHANGED <<phase, executors, world, crashes, acked>>

(* Submit of a new key: journal first, under the lock.                     *)
Submit(r, id) ==
  /\ MaySubmit(r)
  /\ keys[IdempotencyKey(r)] = NoId
  /\ ops[id] = Absent /\ disk[id] = Absent
  /\ LET new == [ops EXCEPT ![id] = [state |-> "pending", req |-> r]] IN
       /\ Persisted(new, id)
       /\ ops' = new
  /\ keys' = [keys EXCEPT ![IdempotencyKey(r)] = id]
  /\ jobs' = [jobs EXCEPT ![id] = "submitted"]
  /\ UNCHANGED <<phase, executors, world, crashes, acked>>

(* Submit whose journal write fails: the entry is taken back from memory   *)
(* and the client gets an error.                                           *)
SubmitRejected(r) ==
  /\ MaySubmit(r)
  /\ keys[IdempotencyKey(r)] = NoId
  /\ PersistFails
  /\ UNCHANGED <<phase, executors, ops, keys, jobs, world, crashes, acked>>

(* Submit after the unlock: start the goroutine and answer the client.     *)
Reply(id) ==
  /\ jobs[id] = "submitted"
  /\ jobs' = [jobs EXCEPT ![id] = "queued"]
  /\ acked' = [acked EXCEPT ![IdempotencyKey(ops[id].req)] = id]
  /\ UNCHANGED <<phase, executors, ops, keys, disk, world, crashes, faults>>

(* Submit of a known key: the existing operation is the answer.            *)
Replay(r) ==
  /\ MaySubmit(r)
  /\ keys[IdempotencyKey(r)] # NoId
  /\ acked' = [acked EXCEPT ![IdempotencyKey(r)] = keys[IdempotencyKey(r)]]
  /\ UNCHANGED <<phase, executors, ops, keys, disk, jobs, world, crashes, faults>>

-----------------------------------------------------------------------------
(* update: change the operation in memory and write the journal; an error  *)
(* of the write is ignored.                                                *)
Update(id, state) ==
  LET new == [ops EXCEPT ![id] = [state |-> state, req |-> ops[id].req]] IN
    /\ ops' = new
    /\ Persisted(new, id) \/ PersistFails

(* execute up to the call of the executor.                                 *)
Begin(id) ==
  /\ jobs[id] = "queued"
  /\ Update(id, "running")
  /\ jobs' = [jobs EXCEPT ![id] = "calling"]
  /\ UNCHANGED <<phase, executors, keys, world, crashes, acked>>

(* What a call of an executor does at the provider: creates are upserts,   *)
(* deletes tolerate a missing resource.                                    *)
Effect(r) == IF r.operation = "runtime.create"
             THEN world \cup {ResourceOf(r)}
             ELSE world \ {ResourceOf(r)}

(* Executor.Execute: success, an error before the effect or an error after *)
(* it (a lost answer).                                                     *)
Execute(id) ==
  /\ jobs[id] = "calling"
  /\ \/ /\ world' = Effect(ops[id].req)
        /\ jobs' = [jobs EXCEPT ![id] = "done"]
     \/ /\ world' \in {world, Effect(ops[id].req)}
        /\ jobs' = [jobs EXCEPT ![id] = "erred"]
  /\ UNCHANGED <<phase, executors, ops, keys, disk, crashes, faults, acked>>

(* execute after the call: record the outcome.                             *)
Finish(id) ==
  /\ \/ jobs[id] = "done" /\ Update(id, "succeeded")
     \/ jobs[id] = "erred" /\ Update(id, "failed")
  /\ jobs' = [jobs EXCEPT ![id] = "none"]
  /\ UNCHANGED <<phase, executors, keys, world, crashes, acked>>

(* The process dies; a call in flight may already have had its effect,     *)
(* which is Execute followed by Crash.                                     *)
Crash ==
  /\ phase # "down"
  /\ crashes < MaxCrashes
  /\ crashes' = crashes + 1
  /\ LoseMemory
  /\ UNCHANGED <<disk, world, faults, acked>>

Next ==
  \/ Start
  \/ ResumeReset
  \/ ResumeLaunch
  \/ \E r \in Requests, id \in Ids : Submit(r, id)
  \/ \E r \in Requests : SubmitRejected(r)
  \/ \E id \in Ids : Reply(id)
  \/ \E r \in Requests : Replay(r)
  \/ \E id \in Ids : Begin(id)
  \/ \E id \in Ids : Execute(id)
  \/ \E id \in Ids : Finish(id)
  \/ Crash

Spec == Init /\ [][Next]_vars

(* The supervisor restarts the process, goroutines are scheduled, and      *)
(* executors answer.                                                       *)
Fairness ==
  /\ WF_vars(Start) /\ WF_vars(ResumeReset) /\ WF_vars(ResumeLaunch)
  /\ \A id \in Ids : /\ WF_vars(Reply(id)) /\ WF_vars(Begin(id))
                     /\ WF_vars(Execute(id)) /\ WF_vars(Finish(id))

FairSpec == Spec /\ Fairness

-----------------------------------------------------------------------------
(* An answered key names an operation of the journal that carries that     *)
(* key: a client that polls after a crash finds what it was promised       *)
(* (Submit replies after persistLocked, load restores).                    *)
AckedIsDurable ==
  \A k \in IdemKeys : acked[k] # NoId =>
    /\ disk[acked[k]] # Absent
    /\ IdempotencyKey(disk[acked[k]].req) = k

(* The journal never holds two operations for one idempotency key, however *)
(* often the client retried around crashes and failed writes (Submit's     *)
(* check of Manager.keys, the rollback after a failed write, load).        *)
OneOperationPerKey ==
  \A i, j \in Ids :
    /\ disk[i] # Absent
    /\ disk[j] # Absent
    /\ IdempotencyKey(disk[i].req) = IdempotencyKey(disk[j].req)
    => i = j

(* Write-ahead: whatever exists at a provider has its create operation in  *)
(* the journal, so a crash cannot orphan it (Submit journals before it     *)
(* starts execute).                                                        *)
EffectsAreJournaled ==
  \A res \in world :
    \E i \in Ids : /\ disk[i] # Absent
                   /\ disk[i].req.operation = "runtime.create"
                   /\ ResourceOf(disk[i].req) = res

(* Once a delete is journaled, the create it was admitted by is settled on *)
(* disk and has no goroutine, so no restart executes that create again and *)
(* brings the resource back.  The outcome of the create may have been lost *)
(* by an ignored write error; it is the whole-snapshot write of Submit     *)
(* that makes it durable together with the delete.                         *)
DeleteSettlesItsCreate ==
  \A d \in Ids : disk[d] # Absent /\ disk[d].req.operation = "runtime.delete" =>
    \E c \in Ids : /\ disk[c].state = "succeeded"
                   /\ disk[c].req.operation = "runtime.create"
                   /\ ResourceOf(disk[c].req) = ResourceOf(disk[d].req)
                   /\ jobs[c] = "none"

(* Every answer to a key, first or replayed, before or after restarts,     *)
(* names the same operation (docs/reference/runtime-resource-api.md: "the  *)
(* same logical request must resolve to the same operation").              *)
AnswersAgree == [][\A k \in IdemKeys : acked[k] # NoId => acked'[k] = acked[k]]_acked

(* Unfinished work is reconciled after restart: an answered operation is   *)
(* eventually settled for good, although update ignores write errors and   *)
(* a crash may set it back to pending.                                     *)
AckedSettles ==
  \A k \in IdemKeys : (acked[k] # NoId) ~>
    [](phase = "up" /\ acked[k] # NoId /\ ops[acked[k]].state \in Terminal)

-----------------------------------------------------------------------------
(* The ledger the journal implements: one entry for each idempotency key.  *)
LedgerOf(o, k) ==
  LET mine == {i \in Ids : o[i] # Absent /\ IdempotencyKey(o[i].req) = k}
      state == o[CHOOSE i \in mine : TRUE].state
  IN  IF mine = {} THEN "absent" ELSE IF state \in Terminal THEN state ELSE "accepted"

Ledger == INSTANCE OperationLedger
            WITH Keys <- IdemKeys, ledger <- [k \in IdemKeys |-> LedgerOf(disk, k)]

(* The journal refines the ledger: an accepted key is never forgotten and  *)
(* a durable outcome never changes, through crashes, failed writes and     *)
(* changed executor tables.                                                *)
ImplementsLedger == Ledger!Spec

=============================================================================
