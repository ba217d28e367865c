----------------------- MODULE RuntimeOperation_proofs -----------------------
(***************************************************************************)
(* Proofs about RuntimeOperation, for every set of requests, identifiers   *)
(* and executor tables and for any number of crashes and failed writes.    *)
(*                                                                         *)
(* The inductive invariant relates memory and journal.  They hold the same *)
(* operations; they may disagree on a state only where memory is ahead (a  *)
(* write of update failed), never on an outcome the journal already holds. *)
(***************************************************************************)
EXTENDS RuntimeOperation, TLAPS

(* A process that is down has no memory, and goroutines run only when up.  *)
DownIsEmpty ==
  /\ phase = "down" => ops = NoOps /\ keys = NoKeys
  /\ phase # "up" => jobs = NoJobs

(* Memory and journal hold the same operations ...                         *)
SameOperations ==
  phase # "down" => \A i \in Ids :
    /\ ops[i] = Absent <=> disk[i] = Absent
    /\ ops[i] # Absent => ops[i].req = disk[i].req

(* ... and memory respects the outcomes of the journal.                    *)
MemoryIsAhead ==
  phase # "down" => \A i \in Ids : disk[i].state \in Terminal => ops[i] = disk[i]

(* Manager.keys is the index of Manager.ops.                               *)
IndexIsExact ==
  phase # "down" =>
    /\ \A k \in IdemKeys : keys[k] # NoId =>
         ops[keys[k]] # Absent /\ IdempotencyKey(ops[keys[k]].req) = k
    /\ \A i \in Ids : ops[i] # Absent => keys[IdempotencyKey(ops[i].req)] = i

(* A goroutine belongs to an unfinished operation.                         *)
JobsAreUnfinished ==
  \A i \in Ids : jobs[i] # "none" => ops[i].state \in Unfinished

(* The durable part of DeleteSettlesItsCreate.                             *)
DeleteHasCreate ==
  \A d \in Ids : disk[d] # Absent /\ disk[d].req.operation = "runtime.delete" =>
    \E c \in Ids : /\ disk[c].state = "succeeded"
                   /\ disk[c].req.operation = "runtime.create"
                   /\ ResourceOf(disk[c].req) = ResourceOf(disk[d].req)

IInv ==
  /\ TypeOK
  /\ DownIsEmpty
  /\ SameOperations
  /\ MemoryIsAhead
  /\ IndexIsExact
  /\ JobsAreUnfinished
  /\ OneOperationPerKey
  /\ AckedIsDurable
  /\ EffectsAreJournaled
  /\ DeleteHasCreate

-----------------------------------------------------------------------------
(* Facts about the records of the journal.                                 *)
LEMMA OperationFacts ==
  ASSUME NEW o \in Operation \cup {Absent}
  PROVE  /\ o = Absent <=> o \notin Operation
         /\ o = Absent <=> o.state = "absent"
         /\ o # Absent => /\ o.state \in States
                          /\ o.req \in Requests
                          /\ IdempotencyKey(o.req) \in IdemKeys
                          /\ ResourceOf(o.req) \in Resources
BY DEF Operation, Absent, States, IdemKeys, Resources

(* load: the index it rebuilds is exact when keys are unique on disk.      *)
LEMMA IndexFacts ==
  ASSUME NEW o \in [Ids -> Operation \cup {Absent}],
         NEW k \in IdemKeys
  PROVE  /\ IndexOf(o, k) \in Ids \cup {NoId}
         /\ IndexOf(o, k) # NoId => /\ o[IndexOf(o, k)] # Absent
                                   /\ IdempotencyKey(o[IndexOf(o, k)].req) = k
         /\ \A i \in Ids : o[i] # Absent /\ IdempotencyKey(o[i].req) = k
                           => /\ IndexOf(o, k) # NoId
                              /\ IndexOf(o, k) \in Ids
<1>1. CASE \E i \in Ids : o[i] # Absent /\ IdempotencyKey(o[i].req) = k
  <2> DEFINE P(i) == o[i] # Absent /\ IdempotencyKey(o[i].req) = k
  <2>1. PICK i \in Ids : P(i)
    BY <1>1
  <2>2. (CHOOSE j \in Ids : P(j)) \in Ids /\ P(CHOOSE j \in Ids : P(j))
    BY <2>1, Zenon
  <2>3. IndexOf(o, k) = CHOOSE j \in Ids : P(j)
    BY <1>1 DEF IndexOf
  <2> QED
    BY <2>2, <2>3, IdsAssumption
<1>2. CASE ~ \E i \in Ids : o[i] # Absent /\ IdempotencyKey(o[i].req) = k
  BY <1>2 DEF IndexOf
<1> QED
  BY <1>1, <1>2

(* A goroutine exists only while the process is up.                        *)
LEMMA JobsMeanUp ==
  ASSUME DownIsEmpty, NEW id \in Ids, jobs[id] # "none"
  PROVE  phase = "up"
BY DEF DownIsEmpty, NoJobs

(* A write that keeps every operation and its request, and every success,  *)
(* keeps the promises made on the journal.                                 *)
LEMMA JournalKept ==
  ASSUME TypeOK, disk' \in [Ids -> Operation \cup {Absent}],
         \A i \in Ids : disk'[i] = Absent <=> disk[i] = Absent,
         \A i \in Ids : disk[i] # Absent => disk'[i].req = disk[i].req,
         \A i \in Ids : disk[i].state = "succeeded" => disk'[i] = disk[i],
         UNCHANGED <<world, acked>>
  PROVE  /\ OneOperationPerKey => OneOperationPerKey'
         /\ AckedIsDurable => AckedIsDurable'
         /\ EffectsAreJournaled => EffectsAreJournaled'
         /\ DeleteHasCreate => DeleteHasCreate'
<1>1. OneOperationPerKey => OneOperationPerKey'
  BY DEF OneOperationPerKey
<1>2. AckedIsDurable => AckedIsDurable'
  BY DEF AckedIsDurable, TypeOK
<1>3. EffectsAreJournaled => EffectsAreJournaled'
  BY DEF EffectsAreJournaled
<1>4. DeleteHasCreate => DeleteHasCreate'
  <2> SUFFICES ASSUME DeleteHasCreate, NEW d \in Ids, disk'[d] # Absent,
                      disk'[d].req.operation = "runtime.delete"
               PROVE  \E c \in Ids :
                        /\ disk'[c].state = "succeeded"
                        /\ disk'[c].req.operation = "runtime.create"
                        /\ ResourceOf(disk'[c].req) = ResourceOf(disk'[d].req)
    BY DEF DeleteHasCreate
  <2>1. PICK c \in Ids : /\ disk[c].state = "succeeded"
                         /\ disk[c].req.operation = "runtime.create"
                         /\ ResourceOf(disk[c].req) = ResourceOf(disk[d].req)
    BY DEF DeleteHasCreate
  <2> WITNESS c \in Ids
  <2> QED
    BY <2>1
<1> QED
  BY <1>1, <1>2, <1>3, <1>4

(* update keeps the invariant when it moves an unfinished operation and    *)
(* the goroutine that calls it ends, or the operation stays unfinished.    *)
LEMMA UpdateKeepsIInv ==
  ASSUME IInv, NEW id \in Ids, NEW s \in States, NEW j \in JobStates,
         jobs[id] # "none", Update(id, s),
         jobs' = [jobs EXCEPT ![id] = j],
         j # "none" => s \in Unfinished,
         UNCHANGED <<phase, executors, keys, world, crashes, acked>>
  PROVE  IInv'
<1> USE OperationFacts
<1>0. phase = "up" /\ ops[id].state \in Unfinished
  BY JobsMeanUp DEF IInv, JobsAreUnfinished
<1>1. /\ ops[id] \in Operation
      /\ [state |-> s, req |-> ops[id].req] \in Operation
  BY <1>0 DEF IInv, TypeOK, Unfinished, Operation
<1>2. /\ ops' = [ops EXCEPT ![id] = [state |-> s, req |-> ops[id].req]]
      /\ ops' \in [Ids -> Operation \cup {Absent}]
      /\ \A i \in Ids : ops'[i] = Absent <=> ops[i] = Absent
      /\ \A i \in Ids : ops[i] # Absent => ops'[i].req = ops[i].req
      /\ \A i \in Ids : i # id => ops'[i] = ops[i]
      /\ ops'[id].state = s
  BY <1>1 DEF Update, IInv, TypeOK
<1>3. disk' = ops' \/ disk' = disk
  BY DEF Update, Persisted, Snapshot, PersistFails
<1>4. disk[id].state \notin Terminal
  BY <1>0 DEF IInv, MemoryIsAhead, Unfinished, Terminal
<1>5. /\ \A i \in Ids : disk'[i] = Absent <=> disk[i] = Absent
      /\ \A i \in Ids : disk[i] # Absent => disk'[i].req = disk[i].req
      /\ \A i \in Ids : disk[i].state \in Terminal => disk'[i] = disk[i]
      /\ disk' \in [Ids -> Operation \cup {Absent}]
  BY <1>0, <1>2, <1>3, <1>4 DEF IInv, TypeOK, SameOperations, MemoryIsAhead
<1>6. faults' \in 0..MaxFaults
  BY BoundsAssumption DEF Update, Persisted, PersistFails, IInv, TypeOK
<1>7. TypeOK'
  BY <1>2, <1>5, <1>6 DEF IInv, TypeOK
<1>8. DownIsEmpty'
  BY <1>0 DEF DownIsEmpty
<1>9. SameOperations'
  BY <1>0, <1>2, <1>5 DEF IInv, SameOperations
<1>10. MemoryIsAhead'
  BY <1>0, <1>2, <1>3, <1>4 DEF IInv, MemoryIsAhead
<1>11. IndexIsExact'
  BY <1>0, <1>2 DEF IInv, TypeOK, IndexIsExact
<1>12. JobsAreUnfinished'
  BY <1>2 DEF IInv, TypeOK, JobsAreUnfinished
<1>13. OneOperationPerKey' /\ AckedIsDurable' /\ EffectsAreJournaled' /\ DeleteHasCreate'
  BY <1>5, JournalKept DEF IInv, Terminal
<1> QED
  BY <1>7, <1>8, <1>9, <1>10, <1>11, <1>12, <1>13 DEF IInv

(* The end of the process keeps the invariant.                             *)
LEMMA LoseMemoryKeepsIInv ==
  ASSUME IInv, LoseMemory, crashes' \in 0..MaxCrashes, faults' \in 0..MaxFaults,
         UNCHANGED <<disk, world, acked>>
  PROVE  IInv'
<1>1. TypeOK'
  BY DEF IInv, TypeOK, LoseMemory, NoOps, NoKeys, NoJobs, JobStates
<1>2. DownIsEmpty' /\ SameOperations' /\ MemoryIsAhead' /\ IndexIsExact'
  BY DEF LoseMemory, DownIsEmpty, SameOperations, MemoryIsAhead, IndexIsExact
<1>3. JobsAreUnfinished'
  BY DEF LoseMemory, NoJobs, JobsAreUnfinished
<1>4. OneOperationPerKey' /\ AckedIsDurable' /\ EffectsAreJournaled' /\ DeleteHasCreate'
  BY DEF IInv, OneOperationPerKey, AckedIsDurable, EffectsAreJournaled, DeleteHasCreate
<1> QED
  BY <1>1, <1>2, <1>3, <1>4 DEF IInv

(* A rewrite of memory and journal by Resume keeps the invariant.          *)
LEMMA ResumeKeepsIInv ==
  ASSUME IInv, phase # "down", phase' # "down", phase' \in {"reset", "up"},
         NEW new \in [Ids -> Operation \cup {Absent}],
         \A i \in Ids : new[i] = Absent <=> ops[i] = Absent,
         \A i \in Ids : ops[i] # Absent => new[i].req = ops[i].req,
         \A i \in Ids : ops[i].state \in Terminal => new[i] = ops[i],
         ops' = new, disk' = new,
         jobs' \in [Ids -> JobStates],
         phase' = "reset" => jobs' = NoJobs,
         \A i \in Ids : jobs'[i] # "none" => new[i].state \in Unfinished,
         UNCHANGED <<executors, keys, world, crashes, faults, acked>>
  PROVE  IInv'
<1> USE OperationFacts
<1>1. /\ \A i \in Ids : disk'[i] = Absent <=> disk[i] = Absent
      /\ \A i \in Ids : disk[i] # Absent => disk'[i].req = disk[i].req
      /\ \A i \in Ids : disk[i].state \in Terminal => disk'[i] = disk[i]
  BY DEF IInv, TypeOK, SameOperations, MemoryIsAhead
<1>2. TypeOK'
  BY DEF IInv, TypeOK
<1>3. DownIsEmpty' /\ SameOperations' /\ MemoryIsAhead' /\ JobsAreUnfinished'
  BY DEF DownIsEmpty, SameOperations, MemoryIsAhead, JobsAreUnfinished
<1>4. IndexIsExact'
  BY DEF IInv, TypeOK, IndexIsExact
<1>5. OneOperationPerKey' /\ AckedIsDurable' /\ EffectsAreJournaled' /\ DeleteHasCreate'
  BY <1>1, JournalKept DEF IInv, Terminal
<1> QED
  BY <1>2, <1>3, <1>4, <1>5 DEF IInv

LEMMA InitIInv == Init => IInv
BY BoundsAssumption, IdsAssumption
DEF Init, IInv, TypeOK, NoOps, NoKeys, NoJobs, JobStates, DownIsEmpty,
    SameOperations, MemoryIsAhead, IndexIsExact, JobsAreUnfinished,
    OneOperationPerKey, AckedIsDurable, EffectsAreJournaled, DeleteHasCreate, Absent

LEMMA StepIInv == IInv /\ [Next]_vars => IInv'
<1> SUFFICES ASSUME IInv, [Next]_vars PROVE IInv'
  OBVIOUS
<1> USE OperationFacts, IdsAssumption, BoundsAssumption
<1>1. ASSUME Start PROVE IInv'
  <2>1. \A k \in IdemKeys : keys'[k] = IndexOf(disk, k) /\ keys'[k] \in Ids \cup {NoId}
    BY <1>1, IndexFacts DEF Start, IInv, TypeOK
  <2>2. TypeOK'
    BY <1>1, <2>1, ExecutorsAssumption DEF Start, IInv, TypeOK, ExecutorKey
  <2>3. DownIsEmpty' /\ SameOperations' /\ MemoryIsAhead' /\ JobsAreUnfinished'
    BY <1>1 DEF Start, IInv, DownIsEmpty, SameOperations, MemoryIsAhead,
                JobsAreUnfinished, NoJobs
  <2>4. ASSUME NEW k \in IdemKeys, keys'[k] # NoId
        PROVE  ops'[keys'[k]] # Absent /\ IdempotencyKey(ops'[keys'[k]].req) = k
    BY <1>1, <2>1, <2>4, IndexFacts DEF Start, IInv, TypeOK
  <2>5. ASSUME NEW i \in Ids, ops'[i] # Absent
        PROVE  keys'[IdempotencyKey(ops'[i].req)] = i
    <3> DEFINE k == IdempotencyKey(disk[i].req)
    <3>1. k \in IdemKeys /\ disk[i] # Absent /\ ops' = disk
      BY <1>1, <2>5 DEF Start, IInv, TypeOK
    <3>2. /\ IndexOf(disk, k) \in Ids /\ disk[IndexOf(disk, k)] # Absent
          /\ IdempotencyKey(disk[IndexOf(disk, k)].req) = k
      BY <3>1, IndexFacts DEF IInv, TypeOK
    <3>3. IndexOf(disk, k) = i
      BY <3>1, <3>2 DEF IInv, OneOperationPerKey
    <3> QED
      BY <2>1, <3>1, <3>3
  <2>6. IndexIsExact'
    BY <2>4, <2>5 DEF IndexIsExact
  <2>7. OneOperationPerKey' /\ AckedIsDurable' /\ EffectsAreJournaled' /\ DeleteHasCreate'
    BY <1>1 DEF Start, IInv, OneOperationPerKey, AckedIsDurable,
                EffectsAreJournaled, DeleteHasCreate
  <2> QED
    BY <2>2, <2>3, <2>6, <2>7 DEF IInv
<1>2. ASSUME ResumeReset PROVE IInv'
  <2>1. CASE PersistFails /\ LoseMemory
    BY <1>2, <2>1, LoseMemoryKeepsIInv DEF ResumeReset, PersistFails, IInv, TypeOK
  <2>2. CASE ~(PersistFails /\ LoseMemory)
    <3> DEFINE new == ResetUnfinished(ops)
    <3>1. /\ new \in [Ids -> Operation \cup {Absent}]
          /\ \A i \in Ids : new[i] = Absent <=> ops[i] = Absent
          /\ \A i \in Ids : ops[i] # Absent => new[i].req = ops[i].req
          /\ \A i \in Ids : ops[i].state \in Terminal => new[i] = ops[i]
      BY DEF ResetUnfinished, IInv, TypeOK, Operation, Absent, States, Unfinished, Terminal
    <3>2. jobs = NoJobs /\ NoJobs \in [Ids -> JobStates]
      BY <1>2 DEF ResumeReset, IInv, DownIsEmpty, NoJobs, JobStates
    <3> QED
      BY <1>2, <2>2, <3>1, <3>2, ResumeKeepsIInv DEF ResumeReset, NoJobs
  <2> QED
    BY <2>1, <2>2
<1>3. ASSUME ResumeLaunch PROVE IInv'
  <2>1. CASE PersistFails /\ LoseMemory
    BY <1>3, <2>1, LoseMemoryKeepsIInv DEF ResumeLaunch, PersistFails, IInv, TypeOK
  <2>2. CASE ~(PersistFails /\ LoseMemory)
    <3> DEFINE new == FailUnsupported(ops)
    <3>1. /\ new \in [Ids -> Operation \cup {Absent}]
          /\ \A i \in Ids : new[i] = Absent <=> ops[i] = Absent
          /\ \A i \in Ids : ops[i] # Absent => new[i].req = ops[i].req
          /\ \A i \in Ids : ops[i].state \in Terminal => new[i] = ops[i]
      BY DEF FailUnsupported, IInv, TypeOK, Operation, Absent, States, Terminal
    <3>2. /\ jobs' \in [Ids -> JobStates]
          /\ \A i \in Ids : jobs'[i] # "none" => new[i].state \in Unfinished
      BY <1>3, <2>2 DEF ResumeLaunch, JobStates, Unfinished
    <3> QED
      BY <1>3, <2>2, <3>1, <3>2, ResumeKeepsIInv DEF ResumeLaunch
  <2> QED
    BY <2>1, <2>2
<1>4. ASSUME NEW r \in Requests, NEW id \in Ids, Submit(r, id) PROVE IInv'
  <2> DEFINE op == [state |-> "pending", req |-> r]
             new == [ops EXCEPT ![id] = op]
  <2>1. /\ op \in Operation /\ op # Absent /\ IdempotencyKey(r) \in IdemKeys
        /\ op.req = r /\ op.state = "pending"
    BY DEF Operation, States, Absent, IdemKeys
  <2>2. /\ phase = "up" /\ phase' = "up"
        /\ ops' = new /\ disk' = new
        /\ keys' = [keys EXCEPT ![IdempotencyKey(r)] = id]
        /\ jobs' = [jobs EXCEPT ![id] = "submitted"]
        /\ ops[id] = Absent /\ disk[id] = Absent
        /\ keys[IdempotencyKey(r)] = NoId
        /\ UNCHANGED <<phase, executors, world, crashes, acked, faults>>
    BY <1>4 DEF Submit, MaySubmit, Persisted, Snapshot
  <2>3. new \in [Ids -> Operation \cup {Absent}] /\ new[id] = op
    BY <2>1 DEF IInv, TypeOK
  <2>4. TypeOK'
    BY <2>1, <2>2, <2>3 DEF IInv, TypeOK, JobStates
  <2>5. DownIsEmpty' /\ SameOperations' /\ MemoryIsAhead'
    BY <2>2 DEF DownIsEmpty, SameOperations, MemoryIsAhead
  <2>6. IndexIsExact'
    <3>1. \A i \in Ids : i # id /\ ops[i] # Absent =>
            keys[IdempotencyKey(ops[i].req)] = i /\ IdempotencyKey(ops[i].req) # IdempotencyKey(r)
      BY <2>2 DEF IInv, IndexIsExact
    <3> QED
      BY <2>1, <2>2, <2>3, <3>1 DEF IInv, TypeOK, IndexIsExact
  <2>7. JobsAreUnfinished'
    BY <2>1, <2>2, <2>3 DEF IInv, TypeOK, JobsAreUnfinished, Unfinished
  <2>8. OneOperationPerKey'
    BY <2>2, <2>4, <2>6 DEF IndexIsExact, OneOperationPerKey
  <2>9. \A i \in Ids : disk[i] # Absent =>
          /\ disk'[i] # Absent
          /\ disk'[i].req = disk[i].req
          /\ (disk[i].state \in Terminal => disk'[i] = disk[i])
    BY <2>2, <2>3 DEF IInv, TypeOK, SameOperations, MemoryIsAhead
  <2>10. AckedIsDurable' /\ EffectsAreJournaled'
    <3>0. acked' = acked /\ world' = world
      BY <2>2
    <3>1. AckedIsDurable'
      BY <2>9, <3>0 DEF IInv, TypeOK, AckedIsDurable
    <3>2. EffectsAreJournaled'
      BY <2>9, <3>0 DEF IInv, EffectsAreJournaled
    <3> QED
      BY <3>1, <3>2
  <2>11. DeleteHasCreate'
    <3> SUFFICES ASSUME NEW d \in Ids, disk'[d] # Absent,
                        disk'[d].req.operation = "runtime.delete"
                 PROVE  \E c \in Ids :
                          /\ disk'[c].state = "succeeded"
                          /\ disk'[c].req.operation = "runtime.create"
                          /\ ResourceOf(disk'[c].req) = ResourceOf(disk'[d].req)
      BY DEF DeleteHasCreate
    <3>1. CASE d = id
      <4>1. FindResource(ResourceOf(r))
        BY <1>4, <2>1, <2>2, <2>3, <3>1 DEF Submit, MaySubmit
      <4>2. PICK c \in Ids : /\ ops[c].state = "succeeded"
                             /\ ops[c].req.operation = "runtime.create"
                             /\ ResourceOf(ops[c].req) = ResourceOf(r)
        BY <4>1 DEF FindResource
      <4>3. c # id /\ disk'[c] = ops[c]
        BY <2>2, <4>2 DEF Absent, IInv, TypeOK
      <4> QED
        BY <2>1, <2>2, <2>3, <3>1, <4>2, <4>3
    <3>2. CASE d # id
      <4>1. disk[d] # Absent /\ disk'[d].req = disk[d].req
        BY <2>2, <2>9, <3>2 DEF IInv, TypeOK, SameOperations
      <4>2. PICK c \in Ids : /\ disk[c].state = "succeeded"
                             /\ disk[c].req.operation = "runtime.create"
                             /\ ResourceOf(disk[c].req) = ResourceOf(disk[d].req)
        BY <4>1 DEF IInv, DeleteHasCreate
      <4>3. disk[c] # Absent
        BY <4>2 DEF Absent
      <4>4. disk'[c] = disk[c]
        BY <2>9, <4>2, <4>3 DEF Terminal
      <4> QED
        BY <4>1, <4>2, <4>4
    <3> QED
      BY <3>1, <3>2
  <2> QED
    BY <2>4, <2>5, <2>6, <2>7, <2>8, <2>10, <2>11 DEF IInv
<1>5. ASSUME NEW r \in Requests, SubmitRejected(r) PROVE IInv'
  BY <1>5 DEF SubmitRejected, PersistFails, IInv, TypeOK, DownIsEmpty, SameOperations,
              MemoryIsAhead, IndexIsExact, JobsAreUnfinished, OneOperationPerKey,
              AckedIsDurable, EffectsAreJournaled, DeleteHasCreate
<1>6. ASSUME NEW id \in Ids, Reply(id) PROVE IInv'
  <2>1. phase = "up" /\ ops[id] # Absent /\ ops[id].state \in Unfinished
    BY <1>6, JobsMeanUp DEF Reply, IInv, TypeOK, JobsAreUnfinished, Unfinished, Absent
  <2>2. TypeOK' /\ JobsAreUnfinished'
    BY <1>6, <2>1 DEF Reply, IInv, TypeOK, JobsAreUnfinished, JobStates
  <2>3. AckedIsDurable'
    BY <1>6, <2>1 DEF Reply, IInv, TypeOK, SameOperations, AckedIsDurable
  <2>4. DownIsEmpty'
    BY <1>6, <2>1 DEF Reply, DownIsEmpty
  <2> QED
    BY <1>6, <2>2, <2>3, <2>4 DEF Reply, IInv, SameOperations, MemoryIsAhead,
       IndexIsExact, OneOperationPerKey, EffectsAreJournaled, DeleteHasCreate
<1>7. ASSUME NEW r \in Requests, Replay(r) PROVE IInv'
  <2>1. IdempotencyKey(r) \in IdemKeys /\ phase = "up"
    BY <1>7 DEF Replay, MaySubmit, IdemKeys
  <2>2. TypeOK'
    BY <1>7, <2>1 DEF Replay, IInv, TypeOK
  <2>3. AckedIsDurable'
    BY <1>7, <2>1 DEF Replay, IInv, TypeOK, SameOperations, IndexIsExact, AckedIsDurable
  <2> QED
    BY <1>7, <2>2, <2>3 DEF Replay, IInv, DownIsEmpty, SameOperations, MemoryIsAhead,
       IndexIsExact, JobsAreUnfinished, OneOperationPerKey, EffectsAreJournaled, DeleteHasCreate
<1>8. ASSUME NEW id \in Ids, Begin(id) PROVE IInv'
  BY <1>8, UpdateKeepsIInv DEF Begin, States, JobStates, Unfinished
<1>9. ASSUME NEW id \in Ids, Execute(id) PROVE IInv'
  <2>1. phase = "up" /\ ops[id] # Absent /\ ops[id].state \in Unfinished
    BY <1>9, JobsMeanUp DEF Execute, IInv, TypeOK, JobsAreUnfinished, Unfinished, Absent
  <2>2. /\ world' = world \/ world' = Effect(ops[id].req)
        /\ jobs' \in [Ids -> JobStates]
        /\ \A i \in Ids : i # id => jobs'[i] = jobs[i]
    BY <1>9 DEF Execute, IInv, TypeOK, JobStates
  <2>3. \A res \in world' : \/ res \in world
                           \/ /\ ops[id].req.operation = "runtime.create"
                              /\ res = ResourceOf(ops[id].req)
    BY <2>2 DEF Effect
  <2>4. TypeOK' /\ JobsAreUnfinished'
    BY <1>9, <2>1, <2>2, <2>3 DEF Execute, IInv, TypeOK, JobsAreUnfinished
  <2>5. EffectsAreJournaled'
    BY <1>9, <2>1, <2>3 DEF Execute, IInv, TypeOK, SameOperations, EffectsAreJournaled
  <2>6. DownIsEmpty'
    BY <1>9, <2>1 DEF Execute, DownIsEmpty
  <2> QED
    BY <1>9, <2>4, <2>5, <2>6 DEF Execute, IInv, SameOperations, MemoryIsAhead,
       IndexIsExact, OneOperationPerKey, AckedIsDurable, DeleteHasCreate
<1>10. ASSUME NEW id \in Ids, Finish(id) PROVE IInv'
  BY <1>10, UpdateKeepsIInv DEF Finish, States, JobStates
<1>11. ASSUME Crash PROVE IInv'
  BY <1>11, LoseMemoryKeepsIInv DEF Crash, IInv, TypeOK
<1>12. CASE UNCHANGED vars
  BY <1>12 DEF vars, IInv, TypeOK, DownIsEmpty, SameOperations, MemoryIsAhead,
     IndexIsExact, JobsAreUnfinished, OneOperationPerKey, AckedIsDurable,
     EffectsAreJournaled, DeleteHasCreate
<1> QED
  BY <1>1, <1>2, <1>3, <1>4, <1>5, <1>6, <1>7, <1>8, <1>9, <1>10, <1>11, <1>12 DEF Next

-----------------------------------------------------------------------------
(* The invariant of the whole system.                                      *)
LEMMA Invariance == Spec => []IInv
BY InitIInv, StepIInv, PTL DEF Spec

(* Every variable keeps its type in every behaviour.                       *)
THEOREM TypeCorrect == Spec => []TypeOK
<1>1. IInv => TypeOK
  BY DEF IInv
<1> QED
  BY <1>1, Invariance, PTL

(* An acknowledged operation is in the journal, whatever fails or crashes  *)
(* between Submit and a later Get.                                         *)
THEOREM AcknowledgedSurvives == Spec => []AckedIsDurable
<1>1. IInv => AckedIsDurable
  BY DEF IInv
<1> QED
  BY <1>1, Invariance, PTL

(* Retries never journal a second operation for a key.                     *)
THEOREM KeysStayUnique == Spec => []OneOperationPerKey
<1>1. IInv => OneOperationPerKey
  BY DEF IInv
<1> QED
  BY <1>1, Invariance, PTL

(* Nothing exists at a provider without its create in the journal.         *)
THEOREM WriteAhead == Spec => []EffectsAreJournaled
<1>1. IInv => EffectsAreJournaled
  BY DEF IInv
<1> QED
  BY <1>1, Invariance, PTL

(* A journaled delete has settled its create, which no restart re-executes *)
(* (the whole-snapshot write of persistLocked).                            *)
THEOREM DeleteIsFinal == Spec => []DeleteSettlesItsCreate
<1>1. IInv => DeleteSettlesItsCreate
  <2> SUFFICES ASSUME IInv, NEW d \in Ids, disk[d] # Absent,
                      disk[d].req.operation = "runtime.delete"
               PROVE  \E c \in Ids : /\ disk[c].state = "succeeded"
                                     /\ disk[c].req.operation = "runtime.create"
                                     /\ ResourceOf(disk[c].req) = ResourceOf(disk[d].req)
                                     /\ jobs[c] = "none"
    BY DEF DeleteSettlesItsCreate
  <2>1. PICK c \in Ids : /\ disk[c].state = "succeeded"
                         /\ disk[c].req.operation = "runtime.create"
                         /\ ResourceOf(disk[c].req) = ResourceOf(disk[d].req)
    BY DEF IInv, DeleteHasCreate
  <2>2. jobs[c] = "none"
    <3>1. CASE phase = "down"
      BY <3>1 DEF IInv, DownIsEmpty, NoJobs
    <3>2. CASE phase # "down"
      BY <2>1, <3>2 DEF IInv, MemoryIsAhead, JobsAreUnfinished, Terminal, Unfinished
    <3> QED
      BY <3>1, <3>2
  <2> QED
    BY <2>1, <2>2
<1> QED
  BY <1>1, Invariance, PTL

(* Every answer to a key names the operation of the first answer.          *)
THEOREM AnswersNeverChange == Spec => AnswersAgree
<1>1. IInv /\ IInv' /\ [Next]_vars =>
        [\A k \in IdemKeys : acked[k] # NoId => acked'[k] = acked[k]]_acked
  <2> SUFFICES ASSUME IInv, IInv', [Next]_vars, NEW k \in IdemKeys, acked[k] # NoId
               PROVE  acked'[k] = acked[k]
    OBVIOUS
  <2>1. \/ acked' = acked
        \/ \E id \in Ids : Reply(id)
        \/ \E r \in Requests : Replay(r)
    BY DEF Next, vars, Start, ResumeReset, ResumeLaunch, Submit, SubmitRejected,
           Begin, Execute, Finish, Crash
  <2>2. acked[k] \in Ids /\ disk[acked[k]] # Absent /\ IdempotencyKey(disk[acked[k]].req) = k
    BY DEF IInv, TypeOK, AckedIsDurable
  <2>3. disk' = disk \/ acked' = acked
    BY <2>1 DEF Reply, Replay
  <2>4. acked' = acked \/ (acked'[k] \in Ids \cup {NoId} /\ acked'[k] # NoId)
    BY <2>1, IdsAssumption, OperationFacts, JobsMeanUp
    DEF Reply, Replay, IInv, TypeOK
  <2>5. acked' # acked => /\ disk[acked'[k]] # Absent
                          /\ IdempotencyKey(disk[acked'[k]].req) = k
    BY <2>3, <2>4 DEF IInv, AckedIsDurable
  <2> QED
    BY <2>2, <2>4, <2>5 DEF IInv, OneOperationPerKey
<1> QED
  BY <1>1, Invariance, PTL DEF Spec, AnswersAgree

-----------------------------------------------------------------------------
(* The ledger entry of a key, from the one operation that carries it.      *)
Entry(state) == IF state \in Terminal THEN state ELSE "accepted"

LEMMA LedgerFacts ==
  ASSUME NEW o \in [Ids -> Operation \cup {Absent}], NEW k,
         \A i, j \in Ids : /\ o[i] # Absent
                           /\ o[j] # Absent
                           /\ IdempotencyKey(o[i].req) = IdempotencyKey(o[j].req)
                           => i = j
  PROVE  /\ (\A i \in Ids : o[i] # Absent => IdempotencyKey(o[i].req) # k)
              => LedgerOf(o, k) = "absent"
         /\ \A i \in Ids : o[i] # Absent /\ IdempotencyKey(o[i].req) = k
              => LedgerOf(o, k) = Entry(o[i].state)
<1> DEFINE mine == {i \in Ids : o[i] # Absent /\ IdempotencyKey(o[i].req) = k}
<1>1. ASSUME NEW i \in Ids, o[i] # Absent, IdempotencyKey(o[i].req) = k
      PROVE  LedgerOf(o, k) = Entry(o[i].state)
  <2>1. mine = {i}
    BY <1>1
  <2>2. (CHOOSE j \in mine : TRUE) = i
    BY <2>1
  <2> QED
    BY <2>1, <2>2 DEF LedgerOf, Entry
<1>2. ASSUME \A i \in Ids : o[i] # Absent => IdempotencyKey(o[i].req) # k
      PROVE  LedgerOf(o, k) = "absent"
  <2>1. mine = {}
    BY <1>2
  <2> QED
    BY <2>1 DEF LedgerOf
<1> QED
  BY <1>1, <1>2

(* What a step may do to the journal: keep every operation, its request    *)
(* and its outcome, and add at most one operation, which is pending.       *)
JournalGrows ==
  /\ \A i \in Ids : disk[i] # Absent =>
       /\ disk'[i] # Absent
       /\ disk'[i].req = disk[i].req
       /\ (disk[i].state \in Terminal => disk'[i] = disk[i])
  /\ \A i, j \in Ids : /\ disk[i] = Absent /\ disk'[i] # Absent
                        /\ disk[j] = Absent /\ disk'[j] # Absent
                        => i = j
  /\ \A i \in Ids : disk[i] = Absent /\ disk'[i] # Absent => disk'[i].state = "pending"

LEMMA StepGrowsJournal == IInv /\ [Next]_vars => JournalGrows
<1> SUFFICES ASSUME IInv, [Next]_vars PROVE JournalGrows
  OBVIOUS
<1> USE OperationFacts
<1>1. CASE disk' = disk
  BY <1>1 DEF JournalGrows
<1>2. ASSUME ResumeReset, disk' # disk PROVE JournalGrows
  BY <1>2 DEF ResumeReset, PersistFails, ResetUnfinished, JournalGrows, IInv, TypeOK,
              SameOperations, MemoryIsAhead, Unfinished, Terminal, Absent
<1>3. ASSUME ResumeLaunch, disk' # disk PROVE JournalGrows
  BY <1>3 DEF ResumeLaunch, PersistFails, FailUnsupported, JournalGrows, IInv, TypeOK,
              SameOperations, MemoryIsAhead, Terminal, Absent
<1>4. ASSUME NEW r \in Requests, NEW id \in Ids, Submit(r, id) PROVE JournalGrows
  BY <1>4 DEF Submit, MaySubmit, Persisted, Snapshot, JournalGrows, IInv, TypeOK,
              SameOperations, MemoryIsAhead, Terminal
<1>5. ASSUME NEW id \in Ids, NEW s \in States, Update(id, s), jobs[id] # "none", disk' # disk
      PROVE  JournalGrows
  <2>1. phase = "up" /\ ops[id] # Absent /\ ops[id].state \notin Terminal
    BY <1>5, JobsMeanUp DEF IInv, TypeOK, JobsAreUnfinished, Unfinished, Terminal, Absent
  <2>2. disk' = [ops EXCEPT ![id] = [state |-> s, req |-> ops[id].req]]
    BY <1>5 DEF Update, Persisted, Snapshot, PersistFails
  <2>3. [state |-> s, req |-> ops[id].req] # Absent
    BY DEF Absent, States
  <2> QED
    BY <2>1, <2>2, <2>3 DEF JournalGrows, IInv, TypeOK, SameOperations, MemoryIsAhead
<1>6. \/ disk' = disk
      \/ ResumeReset
      \/ ResumeLaunch
      \/ \E r \in Requests, id \in Ids : Submit(r, id)
      \/ \E id \in Ids, s \in States : Update(id, s) /\ jobs[id] # "none"
  BY DEF Next, vars, Start, SubmitRejected, PersistFails, Reply, Replay, Begin,
         Execute, Finish, Crash, States
<1> QED
  BY <1>1, <1>2, <1>3, <1>4, <1>5, <1>6

(* The manager implements the ledger: crashes, failed writes and restarts  *)
(* never forget an accepted key nor change a durable outcome.              *)
THEOREM Refinement == Spec => ImplementsLedger
<1> USE OperationFacts
<1> DEFINE L(o) == [k \in IdemKeys |-> LedgerOf(o, k)]
<1>1. Init => Ledger!Init
  BY DEF Init, NoOps, LedgerOf, Ledger!Init
<1>2. IInv /\ IInv' /\ [Next]_vars => [Ledger!Advance]_(L(disk))
  <2> SUFFICES ASSUME IInv, IInv', [Next]_vars
               PROVE  Ledger!Advance
    OBVIOUS
  <2>0. JournalGrows
    BY StepGrowsJournal
  <2>1. /\ disk \in [Ids -> Operation \cup {Absent}]
        /\ disk' \in [Ids -> Operation \cup {Absent}]
        /\ OneOperationPerKey /\ OneOperationPerKey'
    BY DEF IInv, TypeOK
  <2>2. ASSUME NEW k \in IdemKeys
        PROVE  \/ /\ LedgerOf(disk, k) = "absent"
                  /\ LedgerOf(disk', k) = "absent"
               \/ \E i \in Ids :
                    /\ LedgerOf(disk, k) = "absent"
                    /\ LedgerOf(disk', k) = "accepted"
                    /\ disk[i] = Absent /\ disk'[i] # Absent
                    /\ IdempotencyKey(disk'[i].req) = k
               \/ /\ LedgerOf(disk, k) = "accepted"
                  /\ LedgerOf(disk', k) \in {"accepted", "succeeded", "failed"}
               \/ /\ LedgerOf(disk, k) \in Terminal
                  /\ LedgerOf(disk', k) = LedgerOf(disk, k)
    <3>1. CASE \E i \in Ids : disk[i] # Absent /\ IdempotencyKey(disk[i].req) = k
      <4>1. PICK i \in Ids : disk[i] # Absent /\ IdempotencyKey(disk[i].req) = k
        BY <3>1
      <4>2. /\ LedgerOf(disk, k) = Entry(disk[i].state)
            /\ LedgerOf(disk', k) = Entry(disk'[i].state)
        BY <2>0, <2>1, <4>1, LedgerFacts DEF JournalGrows, OneOperationPerKey
      <4> QED
        BY <2>0, <4>1, <4>2 DEF JournalGrows, Entry, Terminal
    <3>2. CASE ~ \E i \in Ids : disk[i] # Absent /\ IdempotencyKey(disk[i].req) = k
      <4>1. LedgerOf(disk, k) = "absent"
        BY <2>1, <3>2, LedgerFacts DEF OneOperationPerKey
      <4>2. CASE \E i \in Ids : disk'[i] # Absent /\ IdempotencyKey(disk'[i].req) = k
        <5>1. PICK i \in Ids : disk'[i] # Absent /\ IdempotencyKey(disk'[i].req) = k
          BY <4>2
        <5>2. disk[i] = Absent /\ disk'[i].state = "pending"
          BY <2>0, <3>2, <5>1 DEF JournalGrows
        <5>3. LedgerOf(disk', k) = "accepted"
          BY <2>1, <5>1, <5>2, LedgerFacts DEF OneOperationPerKey, Entry, Terminal
        <5> QED
          BY <4>1, <5>1, <5>2, <5>3
      <4>3. CASE ~ \E i \in Ids : disk'[i] # Absent /\ IdempotencyKey(disk'[i].req) = k
        BY <2>1, <4>1, <4>3, LedgerFacts DEF OneOperationPerKey
      <4> QED
        BY <4>2, <4>3
    <3> QED
      BY <3>1, <3>2
  <2>3. L(disk)' \in [IdemKeys -> Ledger!LedgerStates]
    BY <2>2 DEF Ledger!LedgerStates, Terminal
  <2>4. \A k \in IdemKeys : Ledger!MayBecome(L(disk)[k], L(disk)'[k])
    BY <2>2 DEF Ledger!MayBecome, Terminal
  <2>5. ASSUME NEW k \in IdemKeys, NEW l \in IdemKeys,
               L(disk)[k] = "absent", L(disk)'[k] # "absent",
               L(disk)[l] = "absent", L(disk)'[l] # "absent"
        PROVE  k = l
    <3>1. PICK i \in Ids : /\ disk[i] = Absent /\ disk'[i] # Absent
                           /\ IdempotencyKey(disk'[i].req) = k
      BY <2>2, <2>5 DEF Terminal
    <3>2. PICK j \in Ids : /\ disk[j] = Absent /\ disk'[j] # Absent
                           /\ IdempotencyKey(disk'[j].req) = l
      BY <2>2, <2>5 DEF Terminal
    <3> QED
      BY <2>0, <3>1, <3>2 DEF JournalGrows
  <2> QED
    BY <2>3, <2>4, <2>5 DEF Ledger!Advance
<1> QED
  BY <1>1, <1>2, Invariance, PTL DEF Spec, ImplementsLedger, Ledger!Spec

=============================================================================
