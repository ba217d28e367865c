------------------------- MODULE CoreUpdate_proofs -------------------------
(***************************************************************************)
(* Proofs about CoreUpdate, for any number of providers, crashes, faults   *)
(* and writes.  The inductive invariant is built in layers, each inductive *)
(* relative to the ones before it: where the attempt can be (PlaceInv),    *)
(* what the journal says there (JournalInv), plan order (OrderInv), the    *)
(* images (ImageInv), half restored data (TornInv), recovery points        *)
(* (PointInv) and the format of the native provider's data (FormatInv).    *)
(***************************************************************************)
EXTENDS CoreUpdate, TLAPS

RecoverStages == {"stop", "restore", "restore_sql", "restore_note", "unstage", "restart", "recheck"}
PrepareStages == {"quiesce", "capture", "complete", "seal"}
ApplyStages == {"stage", "start", "verify"}
RecordStages == {"note", "log"}
UpStages == {"up_start", "up_render", "up_recreate", "up_identity", "up_keycloak", "up_verify"}
WorkStages == RecoverStages \cup PrepareStages \cup ApplyStages \cup RecordStages
                \cup {"checkpoint"}
DoneStates == {"verified", "apply_failed", "verify_failed"}

(* Every stage runs in its own pass, on a provider of the plan.            *)
PlaceInv ==
  /\ pc.at \in WorkStages => pc.p \in Providers
  /\ pc.at \in {"resume", "execute", "rollback"} => pc.p \in 1..N+1
  /\ pc.at = "preflight" => pc.pass = "none"
  /\ pc.at \in PrepareStages \cup ApplyStages \cup {"execute", "checkpoint"} => pc.pass = "none"
  /\ pc.at = "resume" => pc.pass = "resume"
  /\ pc.at = "rollback" => pc.pass = "rollback"
  /\ pc.at \in RecoverStages => pc.pass \in {"resume", "rollback"}
  /\ pc.at \in RecordStages =>
       \/ pc.status \in DoneStates \cup {"applying"} /\ pc.pass = "none"
       \/ pc.status = "recovered" /\ pc.pass = "rollback"
  /\ pc.at \in {"complete", "restore_sql", "restore_note"} => pc.p \in Bound
  /\ pc.at = "quiesce" => pc.p \in Native
  /\ pc.at \in UpStages => pc.pass \in {"up", "apply"}

(* The journal entry of the provider an attempt works on.                  *)
Mutating == \/ pc.at \in ApplyStages
            \/ pc.at = "checkpoint" /\ pc.p \in Native
            \/ pc.at \in RecordStages /\ pc.status \in DoneStates
Recovering == \/ pc.at \in RecoverStages
              \/ pc.at \in RecordStages /\ pc.status = "recovered"

JournalInv ==
  /\ Mutating => journal[pc.p] = "applying"
  /\ Recovering => journal[pc.p] \in Interrupted
  /\ pc.at = "log" => receipts[pc.p] = pc.status
  /\ JournalFollowsReceipts

(* What the images are where the journal is about to speak of them.        *)
ImageInv ==
  /\ VerifiedIsLive
  /\ pc.at \in {"start", "verify"} => compose[pc.p] = "pinned"
  /\ pc.at \in RecordStages /\ pc.status = "verified" =>
       image[pc.p] = "pinned" /\ compose[pc.p] = "pinned"
  /\ pc.at \in {"restart", "recheck"} => compose[pc.p] = "orig"
  /\ pc.at = "recheck" => image[pc.p] = "orig"
  /\ pc.at \in RecordStages /\ pc.status = "recovered" =>
       image[pc.p] = "orig" /\ compose[pc.p] = "orig"

(* A provider is journaled only when every earlier one is verified.        *)
InOrder == \A p, q \in Providers : p < q /\ journal[q] # "none" => journal[p] = "verified"

(* A pinned image is in the journal: a later attempt that finds no change  *)
(* for a provider finds it verified or interrupted.                        *)
Live == Interrupted \cup {"verified"}
PinnedIsJournaled ==
  \A p \in Providers : compose[p] = "pinned" \/ image[p] = "pinned" => journal[p] \in Live

Executing == \/ pc.at \in {"execute", "checkpoint"} \cup PrepareStages \cup ApplyStages
             \/ pc.at \in RecordStages /\ pc.status # "recovered"
Resuming == pc.at \in {"preflight", "resume"} \/ pc.pass = "resume"

OrderInv ==
  /\ InOrder
  /\ PinnedIsJournaled
  /\ Executing =>
       \A r \in Providers : r < pc.p \/ r \notin todo => journal[r] = "verified"
  /\ Resuming =>
       /\ \A r \in Providers \ todo : journal[r] \in Live
       /\ InterruptedIn(journal) \subseteq prior
  /\ pc.at = "resume" =>
       \A r \in Providers \ todo : r < pc.p => journal[r] = "verified"
  /\ pc.at \in RecoverStages /\ pc.pass = "resume" => pc.p \in todo

(* Only `baha up` starts a half restored volume.  The native provider      *)
(* whose restore tore it stays interrupted, and an attempt begins by       *)
(* restoring it again or ends without touching anything.                   *)
TornPlace(p) ==
  \/ pc.at \in {"idle", "preflight"} \cup UpStages
  \/ pc.at = "rollback" /\ InterruptedIn(journal) \subseteq prior
  \/ pc.at = "resume" /\ pc.p <= p
  \/ pc.at \in {"stop", "restore"} /\ pc.p = p

TornInv ==
  /\ \A p \in Native \ bypassed : data[p].format = "torn" => ~up[p]
  /\ \A p, q \in Providers : point[p].copy[q].format # "torn"
  /\ (\E q \in Providers : data[q].format = "torn") =>
       \E p \in Native : p \in InterruptedIn(journal) /\ TornPlace(p)
  /\ pc.at = "restore" /\ pc.p \in Native => \A q \in Providers : ~up[q]

(* A recovery point is taken before its provider's data is migrated.       *)
PointInv ==
  /\ PointBeforeMutation
  /\ pc.at \in RecordStages /\ pc.status = "applying" => point[pc.p].status = "sealed"
  /\ pc.at \in {"complete", "seal"} => point[pc.p].status \in {"partial", "whole"}
  /\ \A p \in Providers : point[p].status # "none" => point[p].copy[p].format = "orig"
  /\ \A p \in Providers : point[p].status # "sealed" => data[p].format # "pinned"
  /\ \A p, q \in Providers :
       point[p].status # "none" /\ point[q].status # "sealed" =>
          point[p].copy[q].format = "orig"

(* The native provider's data is migrated only under a pinned image, and   *)
(* only the template hides that.                                           *)
FormatInv ==
  /\ \A p \in Native \ bypassed :
       compose[p] = "orig" \/ image[p] = "orig" => data[p].format # "pinned"
  /\ pc.at \in {"unstage", "restart", "recheck"} /\ pc.p \in Native =>
       data[pc.p].format # "pinned"

-----------------------------------------------------------------------------
(* Control: what the moves of an attempt do to pc.                         *)
PcType == [at : Stages, p : 0..N+1, pass : Passes, status : JournalStates]

Checkpoints == [Providers -> [status : CheckpointStates, saved : [Providers -> Images]]]
Outcomes == {"none", "ok", "error", "crashed"}
DataTypes ==
  /\ compose \in [Providers -> Images]
  /\ image \in [Providers -> Images]
  /\ up \in [Providers -> BOOLEAN]
  /\ data \in [Providers -> Data]
  /\ point \in [Providers -> [status : PointStates, copy : [Providers -> Data], conf : Images]]
  /\ ckpt \in Checkpoints
  /\ restored \in [Providers -> RestorePhases]
  /\ journal \in [Providers -> JournalStates]
  /\ receipts \in [Providers -> JournalStates]
  /\ todo \in SUBSET Providers
  /\ prior \in SUBSET Providers
  /\ crashes \in 0..MaxCrashes
  /\ faults \in 0..MaxFaults
  /\ settled \in [Providers -> BOOLEAN]
  /\ ready \in BOOLEAN
  /\ bypassed \in SUBSET Providers

(* Where a step goes, and that it is a place.                              *)
LEMMA GotoMoves ==
  ASSUME pc \in PcType, NEW s, Goto(s)
  PROVE  /\ outcome' = outcome
         /\ pc'.at = s /\ pc'.p = pc.p /\ pc'.pass = pc.pass /\ pc'.status = pc.status
BY DEF Goto, PcType

LEMMA RecordMoves ==
  ASSUME pc \in PcType, NEW s, Record(s)
  PROVE  /\ outcome' = outcome
         /\ pc'.at = "note" /\ pc'.p = pc.p /\ pc'.pass = pc.pass /\ pc'.status = s
BY DEF Record, PcType

LEMMA GotoAtMoves ==
  ASSUME NEW s, NEW p, NEW pass, NEW status, GotoAt(s, p, pass, status)
  PROVE  pc'.at = s /\ pc'.p = p /\ pc'.pass = pass /\ pc'.status = status
BY DEF GotoAt

LEMMA GotoFacts ==
  ASSUME pc \in PcType, NEW s \in Stages, Goto(s)
  PROVE  /\ pc' \in PcType /\ outcome' = outcome
         /\ pc'.at = s /\ pc'.p = pc.p /\ pc'.pass = pc.pass /\ pc'.status = pc.status
BY DEF Goto, PcType

LEMMA RecordFacts ==
  ASSUME pc \in PcType, NEW s \in JournalStates, Record(s)
  PROVE  /\ pc' \in PcType /\ outcome' = outcome
         /\ pc'.at = "note" /\ pc'.p = pc.p /\ pc'.pass = pc.pass /\ pc'.status = s
BY DEF Record, PcType, Stages

LEMMA GotoAtFacts ==
  ASSUME NEW s \in Stages, NEW p \in 0..N+1,
         NEW pass \in {"none", "resume", "rollback", "up", "apply"},
         NEW status \in JournalStates, GotoAt(s, p, pass, status)
  PROVE  /\ pc' \in PcType
         /\ pc'.at = s /\ pc'.p = p /\ pc'.pass = pass /\ pc'.status = status
BY DEF GotoAt, PcType, Passes

LEMMA ReturnFacts ==
  ASSUME NEW r, Return(r)
  PROVE  /\ pc' \in PcType /\ outcome' = r
         /\ pc'.at = "idle" /\ pc'.p = 0 /\ pc'.pass = "none" /\ pc'.status = "none"
BY NAssumption DEF Return, Idle, PcType, Stages, JournalStates, Passes

LEMMA AbortFacts ==
  ASSUME Abort
  PROVE  /\ pc' \in PcType /\ outcome' = outcome
         /\ pc'.at = "rollback" /\ pc'.p = 1 /\ pc'.pass = "rollback" /\ pc'.status = "none"
BY NAssumption DEF Abort, GotoAt, PcType, Stages, JournalStates, Passes

LEMMA FailFacts ==
  ASSUME Fail
  PROVE  /\ pc' \in PcType /\ outcome' \in {outcome, "error"}
         /\ \/ /\ pc.pass # "rollback"
               /\ pc'.at = "rollback" /\ pc'.p = 1 /\ pc'.pass = "rollback" /\ pc'.status = "none"
            \/ /\ pc.pass = "rollback"
               /\ pc'.at = "idle" /\ pc'.p = 0 /\ pc'.pass = "none" /\ pc'.status = "none"
BY AbortFacts, ReturnFacts DEF Fail

(* What the steps of `baha up` do.                                         *)
LEMMA UpFacts ==
  ASSUME TypeOK, UpStep
  PROVE  /\ pc' \in PcType /\ outcome' = outcome
         /\ pc.at \in UpStages
         /\ \/ pc'.at = "idle" /\ pc'.pass = "none"
            \/ pc'.at \in UpStages /\ pc'.pass = pc.pass
         /\ UNCHANGED <<point, ckpt, restored, journal, receipts, settled, todo, prior, crashes,
                        faults>>
         /\ ready' \in BOOLEAN
         /\ \/ compose' = compose /\ \E S \in SUBSET Providers : UpSet(S)
            \/ UNCHANGED <<image, up, data>> /\ \E S \in SUBSET Providers : Render(S)
            \/ UNCHANGED <<compose, image, up, data, bypassed>>
<1> USE DEF At, UpStages, evidence, attempt, records, runtime
<1>0. pc \in PcType /\ ready \in BOOLEAN /\ Core \in SUBSET Providers
  BY CoreAssumption DEF TypeOK, PcType, Providers
<1>1. Idle \in PcType /\ Idle.at = "idle" /\ Idle.pass = "none"
  BY NAssumption DEF Idle, PcType, Stages, Passes, JournalStates
<1>2. CASE UpStart
  BY <1>0, <1>1, <1>2, GotoFacts DEF UpStart, UpSome, UpFails, Stages
<1>3. CASE UpRender
  BY <1>0, <1>1, <1>3, GotoFacts DEF UpRender, UpFails, Stages
<1>4. CASE UpRecreate
  BY <1>0, <1>1, <1>4, GotoFacts DEF UpRecreate, UpSome, UpFails, Stages
<1>5. CASE UpIdentity
  BY <1>0, <1>1, <1>5, GotoFacts DEF UpIdentity, UpFails, Stages
<1>6. CASE UpKeycloak
  BY <1>0, <1>1, <1>6, GotoFacts DEF UpKeycloak, UpSome, UpFails, Stages
<1>7. CASE UpVerify
  BY <1>0, <1>1, <1>7 DEF UpVerify
<1>8. QED
  BY <1>2, <1>3, <1>4, <1>5, <1>6, <1>7 DEF UpStep

LEMMA BeginUpFacts ==
  ASSUME TypeOK, NEW kind \in {"up", "apply"}, BeginUp(kind)
  PROVE  /\ pc' \in PcType /\ pc.at = "idle"
         /\ pc'.at \in UpStages /\ pc'.pass = kind
         /\ UNCHANGED <<compose, image, up, data, point, ckpt, restored, journal, receipts, settled,
                        bypassed, crashes, faults>>
         /\ ready' \in BOOLEAN /\ todo' = {} /\ prior' = {} /\ outcome' = "none"
<1>1. /\ \/ GotoAt("up_start", 0, kind, "none")
         \/ GotoAt("up_identity", 0, kind, "none")
      /\ ready' \in BOOLEAN
  BY DEF BeginUp, TypeOK
<1>2. /\ pc' \in PcType /\ pc'.at \in UpStages /\ pc'.pass = kind
  BY <1>1, NAssumption, GotoAtFacts DEF Stages, JournalStates, Passes, UpStages
<1>3. QED
  BY <1>1, <1>2 DEF BeginUp, At, evidence, records, runtime

-----------------------------------------------------------------------------
(* Types and places.                                                       *)

(* Each stage works on a provider of the plan, in its own pass.            *)
LEMMA PlaceStep ==
  ASSUME TypeOK, PlaceInv, [Next]_vars
  PROVE  pc' \in PcType /\ outcome' \in Outcomes /\ PlaceInv'
<1> USE NAssumption DEF PlaceInv, Providers, Native, WorkStages, RecoverStages, PrepareStages,
        ApplyStages, RecordStages, UpStages, DoneStates, At, Outcomes
<1>0. pc \in PcType /\ outcome \in Outcomes
  BY DEF TypeOK, PcType, Outcomes
<1>1. CASE BeginAttempt
  BY <1>0, <1>1, NAssumption, GotoAtFacts, ReturnFacts DEF BeginAttempt, Stages, JournalStates
<1>2. CASE Preflight
  BY <1>0, <1>2, NAssumption, GotoAtFacts, AbortFacts DEF Preflight, Stages, JournalStates
<1>3. CASE ResumeNext
  <2>1. PICK p \in 1..N+1 :
          \/ GotoAt("execute", 1, "none", "none") /\ outcome' = outcome
          \/ p # N + 1 /\ GotoAt("stop", p, "resume", "none") /\ outcome' = outcome
          \/ Abort
    BY <1>3 DEF ResumeNext, TypeOK
  <2>2. QED
    BY <1>0, <2>1, GotoAtFacts, AbortFacts DEF Stages, JournalStates
<1>4. CASE ExecuteNext
  <2>1. PICK p \in 1..N+1 :
          \/ p \in Native /\ GotoAt("quiesce", p, "none", "none") /\ outcome' = outcome
          \/ p \in Bound /\ GotoAt("note", p, "none", "applying") /\ outcome' = outcome
          \/ p \in Bound /\ GotoAt("checkpoint", p, "none", "none") /\ outcome' = outcome
          \/ Return("ok")
          \/ Return("error")
    BY <1>4 DEF ExecuteNext
  <2>2. QED
    BY <1>0, <2>1, BoundAssumption, GotoAtFacts, ReturnFacts DEF Stages, JournalStates
<1>5. CASE RollbackNext
  BY <1>0, <1>5, NAssumption, GotoAtFacts, ReturnFacts DEF RollbackNext, Providers, Stages,
     JournalStates, IsFirst
<1>6. CASE RecoverStop
  BY <1>0, <1>6, GotoFacts, FailFacts DEF RecoverStop, Stages
<1>7. CASE RestoreVolume
  BY <1>0, <1>7, GotoFacts, FailFacts DEF RestoreVolume, Stages
<1>8. CASE RestoreBound
  BY <1>0, <1>8, GotoFacts, FailFacts DEF RestoreBound, Stages
<1>9. CASE RestoreSQL
  BY <1>0, <1>9, GotoFacts, FailFacts DEF RestoreSQL, Stages
<1>10. CASE RestoreNote
  BY <1>0, <1>10, GotoFacts, FailFacts DEF RestoreNote, Stages
<1>11. CASE Unstage
  BY <1>0, <1>11, GotoFacts, FailFacts DEF Unstage, Stages
<1>12. CASE Restart
  BY <1>0, <1>12, GotoFacts, FailFacts DEF Restart, Stages
<1>13. CASE Recheck
  <2>1. \/ GotoAt("resume", pc.p + 1, "resume", "none") /\ outcome' = outcome
        \/ Record("recovered") /\ pc.pass # "resume"
        \/ Fail
    BY <1>13 DEF Recheck
  <2>2. pc.p \in Providers /\ pc.pass \in {"resume", "rollback"}
    BY <1>13 DEF Recheck
  <2>3. CASE GotoAt("resume", pc.p + 1, "resume", "none") /\ outcome' = outcome
    BY <1>0, <2>2, <2>3, GotoAtFacts DEF Stages, JournalStates
  <2>4. CASE Record("recovered") /\ pc.pass # "resume"
    BY <1>0, <2>2, <2>4, RecordFacts DEF JournalStates
  <2>5. CASE Fail
    BY <1>0, <2>5, FailFacts
  <2>6. QED
    BY <2>1, <2>3, <2>4, <2>5
<1>14. CASE Quiesce
  BY <1>0, <1>14, GotoFacts, AbortFacts DEF Quiesce, Stages
<1>15. CASE Capture
  BY <1>0, <1>15, GotoFacts, RecordFacts, AbortFacts DEF Capture, Stages, JournalStates
<1>16. CASE Complete
  BY <1>0, <1>16, GotoFacts, AbortFacts DEF Complete, Stages
<1>17. CASE Seal
  BY <1>0, <1>17, RecordFacts, AbortFacts DEF Seal, JournalStates
<1>18. CASE Checkpoint
  BY <1>0, <1>18, GotoFacts, RecordFacts, AbortFacts DEF Checkpoint, Stages, JournalStates
<1>19. CASE Stage
  BY <1>0, <1>19, GotoFacts, RecordFacts DEF Stage, Stages, JournalStates
<1>20. CASE Start
  BY <1>0, <1>20, GotoFacts, RecordFacts DEF Start, Stages, JournalStates
<1>21. CASE Verify
  BY <1>0, <1>21, RecordFacts DEF Verify, JournalStates
<1>22. CASE Note
  BY <1>0, <1>22, GotoFacts, FailFacts DEF Note, Stages
<1>23. CASE Log
  <2>1. pc.p \in Providers /\ (AfterRecord \/ Fail)
    BY <1>0, <1>23 DEF Log
  <2>2. CASE Fail
    BY <1>0, <2>2, FailFacts
  <2>3. CASE AfterRecord
    <3>1. \/ (Goto("stage") \/ Goto("checkpoint")) /\ pc.status = "applying"
          \/ Abort
          \/ GotoAt("execute", pc.p + 1, "none", "none") /\ outcome' = outcome
          \/ GotoAt("rollback", pc.p + 1, "rollback", "none") /\ outcome' = outcome
      BY <2>3 DEF AfterRecord
    <3>2a. pc.status = "applying" => pc.pass = "none"
      BY <1>23 DEF Log
    <3>2b. CASE (Goto("stage") \/ Goto("checkpoint")) /\ pc.status = "applying"
      BY <1>0, <2>1, <3>2a, <3>2b, GotoFacts DEF Stages
    <3>2. CASE Abort
      BY <1>0, <3>2, AbortFacts
    <3>3. CASE \/ GotoAt("execute", pc.p + 1, "none", "none") /\ outcome' = outcome
               \/ GotoAt("rollback", pc.p + 1, "rollback", "none") /\ outcome' = outcome
      BY <1>0, <2>1, <3>3, GotoAtFacts DEF Stages, JournalStates
    <3>4. QED
      BY <3>1, <3>2b, <3>2, <3>3
  <2>4. QED
    BY <2>1, <2>2, <2>3
<1>24. CASE Crash
  BY <1>0, <1>24 DEF Crash, Idle, PcType, Stages, Passes, JournalStates
<1>25. ASSUME NEW p \in Providers, Write(p)
       PROVE  pc' \in PcType /\ outcome' \in Outcomes /\ PlaceInv'
  BY <1>0, <1>25 DEF Write, attempt
<1>26. ASSUME NEW kind \in {"up", "apply"}, BeginUp(kind)
       PROVE  pc' \in PcType /\ outcome' \in Outcomes /\ PlaceInv'
  BY <1>0, <1>26, BeginUpFacts DEF UpStages
<1>27. CASE UpStep
  BY <1>0, <1>27, UpFacts DEF UpStages
<1>28. CASE UNCHANGED vars
  BY <1>0, <1>28 DEF vars
<1>29. QED
  BY <1>1, <1>2, <1>3, <1>4, <1>5, <1>6, <1>7, <1>8, <1>9, <1>10, <1>11, <1>12, <1>13, <1>14,
     <1>15, <1>16, <1>17, <1>18, <1>19, <1>20, <1>21, <1>22, <1>23, <1>24, <1>25, <1>26, <1>27,
     <1>28
     DEF Next, Step

(* Updates keep the types.                                                 *)
LEMMA UpdateTypes ==
  ASSUME NEW S, NEW T, NEW f \in [S -> T], NEW p, NEW v \in T
  PROVE  [f EXCEPT ![p] = v] \in [S -> T]
OBVIOUS

LEMMA FormatTypes ==
  ASSUME NEW d \in Data, NEW f \in Images \cup {"torn"}
  PROVE  /\ [d EXCEPT !.format = f] \in Data
         /\ [d EXCEPT !.format = f].writes = d.writes
         /\ [d EXCEPT !.format = f].format = f
BY DEF Data

LEMMA WritesTypes ==
  ASSUME NEW d \in Data, d.writes < MaxWrites
  PROVE  [d EXCEPT !.writes = @ + 1] \in Data
BY LimitsAssumption DEF Data

(* The helpers return values of the declared types.                        *)
LEMMA StopTypes ==
  ASSUME DataTypes, NEW S, StopSet(S)
  PROVE  up' \in [Providers -> BOOLEAN] /\ image' = image /\ data' = data
BY DEF DataTypes, StopSet

LEMMA StartTypes ==
  ASSUME DataTypes, NEW S, StartSet(S)
  PROVE  /\ up' \in [Providers -> BOOLEAN]
         /\ image' \in [Providers -> Images]
         /\ data' \in [Providers -> Data]
<1>1. up' \in [Providers -> BOOLEAN]
  BY DEF DataTypes, StartSet
<1>2. image' \in [Providers -> Images]
  BY DEF DataTypes, StartSet
<1>3. \A q \in Providers : [data[q] EXCEPT !.format = "pinned"] \in Data
  BY FormatTypes DEF DataTypes, Images
<1>4. data' \in [Providers -> Data]
  BY <1>3 DEF DataTypes, StartSet
<1>5. QED
  BY <1>1, <1>2, <1>4

LEMMA RestoreTypes ==
  ASSUME DataTypes, NEW p \in Providers
  PROVE  Rewound(p) \in [Providers -> Data] /\ Torn(p) \in [Providers -> Data]
<1>1. \A q \in Providers : [data[q] EXCEPT !.format = "torn"] \in Data
  BY FormatTypes DEF DataTypes
<1>2. \A q \in Providers : point[p].copy[q] \in Data
  BY DEF DataTypes
<1>3. QED
  BY <1>1, <1>2 DEF DataTypes, Rewound, Torn

LEMMA WriteTypes ==
  ASSUME DataTypes, NEW p \in Providers
  PROVE  /\ \A i \in Images : [compose EXCEPT ![p] = i] \in [Providers -> Images]
         /\ \A s \in RestorePhases : [restored EXCEPT ![p] = s] \in [Providers -> RestorePhases]
         /\ [ckpt EXCEPT ![p].status = "torn"] \in Checkpoints
         /\ [ckpt EXCEPT ![p] = [status |-> "ok", saved |-> compose]] \in Checkpoints
         /\ \A b \in BOOLEAN : [settled EXCEPT ![p] = b] \in [Providers -> BOOLEAN]
<1>1. [ckpt EXCEPT ![p].status = "torn"] \in Checkpoints
  BY DEF DataTypes, Checkpoints, CheckpointStates
<1>2. [ckpt EXCEPT ![p] = [status |-> "ok", saved |-> compose]] \in Checkpoints
  BY DEF DataTypes, Checkpoints, CheckpointStates
<1>3. QED
  BY <1>1, <1>2, UpdateTypes DEF DataTypes

Points == [Providers -> [status : PointStates, copy : [Providers -> Data], conf : Images]]

LEMMA PointTypes ==
  ASSUME DataTypes, NEW p \in Providers, NEW s \in PointStates
  PROVE  /\ [point EXCEPT ![p].status = s] \in Points
         /\ [point EXCEPT ![p] = [status |-> s, copy |-> data, conf |-> @.conf]] \in Points
         /\ [point EXCEPT ![p] = [status |-> s, copy |-> @.copy, conf |-> compose[p]]] \in Points
BY DEF DataTypes, Points

LEMMA RecordedTypes ==
  ASSUME pc \in PcType, NEW f \in [Providers -> JournalStates]
  PROVE  Recorded(f) \in [Providers -> JournalStates]
BY DEF Recorded, PcType

(* Every step writes values of the declared types.                         *)
LEMMA DataStep ==
  ASSUME TypeOK, PlaceInv, [Next]_vars
  PROVE  DataTypes'
<1> USE LimitsAssumption DEF evidence, records, runtime, attempt, Fault, At, WorkStages, RecoverStages, PrepareStages,
        ApplyStages, RecordStages
<1>0. DataTypes /\ pc \in PcType
  BY DEF TypeOK, DataTypes, PcType, Checkpoints
<1>q. point \in Points
  BY <1>0 DEF DataTypes, Points
<1>p. pc.at \in WorkStages => pc.p \in Providers
  BY DEF PlaceInv
<1>1. CASE BeginAttempt
  BY <1>0, <1>1 DEF DataTypes, BeginAttempt, InterruptedIn
<1>2. CASE Preflight
  BY <1>0, <1>2 DEF DataTypes, Preflight
<1>3. CASE ResumeNext
  BY <1>0, <1>3 DEF DataTypes, ResumeNext
<1>4. CASE ExecuteNext
  BY <1>0, <1>4 DEF DataTypes, ExecuteNext
<1>5. CASE RollbackNext
  BY <1>0, <1>5 DEF DataTypes, RollbackNext
<1>6. CASE RecoverStop
  BY <1>0, <1>6, <1>p, StopTypes DEF DataTypes, RecoverStop, StopScope, StopSome
<1>7. CASE RestoreVolume
  BY <1>0, <1>7, <1>p, RestoreTypes DEF DataTypes, RestoreVolume
<1>8. CASE RestoreBound
  <2>1. restored' \in [Providers -> RestorePhases]
    BY <1>0, <1>8, <1>p, WriteTypes DEF DataTypes, RestoreBound, RestorePhases
  <2>2. compose' \in [Providers -> Images]
    <3>1. pc.p \in Providers /\ point[pc.p].conf \in Images
      BY <1>0, <1>8, <1>p DEF DataTypes, RestoreBound
    <3>2. Replayed(pc.p) \in [Providers -> Images]
      BY <1>0, <3>1, WriteTypes DEF DataTypes, Replayed
    <3>3. QED
      BY <1>0, <1>8, <3>2 DEF DataTypes, RestoreBound
  <2>3. QED
    BY <1>0, <1>8, <2>1, <2>2 DEF DataTypes, RestoreBound
<1>9. CASE RestoreSQL
  BY <1>0, <1>9, <1>p, RestoreTypes DEF DataTypes, RestoreSQL
<1>10. CASE RestoreNote
  <2>1. restored' \in [Providers -> RestorePhases]
    BY <1>0, <1>10, <1>p, WriteTypes DEF DataTypes, RestoreNote, RestorePhases
  <2>2. QED
    BY <1>0, <1>10, <2>1 DEF DataTypes, RestoreNote
<1>11. CASE Unstage
  <2>1. compose' \in [Providers -> Images]
    BY <1>0, <1>11, <1>p, WriteTypes DEF DataTypes, Unstage, Images
  <2>2. QED
    BY <1>0, <1>11, <2>1 DEF DataTypes, Unstage
<1>12. CASE Restart
  BY <1>0, <1>12, <1>p, StartTypes DEF DataTypes, Restart, StartProject, StartSome
<1>13. CASE Recheck
  <2>1. settled' \in [Providers -> BOOLEAN]
    BY <1>0, <1>13, <1>p, WriteTypes DEF DataTypes, Recheck
  <2>2. QED
    BY <1>0, <1>13, <2>1 DEF DataTypes, Recheck
<1>14. CASE Quiesce
  BY <1>0, <1>14, <1>p, StopTypes DEF DataTypes, Quiesce, StopScope, StopSome
<1>15. CASE Capture
  <2>1. point' \in Points
    BY <1>0, <1>15, <1>p, <1>q, PointTypes DEF Capture, PointStates
  <2>2. QED
    BY <1>0, <1>15, <2>1 DEF DataTypes, Capture, Points
<1>16. CASE Complete
  <2>1. point' \in Points
    BY <1>0, <1>16, <1>p, <1>q, PointTypes DEF Complete, PointStates
  <2>2. QED
    BY <1>0, <1>16, <2>1 DEF DataTypes, Complete, Points
<1>17. CASE Seal
  <2>1. point' \in Points
    BY <1>0, <1>17, <1>p, <1>q, PointTypes DEF Seal, PointStates
  <2>2. QED
    BY <1>0, <1>17, <2>1 DEF DataTypes, Seal, Points
<1>18. CASE Checkpoint
  <2>1. ckpt' \in Checkpoints
    <3>1. /\ pc.p \in Providers
          /\ \/ ckpt' = ckpt
             \/ ckpt' = [ckpt EXCEPT ![pc.p] = [status |-> "ok", saved |-> compose]]
             \/ ckpt' = [ckpt EXCEPT ![pc.p].status = "torn"]
      BY <1>18, <1>p DEF Checkpoint
    <3>2. ckpt \in Checkpoints
      BY <1>0 DEF DataTypes
    <3>3. QED
      BY <1>0, <3>1, <3>2, WriteTypes
  <2>2. QED
    BY <1>0, <1>18, <2>1 DEF DataTypes, Checkpoint
<1>19. CASE Stage
  <2>1. compose' \in [Providers -> Images]
    BY <1>0, <1>19, <1>p, WriteTypes DEF DataTypes, Stage, Images
  <2>2. QED
    BY <1>0, <1>19, <2>1 DEF DataTypes, Stage
<1>20. CASE Start
  BY <1>0, <1>20, <1>p, StartTypes DEF DataTypes, Start, StartProject, StartSome
<1>21. CASE Verify
  BY <1>0, <1>21 DEF DataTypes, Verify
<1>22. CASE Note
  BY <1>0, <1>22, <1>p, RecordedTypes DEF DataTypes, Note, RecordFails
<1>23. CASE Log
  BY <1>0, <1>23, <1>p, RecordedTypes DEF DataTypes, Log, RecordFails
<1>24. CASE Crash
  <2>1. data' \in [Providers -> Data]
    BY <1>0, <1>24, <1>p, RestoreTypes DEF DataTypes, Crash
  <2>2. ckpt' \in Checkpoints
    <3>1. \/ ckpt' = ckpt
          \/ pc.p \in Providers /\ ckpt' = [ckpt EXCEPT ![pc.p].status = "torn"]
      BY <1>24, <1>p DEF Crash
    <3>2. ckpt \in Checkpoints
      BY <1>0 DEF DataTypes
    <3>3. QED
      BY <1>0, <3>1, <3>2, WriteTypes
  <2>3. point' \in Points
    BY <1>0, <1>24, <1>p, <1>q, PointTypes DEF Crash, PointStates
  <2>4. QED
    BY <1>0, <1>24, <2>1, <2>2, <2>3 DEF DataTypes, Crash, Points
<1>25. ASSUME NEW p \in Providers, Write(p) PROVE DataTypes'
  BY <1>0, <1>25, WritesTypes DEF DataTypes, Write
<1>26. ASSUME NEW kind \in {"up", "apply"}, BeginUp(kind)
       PROVE  DataTypes'
  BY <1>0, <1>26, BeginUpFacts DEF DataTypes
<1>27. CASE UpStep
  <2>1. compose' \in [Providers -> Images] /\ bypassed' \in SUBSET Providers
    BY <1>0, <1>27, UpFacts DEF DataTypes, UpSet, Render, Images, Native
  <2>2. /\ up' \in [Providers -> BOOLEAN]
        /\ image' \in [Providers -> Images]
        /\ data' \in [Providers -> Data]
    <3>1. CASE UNCHANGED <<image, up, data>>
      BY <1>0, <3>1 DEF DataTypes
    <3>2. ASSUME NEW S, UpSet(S)
          PROVE  /\ up' \in [Providers -> BOOLEAN]
                 /\ image' \in [Providers -> Images]
                 /\ data' \in [Providers -> Data]
      BY <1>0, <3>2, StartTypes DEF UpSet
    <3>3. QED
      BY <1>27, <3>1, <3>2, UpFacts
  <2>3. QED
    BY <1>0, <1>27, <2>1, <2>2, UpFacts DEF DataTypes
<1>28. CASE UNCHANGED vars
  BY <1>0, <1>28 DEF DataTypes, vars
<1>29. QED
  BY <1>1, <1>2, <1>3, <1>4, <1>5, <1>6, <1>7, <1>8, <1>9, <1>10, <1>11, <1>12, <1>13, <1>14,
     <1>15, <1>16, <1>17, <1>18, <1>19, <1>20, <1>21, <1>22, <1>23, <1>24, <1>25, <1>26, <1>27,
     <1>28
     DEF Next, Step

LEMMA TypeStep ==
  ASSUME TypeOK, PlaceInv, [Next]_vars
  PROVE  TypeOK' /\ PlaceInv'
BY PlaceStep, DataStep DEF TypeOK, DataTypes, PcType, Outcomes, Checkpoints

-----------------------------------------------------------------------------
(* The journal and the receipts.                                           *)

(* Log writes the entry or leaves the journal alone, and goes on by status. *)
LEMMA LogMoves ==
  ASSUME TypeOK, PlaceInv, Log
  PROVE  /\ pc' \in PcType
         /\ \/ /\ journal' \in {journal, Recorded(journal)}
               /\ \/ /\ pc.pass # "rollback"
                     /\ pc'.at = "rollback" /\ pc'.p = 1 /\ pc'.pass = "rollback"
                  \/ /\ pc.pass = "rollback"
                     /\ pc'.at = "idle" /\ pc'.pass = "none"
            \/ /\ journal' = Recorded(journal) /\ Recordable(journal)
               /\ \/ /\ pc.status = "applying" /\ pc'.pass = pc.pass /\ pc'.p = pc.p
                     /\ pc'.at = IF pc.p \in Bound THEN "stage" ELSE "checkpoint"
                  \/ /\ pc.status = "verified"
                     /\ pc'.at = "execute" /\ pc'.p = pc.p + 1 /\ pc'.pass = "none"
                  \/ /\ pc.status = "recovered"
                     /\ pc'.at = "rollback" /\ pc'.p = pc.p + 1 /\ pc'.pass = "rollback"
<1>0. /\ pc \in PcType /\ pc.p \in Providers /\ pc.p + 1 \in 0..N+1
      /\ \/ pc.status \in DoneStates \cup {"applying"} /\ pc.pass = "none"
         \/ pc.status = "recovered" /\ pc.pass = "rollback"
  BY NAssumption DEF TypeOK, PcType, PlaceInv, Log, At, WorkStages, RecordStages, Providers
<1>1. ASSUME Fail, journal' \in {journal, Recorded(journal)}
      PROVE  /\ pc' \in PcType
             /\ \/ /\ pc.pass # "rollback"
                   /\ pc'.at = "rollback" /\ pc'.p = 1 /\ pc'.pass = "rollback"
                \/ /\ pc.pass = "rollback"
                   /\ pc'.at = "idle" /\ pc'.pass = "none"
  BY <1>0, <1>1, FailFacts
<1>2. ASSUME AfterRecord, journal' = Recorded(journal), pc.status = "applying"
      PROVE  /\ pc' \in PcType /\ pc'.pass = pc.pass /\ pc'.p = pc.p
             /\ pc'.at = IF pc.p \in Bound THEN "stage" ELSE "checkpoint"
  <2>1. Goto(IF pc.p \in Bound THEN "stage" ELSE "checkpoint")
    BY <1>2 DEF AfterRecord
  <2>2. (IF pc.p \in Bound THEN "stage" ELSE "checkpoint") \in Stages
    BY DEF Stages
  <2>3. QED
    BY <1>0, <2>1, <2>2, GotoFacts
<1>3. ASSUME AfterRecord, journal' = Recorded(journal), pc.status = "verified"
      PROVE  /\ pc' \in PcType
             /\ pc'.at = "execute" /\ pc'.p = pc.p + 1 /\ pc'.pass = "none"
  BY <1>0, <1>3, GotoAtFacts DEF AfterRecord, Stages, JournalStates
<1>4. ASSUME AfterRecord, journal' = Recorded(journal), pc.status = "recovered"
      PROVE  /\ pc' \in PcType
             /\ pc'.at = "rollback" /\ pc'.p = pc.p + 1 /\ pc'.pass = "rollback"
  BY <1>0, <1>4, GotoAtFacts DEF AfterRecord, Stages, JournalStates
<1>5. ASSUME AfterRecord, journal' = Recorded(journal), pc.status \in {"apply_failed", "verify_failed"}
      PROVE  /\ pc' \in PcType /\ pc.pass # "rollback"
             /\ pc'.at = "rollback" /\ pc'.p = 1 /\ pc'.pass = "rollback"
  BY <1>0, <1>5, AbortFacts DEF AfterRecord
<1>6. QED
  BY <1>0, <1>1, <1>2, <1>3, <1>4, <1>5 DEF Log, DoneStates

(* What is mutated is journaled "applying", what is recovered is journaled *)
(* as interrupted, and the journal speaks after the receipts.              *)
LEMMA JournalStep ==
  ASSUME TypeOK, PlaceInv, JournalInv, [Next]_vars
  PROVE  JournalInv'
<1> USE DEF JournalInv, JournalFollowsReceipts, Mutating, Recovering, WorkStages, RecoverStages,
        PrepareStages, ApplyStages, RecordStages, DoneStates, Interrupted, Native, At, records
<1>0. /\ pc \in PcType
      /\ journal \in [Providers -> JournalStates]
      /\ receipts \in [Providers -> JournalStates]
      /\ todo \subseteq Providers
      /\ pc.at \in WorkStages => pc.p \in Providers
  BY DEF TypeOK, PcType, PlaceInv
<1>1. CASE BeginAttempt
  BY <1>0, <1>1, NAssumption, GotoAtMoves, ReturnFacts DEF BeginAttempt
<1>2. CASE Preflight
  BY <1>0, <1>2, NAssumption, GotoAtMoves, AbortFacts DEF Preflight
<1>3. CASE ResumeNext
  BY <1>0, <1>3, NAssumption, GotoAtMoves, AbortFacts DEF ResumeNext, Providers, IsFirst,
     ToResume, InterruptedIn
<1>4. CASE ExecuteNext
  BY <1>0, <1>4, NAssumption, GotoAtMoves, ReturnFacts DEF ExecuteNext, Providers, Interrupted
<1>5. CASE RollbackNext
  BY <1>0, <1>5, NAssumption, GotoAtMoves, ReturnFacts DEF RollbackNext, Providers, IsFirst,
     ToRollBack, InterruptedIn
<1>6. CASE RecoverStop
  BY <1>0, <1>6, GotoMoves, FailFacts DEF RecoverStop
<1>7. CASE RestoreVolume
  BY <1>0, <1>7, GotoMoves, FailFacts DEF RestoreVolume
<1>8. CASE RestoreBound
  BY <1>0, <1>8, GotoMoves, FailFacts DEF RestoreBound
<1>9. CASE RestoreSQL
  BY <1>0, <1>9, GotoMoves, FailFacts DEF RestoreSQL
<1>10. CASE RestoreNote
  BY <1>0, <1>10, GotoMoves, FailFacts DEF RestoreNote
<1>11. CASE Unstage
  BY <1>0, <1>11, GotoMoves, FailFacts DEF Unstage
<1>12. CASE Restart
  BY <1>0, <1>12, GotoMoves, FailFacts DEF Restart
<1>13. CASE Recheck
  BY <1>0, <1>13, NAssumption, GotoAtMoves, RecordMoves, FailFacts DEF Recheck, Providers
<1>14. CASE Quiesce
  BY <1>0, <1>14, GotoMoves, AbortFacts DEF Quiesce
<1>15. CASE Capture
  BY <1>0, <1>15, GotoMoves, RecordMoves, AbortFacts DEF Capture
<1>16. CASE Complete
  BY <1>0, <1>16, GotoMoves, AbortFacts DEF Complete
<1>17. CASE Seal
  BY <1>0, <1>17, RecordMoves, AbortFacts DEF Seal, JournalStates
<1>18. CASE Checkpoint
  BY <1>0, <1>18, GotoMoves, RecordMoves, AbortFacts DEF Checkpoint
<1>19. CASE Stage
  BY <1>0, <1>19, GotoMoves, RecordMoves DEF Stage
<1>20. CASE Start
  BY <1>0, <1>20, GotoMoves, RecordMoves DEF Start
<1>21. CASE Verify
  BY <1>0, <1>21, RecordMoves DEF Verify, JournalStates
<1>22. CASE Note
  BY <1>0, <1>22, GotoMoves, FailFacts DEF Note, Recorded, Recordable
<1>23. CASE Log
  <2>1. /\ receipts' = receipts /\ receipts[pc.p] = pc.status /\ pc.p \in Providers
        /\ journal' \in {journal, [journal EXCEPT ![pc.p] = pc.status]}
    BY <1>0, <1>23 DEF Log, Recorded
  <2>2. JournalFollowsReceipts'
    BY <1>0, <2>1
  <2>3. \/ pc'.at \in {"idle", "execute", "rollback"}
        \/ /\ pc'.at \in {"stage", "checkpoint"} /\ pc'.p = pc.p
           /\ journal' = [journal EXCEPT ![pc.p] = "applying"]
    BY <1>23, LogMoves DEF Recorded
  <2>4. QED
    BY <1>0, <2>1, <2>2, <2>3
<1>24. CASE Crash
  BY <1>0, <1>24 DEF Crash, Idle
<1>25. ASSUME NEW p \in Providers, Write(p) PROVE JournalInv'
  BY <1>0, <1>25 DEF Write
<1>26. ASSUME NEW kind \in {"up", "apply"}, BeginUp(kind)
       PROVE  JournalInv'
  BY <1>0, <1>26, BeginUpFacts DEF UpStages
<1>27. CASE UpStep
  BY <1>0, <1>27, UpFacts DEF UpStages
<1>28. CASE UNCHANGED vars
  BY <1>0, <1>28 DEF vars
<1>29. QED
  BY <1>1, <1>2, <1>3, <1>4, <1>5, <1>6, <1>7, <1>8, <1>9, <1>10, <1>11, <1>12, <1>13, <1>14,
     <1>15, <1>16, <1>17, <1>18, <1>19, <1>20, <1>21, <1>22, <1>23, <1>24, <1>25, <1>26, <1>27,
     <1>28
     DEF Next, Step

-----------------------------------------------------------------------------
(* The images.                                                             *)

LEMMA ScopeFacts ==
  ASSUME NEW p \in Providers
  PROVE  /\ p \in Scope(p) /\ Scope(p) \subseteq Providers
         /\ p \in Bound => Scope(p) = {p}
         /\ p \in Native => Scope(p) = Providers
         /\ p \in Project(p) /\ Project(p) \subseteq Providers
BY CoreAssumption DEF Scope, Project, File, Native, Providers

(* A start changes an image only to what the Compose file declares.        *)
LEMMA StartImages ==
  ASSUME NEW S, StartSet(S), NEW q \in Providers
  PROVE  /\ image'[q] \in {image[q], compose[q]}
         /\ q \in S => image'[q] = compose[q]
BY DEF StartSet

(* A verified provider keeps its pinned image: only what the journal holds *)
(* as interrupted is ever unstaged.                                        *)
LEMMA ImageStep ==
  ASSUME TypeOK, PlaceInv, JournalInv, ImageInv, [Next]_vars
  PROVE  ImageInv'
<1> USE DEF ImageInv, VerifiedIsLive, Recovering, WorkStages, RecoverStages, PrepareStages,
        ApplyStages, RecordStages, Interrupted, At, records, runtime
<1>0. /\ pc \in PcType
      /\ journal \in [Providers -> JournalStates]
      /\ compose \in [Providers -> Images]
      /\ todo \subseteq Providers
      /\ pc.at \in WorkStages => pc.p \in Providers
      /\ Recovering => journal[pc.p] \in Interrupted
  BY DEF TypeOK, PcType, PlaceInv, JournalInv
<1>1. CASE BeginAttempt
  BY <1>0, <1>1, NAssumption, GotoAtMoves, ReturnFacts DEF BeginAttempt
<1>2. CASE Preflight
  BY <1>0, <1>2, NAssumption, GotoAtMoves, AbortFacts DEF Preflight
<1>3. CASE ResumeNext
  BY <1>0, <1>3, NAssumption, GotoAtMoves, AbortFacts DEF ResumeNext, Providers
<1>4. CASE ExecuteNext
  BY <1>0, <1>4, NAssumption, GotoAtMoves, ReturnFacts DEF ExecuteNext, Providers
<1>5. CASE RollbackNext
  BY <1>0, <1>5, NAssumption, GotoAtMoves, ReturnFacts DEF RollbackNext, Providers
<1>6. CASE RecoverStop
  BY <1>0, <1>6, GotoMoves, FailFacts DEF RecoverStop, StopScope, StopSome, StopSet
<1>7. CASE RestoreVolume
  BY <1>0, <1>7, GotoMoves, FailFacts DEF RestoreVolume
<1>8. CASE RestoreBound
  BY <1>0, <1>8, GotoMoves, FailFacts DEF RestoreBound, Replayed
<1>9. CASE RestoreSQL
  BY <1>0, <1>9, GotoMoves, FailFacts DEF RestoreSQL
<1>10. CASE RestoreNote
  BY <1>0, <1>10, GotoMoves, FailFacts DEF RestoreNote
<1>11. CASE Unstage
  BY <1>0, <1>11, GotoMoves, FailFacts DEF Unstage
<1>12. CASE Restart
  BY <1>0, <1>12, GotoMoves, FailFacts, StartImages, ScopeFacts DEF Restart, StartProject,
     StartSome
<1>13. CASE Recheck
  BY <1>0, <1>13, NAssumption, GotoAtMoves, RecordMoves, FailFacts DEF Recheck, Providers
<1>14. CASE Quiesce
  BY <1>0, <1>14, GotoMoves, AbortFacts DEF Quiesce, StopScope, StopSome, StopSet
<1>15. CASE Capture
  BY <1>0, <1>15, GotoMoves, RecordMoves, AbortFacts DEF Capture
<1>16. CASE Complete
  BY <1>0, <1>16, GotoMoves, AbortFacts DEF Complete
<1>17. CASE Seal
  BY <1>0, <1>17, RecordMoves, AbortFacts DEF Seal, JournalStates
<1>18. CASE Checkpoint
  BY <1>0, <1>18, GotoMoves, RecordMoves, AbortFacts DEF Checkpoint
<1>19. CASE Stage
  BY <1>0, <1>19, GotoMoves, RecordMoves DEF Stage
<1>20. CASE Start
  BY <1>0, <1>20, GotoMoves, RecordMoves, StartImages, ScopeFacts DEF Start, StartProject, StartSome
<1>21. CASE Verify
  BY <1>0, <1>21, RecordMoves DEF Verify, JournalStates
<1>22. CASE Note
  BY <1>0, <1>22, GotoMoves, FailFacts DEF Note
<1>23. CASE Log
  <2>1. /\ image' = image /\ compose' = compose /\ bypassed' = bypassed /\ pc.p \in Providers
        /\ journal' \in {journal, [journal EXCEPT ![pc.p] = pc.status]}
        /\ pc.status = "verified" => image[pc.p] = "pinned" /\ compose[pc.p] = "pinned"
    BY <1>0, <1>23 DEF Log, Recorded
  <2>2. VerifiedIsLive'
    BY <1>0, <2>1
  <2>3. pc'.at \in {"idle", "execute", "rollback", "stage", "checkpoint"}
    BY <1>23, LogMoves
  <2>4. QED
    BY <2>2, <2>3
<1>24. CASE Crash
  BY <1>0, <1>24 DEF Crash, Idle
<1>25. ASSUME NEW p \in Providers, Write(p) PROVE ImageInv'
  BY <1>0, <1>25 DEF Write
<1>26. ASSUME NEW kind \in {"up", "apply"}, BeginUp(kind)
       PROVE  ImageInv'
  BY <1>0, <1>26, BeginUpFacts DEF UpStages
<1>27. CASE UpStep
  <2>1. VerifiedIsLive'
    BY <1>0, <1>27, UpFacts, StartImages DEF UpSet, Render
  <2>2. QED
    BY <1>27, <2>1, UpFacts DEF UpStages
<1>28. CASE UNCHANGED vars
  BY <1>0, <1>28 DEF vars
<1>29. QED
  BY <1>1, <1>2, <1>3, <1>4, <1>5, <1>6, <1>7, <1>8, <1>9, <1>10, <1>11, <1>12, <1>13, <1>14,
     <1>15, <1>16, <1>17, <1>18, <1>19, <1>20, <1>21, <1>22, <1>23, <1>24, <1>25, <1>26, <1>27,
     <1>28
     DEF Next, Step

-----------------------------------------------------------------------------
(* Plan order.                                                             *)

(* A provider is mutated only when every earlier one is verified; what a   *)
(* later attempt finds unchanged is in the journal.                        *)
LEMMA OrderStep ==
  ASSUME TypeOK, PlaceInv, JournalInv, ImageInv, OrderInv, [Next]_vars
  PROVE  OrderInv'
<1> USE NAssumption DEF OrderInv, InOrder, PinnedIsJournaled, Executing, Resuming, Live,
        Recovering, Mutating, WorkStages, RecoverStages, PrepareStages, ApplyStages, RecordStages,
        Interrupted, At, records, runtime, attempt, Images
<1>0. /\ pc \in PcType
      /\ journal \in [Providers -> JournalStates]
      /\ compose \in [Providers -> Images]
      /\ image \in [Providers -> Images]
      /\ todo \subseteq Providers
      /\ pc.at \in WorkStages => pc.p \in Providers
  BY DEF TypeOK, PcType, PlaceInv
<1>1a. /\ Recovering => journal[pc.p] \in Interrupted
       /\ Mutating => journal[pc.p] = "applying"
  BY DEF JournalInv
<1>1b. /\ pc.at \in RecoverStages => pc.pass \in {"resume", "rollback"}
       /\ pc.at = "rollback" => pc.pass = "rollback"
       /\ pc.at \in PrepareStages \cup ApplyStages \cup {"execute", "checkpoint"} => pc.pass = "none"
       /\ pc.at \in RecordStages => pc.pass # "resume"
  BY DEF PlaceInv
<1>1. CASE BeginAttempt
  BY <1>0, <1>1, NAssumption, GotoAtMoves, ReturnFacts DEF BeginAttempt,
     InterruptedIn
<1>2. CASE Preflight
  BY <1>0, <1>2, NAssumption, GotoAtMoves, AbortFacts, <1>1b DEF Preflight, Providers
<1>3. CASE ResumeNext
  <2>1. PICK p \in 1..N+1 :
          /\ IsFirst(p, InterruptedIn(journal), pc.p)
          /\ \/ p = N + 1 /\ GotoAt("execute", 1, "none", "none")
             \/ p \in todo /\ GotoAt("stop", p, "resume", "none")
             \/ Abort
    BY <1>3 DEF ResumeNext, ToResume
  <2>2. /\ UNCHANGED <<image, compose, todo, prior, journal>>
        /\ pc.at = "resume"
    BY <1>3 DEF ResumeNext
  <2>3. CASE p = N + 1 /\ GotoAt("execute", 1, "none", "none")
    <3>1. \A r \in Providers \ todo : journal[r] = "verified"
      BY <1>0, <2>1, <2>2, <2>3 DEF IsFirst, InterruptedIn, Providers, PcType
    <3>2. pc'.at = "execute" /\ pc'.p = 1 /\ pc'.pass = "none"
      BY <2>3, GotoAtMoves
    <3>3. QED
      BY <2>2, <3>1, <3>2 DEF Providers
  <2>4. CASE p \in todo /\ GotoAt("stop", p, "resume", "none")
    <3>1. pc'.at = "stop" /\ pc'.p = p /\ pc'.pass = "resume"
      BY <2>4, GotoAtMoves
    <3>2. QED
      BY <2>2, <2>4, <3>1
  <2>5. CASE Abort
    BY <2>2, <2>5, AbortFacts
  <2>6. QED
    BY <2>1, <2>3, <2>4, <2>5
<1>4. CASE ExecuteNext
  <2>1. PICK p \in 1..N+1 :
          /\ IsFirst(p, {q \in todo : journal[q] # "verified"}, pc.p)
          /\ \/ GotoAt("quiesce", p, "none", "none")
             \/ GotoAt("note", p, "none", "applying")
             \/ GotoAt("checkpoint", p, "none", "none")
             \/ \E r : Return(r)
    BY <1>4 DEF ExecuteNext
  <2>2. /\ UNCHANGED <<image, compose, todo, prior, journal>>
        /\ pc.at = "execute"
    BY <1>4 DEF ExecuteNext
  <2>3. \A r \in Providers : r < p \/ r \notin todo => journal[r] = "verified"
    BY <1>0, <2>1, <2>2 DEF IsFirst, Providers, PcType
  <2>4. \/ pc'.at = "idle" /\ pc'.pass = "none"
        \/ /\ pc'.at \in {"quiesce", "checkpoint"} \/ (pc'.at = "note" /\ pc'.status = "applying")
           /\ pc'.p = p /\ pc'.pass = "none"
    BY <2>1, GotoAtMoves, ReturnFacts
  <2>5. QED
    BY <2>2, <2>3, <2>4
<1>5. CASE RollbackNext
  BY <1>0, <1>5, NAssumption, GotoAtMoves, ReturnFacts, <1>1b DEF RollbackNext, Providers
<1>6. CASE RecoverStop
  BY <1>0, <1>6, GotoMoves, FailFacts, <1>1b DEF RecoverStop, StopScope, StopSome,
     StopSet
<1>7. CASE RestoreVolume
  BY <1>0, <1>7, GotoMoves, FailFacts, <1>1b DEF RestoreVolume
<1>8. CASE RestoreBound
  BY <1>0, <1>8, GotoMoves, FailFacts, <1>1a, <1>1b DEF RestoreBound, Replayed
<1>9. CASE RestoreSQL
  BY <1>0, <1>9, GotoMoves, FailFacts, <1>1b DEF RestoreSQL
<1>10. CASE RestoreNote
  BY <1>0, <1>10, GotoMoves, FailFacts, <1>1b DEF RestoreNote
<1>11. CASE Unstage
  BY <1>0, <1>11, GotoMoves, FailFacts, <1>1b DEF Unstage
<1>12. CASE Restart
  BY <1>0, <1>12, GotoMoves, FailFacts, <1>1b, StartImages DEF Restart, StartProject,
     StartSome
<1>13. CASE Recheck
  BY <1>0, <1>13, NAssumption, GotoAtMoves, RecordMoves, FailFacts, <1>1a, <1>1b DEF Recheck,
     Providers
<1>14. CASE Quiesce
  BY <1>0, <1>14, GotoMoves, AbortFacts, <1>1b DEF Quiesce, StopScope, StopSome, StopSet
<1>15. CASE Capture
  BY <1>0, <1>15, GotoMoves, RecordMoves, AbortFacts, <1>1b DEF Capture
<1>16. CASE Complete
  BY <1>0, <1>16, GotoMoves, AbortFacts, <1>1b DEF Complete
<1>17. CASE Seal
  BY <1>0, <1>17, RecordMoves, AbortFacts, <1>1b DEF Seal, JournalStates
<1>18. CASE Checkpoint
  BY <1>0, <1>18, GotoMoves, RecordMoves, AbortFacts, <1>1b DEF Checkpoint
<1>19. CASE Stage
  BY <1>0, <1>19, GotoMoves, RecordMoves, <1>1a, <1>1b DEF Stage
<1>20. CASE Start
  BY <1>0, <1>20, GotoMoves, RecordMoves, <1>1b, StartImages DEF Start,
     StartProject, StartSome
<1>21. CASE Verify
  BY <1>0, <1>21, RecordMoves, <1>1b DEF Verify, JournalStates
<1>22. CASE Note
  BY <1>0, <1>22, GotoMoves, FailFacts, <1>1b DEF Note
<1>23. CASE Log
  <2>0. /\ image' = image /\ compose' = compose /\ todo' = todo /\ prior' = prior
        /\ pc.p \in Providers
        /\ pc.status \in DoneStates \cup {"applying", "recovered"}
        /\ pc.status # "recovered" => pc.pass = "none"
    BY <1>0, <1>23 DEF Log, PlaceInv
  <2>1. \/ journal' = journal
        \/ /\ journal' = [journal EXCEPT ![pc.p] = pc.status]
           /\ journal[pc.p] = "verified" => pc.status = "verified"
    BY <1>23 DEF Log, Recorded, Recordable
  <2>2. \A r \in Providers : r < pc.p => journal[r] = "verified"
    BY <1>0, <1>1a, <1>23, <2>0 DEF Log, DoneStates, Providers
  <2>3. InOrder'
    BY <1>0, <2>0, <2>1, <2>2 DEF Providers
  <2>4. pc.status = "recovered" => image[pc.p] = "orig" /\ compose[pc.p] = "orig"
    BY <1>23 DEF ImageInv, Log
  <2>5. PinnedIsJournaled'
    BY <1>0, <2>0, <2>1, <2>4 DEF DoneStates
  <2>6. \/ pc'.at \in {"idle", "rollback"} /\ pc'.pass # "resume"
        \/ /\ journal' = [journal EXCEPT ![pc.p] = pc.status]
           /\ journal[pc.p] = "verified" => pc.status = "verified"
           /\ pc.status \in {"applying", "verified"}
           /\ \/ pc.status = "applying" /\ pc'.at \in {"stage", "checkpoint"} /\ pc'.p = pc.p
              \/ pc.status = "verified" /\ pc'.at = "execute" /\ pc'.p = pc.p + 1
           /\ pc'.pass = "none"
    BY <1>23, <2>0, LogMoves DEF Recorded, Recordable
  <2>7. Executing' => \A r \in Providers : r < pc'.p \/ r \notin todo' => journal'[r] = "verified"
    <3>1. CASE pc.status = "applying"
      BY <1>0, <1>23, <2>0, <2>2, <2>6, <3>1 DEF Log, Providers
    <3>2. CASE pc.status = "verified"
      BY <1>0, <1>23, <2>0, <2>2, <2>6, <3>2 DEF Log, Providers
    <3>3. QED
      BY <2>6, <3>1, <3>2
  <2>8. QED
    BY <2>3, <2>5, <2>6, <2>7
<1>24. CASE Crash
  BY <1>0, <1>24 DEF Crash, Idle
<1>25. ASSUME NEW p \in Providers, Write(p) PROVE OrderInv'
  BY <1>0, <1>25 DEF Write
<1>26. ASSUME NEW kind \in {"up", "apply"}, BeginUp(kind)
       PROVE  OrderInv'
  BY <1>0, <1>26, BeginUpFacts DEF UpStages, InterruptedIn
<1>27. CASE UpStep
  <2>1. PinnedIsJournaled'
    BY <1>0, <1>27, UpFacts, StartImages DEF UpSet, Render
  <2>2. ~Executing' /\ ~Resuming' /\ pc'.at \notin RecoverStages
    BY <1>27, UpFacts DEF UpStages, PlaceInv
  <2>3. QED
    BY <1>27, <2>1, <2>2, UpFacts DEF UpStages
<1>28. CASE UNCHANGED vars
  BY <1>0, <1>28 DEF vars
<1> HIDE DEF OrderInv
<1>29. QED
  BY <1>1, <1>2, <1>3, <1>4, <1>5, <1>6, <1>7, <1>8, <1>9, <1>10, <1>11, <1>12, <1>13, <1>14,
     <1>15, <1>16, <1>17, <1>18, <1>19, <1>20, <1>21, <1>22, <1>23, <1>24, <1>25, <1>26, <1>27,
     <1>28
     DEF Next, Step

(* Two interrupted providers would contradict plan order.                  *)
LEMMA OneInterrupted ==
  ASSUME TypeOK, OrderInv
  PROVE  AtMostOneInterrupted
<1> SUFFICES ASSUME NEW p \in InterruptedIn(journal), NEW q \in InterruptedIn(journal), p < q
             PROVE  FALSE
  BY NAssumption DEF AtMostOneInterrupted, InterruptedIn, Providers
<1>1. p \in Providers /\ q \in Providers /\ journal[p] \in Interrupted /\ journal[q] \in Interrupted
  BY DEF InterruptedIn
<1>2. QED
  BY <1>1 DEF OrderInv, InOrder, Interrupted

-----------------------------------------------------------------------------
(* Half restored data.                                                     *)

(* What the helpers do to the data of each provider.                       *)
LEMMA StartData ==
  ASSUME DataTypes, NEW S, StartSet(S), NEW q \in Providers
  PROVE  /\ up'[q] => up[q] \/ q \in S
         /\ data'[q].writes = data[q].writes
         /\ \/ data'[q].format = data[q].format
            \/ q \in S /\ compose[q] = "pinned" /\ data'[q].format = "pinned"
         /\ q \in S => image'[q] = compose[q]
         /\ q \notin S => image'[q] = image[q] /\ data'[q] = data[q]
<1>1. data[q] \in Data
  BY DEF DataTypes
<1>2. /\ [data[q] EXCEPT !.format = "pinned"].writes = data[q].writes
      /\ [data[q] EXCEPT !.format = "pinned"].format = "pinned"
  BY <1>1, FormatTypes DEF Images
<1>3. QED
  BY <1>2 DEF StartSet

LEMMA RewoundData ==
  ASSUME NEW p, NEW q \in Providers
  PROVE  Rewound(p)[q] = IF q \in Scope(p) THEN point[p].copy[q] ELSE data[q]
BY DEF Rewound

LEMMA TornData ==
  ASSUME DataTypes, NEW p, NEW q \in Providers
  PROVE  /\ Torn(p)[q].writes = data[q].writes
         /\ Torn(p)[q].format = IF q \in Scope(p) THEN "torn" ELSE data[q].format
<1>1. data[q] \in Data
  BY DEF DataTypes
<1>2. QED
  BY <1>1, FormatTypes DEF Torn

LEMMA WriteData ==
  ASSUME DataTypes, NEW p \in Providers, Write(p), NEW q \in Providers
  PROVE  data'[q].format = data[q].format /\ data'[q].writes >= data[q].writes
<1>1. data[q] \in Data /\ data \in [Providers -> Data]
  BY DEF DataTypes
<1>2. QED
  BY <1>1, LimitsAssumption DEF Write, Data

LEMMA PointData ==
  ASSUME DataTypes, NEW p \in Providers, NEW s, point' = [point EXCEPT ![p].status = s],
         NEW q \in Providers
  PROVE  /\ point'[q].copy = point[q].copy
         /\ point'[q].status = IF q = p THEN s ELSE point[q].status
BY DEF DataTypes

LEMMA CaptureData ==
  ASSUME DataTypes, NEW p \in Providers, NEW q \in Providers,
         point' = [point EXCEPT ![p] = [status |-> "partial", copy |-> data, conf |-> @.conf]]
  PROVE  /\ q = p => point'[q].copy = data /\ point'[q].status = "partial"
         /\ q # p => point'[q] = point[q]
BY DEF DataTypes

LEMMA CompleteData ==
  ASSUME DataTypes, NEW p \in Providers, NEW q \in Providers, NEW c,
         point' = [point EXCEPT ![p] = [status |-> "whole", copy |-> @.copy, conf |-> c]]
  PROVE  /\ point'[q].copy = point[q].copy
         /\ point'[q].status = IF q = p THEN "whole" ELSE point[q].status
BY DEF DataTypes

(* Where no volume is left half way there is little to show.               *)
LEMMA NotTorn ==
  ASSUME \A q \in Providers : data'[q].format # "torn",
         \A p, q \in Providers : point'[p].copy[q].format # "torn",
         pc'.at # "restore"
  PROVE  TornInv'
BY DEF TornInv, Native

(* A half restored volume moves with its interrupted provider.             *)
LEMMA TornMoves ==
  ASSUME TornInv, UNCHANGED <<data, up, point, journal, bypassed>>,
         pc'.at # "restore",
         \A p \in Native : p \in InterruptedIn(journal) /\ TornPlace(p) => TornPlace(p)'
  PROVE  TornInv'
BY DEF TornInv, InterruptedIn

(* A volume that a restore left half way is not started again, but by      *)
(* `baha up`.                                                              *)
LEMMA TornStep ==
  ASSUME TypeOK, PlaceInv, JournalInv, OrderInv, TornInv, [Next]_vars
  PROVE  TornInv'
<1> USE DEF WorkStages, RecoverStages, PrepareStages, ApplyStages, RecordStages, UpStages, At,
        evidence, records, runtime, attempt
<1>0. /\ pc \in PcType
      /\ DataTypes
      /\ pc.at \in WorkStages => pc.p \in Providers
  BY DEF TypeOK, PcType, PlaceInv, DataTypes, Checkpoints
<1>1a. /\ pc.at \notin {"idle", "preflight", "rollback", "resume", "stop", "restore"} \cup UpStages =>
            \A q \in Providers : data[q].format # "torn"
       /\ \A p, q \in Providers : point[p].copy[q].format # "torn"
  BY DEF TornInv, TornPlace
<1>1b. Resuming => InterruptedIn(journal) \subseteq prior
  BY DEF OrderInv
<1>1c. \A p, q \in InterruptedIn(journal) : p = q
  BY OneInterrupted DEF AtMostOneInterrupted
<1>1. CASE BeginAttempt
  <2>1. UNCHANGED <<data, up, point, journal, bypassed>>
    BY <1>1 DEF BeginAttempt
  <2>2. pc'.at \in {"idle", "preflight"}
    BY <1>1, NAssumption, GotoAtMoves, ReturnFacts DEF BeginAttempt
  <2>3. QED
    BY <2>1, <2>2 DEF TornInv, TornPlace, InterruptedIn
<1>2. CASE Preflight
  <2>1. UNCHANGED <<data, up, point, journal, prior, bypassed>> /\ pc.at = "preflight"
    BY <1>2 DEF Preflight
  <2>2. \/ pc'.at = "resume" /\ pc'.p = 1
        \/ pc'.at = "rollback"
    BY <1>2, NAssumption, GotoAtMoves, AbortFacts DEF Preflight
  <2>3. InterruptedIn(journal) \subseteq prior
    BY <1>1b, <2>1 DEF Resuming
  <2>4. \A p \in Native : p \in InterruptedIn(journal) => TornPlace(p)'
    BY <2>1, <2>2, <2>3, NAssumption DEF TornPlace, InterruptedIn, Native, Providers
  <2>5. QED
    BY <2>1, <2>2, <2>4, TornMoves
<1>3. CASE ResumeNext
  <2>1. PICK p \in 1..N+1 :
          /\ IsFirst(p, InterruptedIn(journal), pc.p)
          /\ \/ p = N + 1 /\ GotoAt("execute", 1, "none", "none")
             \/ Abort
             \/ p \in todo /\ GotoAt("stop", p, "resume", "none")
    BY <1>3 DEF ResumeNext, ToResume
  <2>2. /\ UNCHANGED <<data, up, point, journal, prior, bypassed>>
        /\ pc.at = "resume"
    BY <1>3 DEF ResumeNext
  <2>3. \/ p = N + 1 /\ pc'.at = "execute"
        \/ pc'.at = "rollback"
        \/ pc'.at = "stop" /\ pc'.p = p /\ p # N + 1
    BY <2>1, NAssumption, GotoAtMoves, AbortFacts DEF Providers, TypeOK
  <2>4. InterruptedIn(journal) \subseteq prior
    BY <1>1b, <2>2 DEF Resuming
  <2>5. ASSUME NEW n \in Native, n \in InterruptedIn(journal), TornPlace(n)
        PROVE  TornPlace(n)'
    <3>1. n \in Providers /\ pc.p <= n
      BY <2>2, <2>5 DEF TornPlace, Native
    <3>2. p <= n /\ p # N + 1 /\ p \in InterruptedIn(journal)
      BY <2>1, <2>5, <3>1, NAssumption DEF IsFirst, Providers
    <3>3. p = n
      BY <1>1c, <2>5, <3>2
    <3>4. QED
      BY <2>2, <2>3, <2>4, <3>2, <3>3 DEF TornPlace, InterruptedIn
  <2>6. QED
    BY <2>2, <2>3, <2>5, TornMoves
<1>4. CASE ExecuteNext
  <2>1. UNCHANGED <<data, point>> /\ pc.at = "execute"
    BY <1>4 DEF ExecuteNext
  <2>2. pc'.at # "restore"
    BY <1>0, <1>4, NAssumption, GotoAtMoves, ReturnFacts DEF ExecuteNext, Providers
  <2>3. QED
    BY <1>1a, <2>1, <2>2, NotTorn
<1>5. CASE RollbackNext
  <2>1. PICK p \in 1..N+1 :
          /\ p \in ToRollBack \cup {N + 1}
          /\ \/ p \in Providers /\ GotoAt("stop", p, "rollback", "none")
             \/ Return("error")
    BY <1>5 DEF RollbackNext, IsFirst
  <2>2. /\ UNCHANGED <<data, up, point, journal, prior, bypassed>>
        /\ pc.at = "rollback"
    BY <1>5 DEF RollbackNext
  <2>3. CASE Return("error")
    BY <2>2, <2>3, ReturnFacts, TornMoves DEF TornPlace
  <2>4. CASE p \in Providers /\ GotoAt("stop", p, "rollback", "none")
    <3>1. p \in InterruptedIn(journal) \ prior
      BY <2>1, <2>4, NAssumption DEF ToRollBack, Providers
    <3>2. pc'.at = "stop"
      BY <2>4, GotoAtMoves
    <3>3. \A n \in Native : ~TornPlace(n)
      BY <2>2, <3>1 DEF TornPlace
    <3>4. QED
      BY <2>2, <3>2, <3>3, TornMoves
  <2>5. QED
    BY <2>1, <2>3, <2>4
<1>6. CASE RecoverStop
  <2>1. /\ UNCHANGED <<data, point, journal, prior, bypassed, image>>
        /\ pc.at = "stop" /\ pc.p \in Providers
    BY <1>0, <1>6 DEF RecoverStop, StopScope, StopSome, StopSet
  <2>2. \A q \in Providers : up'[q] => up[q]
    BY <1>6 DEF RecoverStop, StopScope, StopSome, StopSet
  <2>3. \/ /\ pc'.at = "restore" /\ pc'.p = pc.p
           /\ up' = [q \in Providers |-> up[q] /\ q \notin Scope(pc.p)]
        \/ pc'.at = "idle"
        \/ pc'.at = "rollback" /\ pc.pass # "rollback"
    BY <1>0, <1>6, GotoMoves, FailFacts DEF RecoverStop, StopScope, StopSet
  <2>4. pc.pass # "rollback" => InterruptedIn(journal) \subseteq prior
    BY <1>1b, <2>1 DEF Resuming, PlaceInv
  <2>5. pc'.at = "restore" /\ pc'.p \in Native => \A q \in Providers : ~up'[q]
    BY <2>1, <2>3, ScopeFacts
  <2>6. \A n \in Native : TornPlace(n) => TornPlace(n)'
    BY <2>1, <2>3, <2>4 DEF TornPlace, InterruptedIn
  <2>7. QED
    BY <2>1, <2>2, <2>5, <2>6 DEF TornInv, InterruptedIn, Native
<1>7. CASE RestoreVolume
  <2>0. /\ UNCHANGED <<up, point, journal, prior, bypassed>>
        /\ pc.p \in Native /\ pc.p \in Providers /\ pc.at = "restore"
        /\ \A q \in Providers : ~up[q]
    BY <1>0, <1>7 DEF RestoreVolume, TornInv
  <2>1. CASE Goto("unstage") /\ data' = Rewound(pc.p)
    <3>1. pc'.at = "unstage"
      BY <1>0, <2>1, GotoMoves
    <3>2. \A q \in Providers : data'[q].format # "torn"
      BY <1>1a, <2>0, <2>1, RewoundData, ScopeFacts
    <3>3. QED
      BY <1>1a, <2>0, <3>1, <3>2, NotTorn
  <2>2. CASE Fail
    <3>1. \/ pc'.at = "idle"
          \/ pc'.at = "rollback" /\ pc.pass # "rollback"
      BY <2>2, FailFacts
    <3>2. pc.pass # "rollback" => InterruptedIn(journal) \subseteq prior
      BY <1>1b, <2>0 DEF Resuming, PlaceInv
    <3>3. pc.p \in InterruptedIn(journal)
      BY <2>0 DEF JournalInv, Recovering, InterruptedIn
    <3>4. QED
      BY <1>1a, <2>0, <3>1, <3>2, <3>3 DEF TornInv, TornPlace, InterruptedIn, Native
  <2>3. QED
    BY <1>7, <2>1, <2>2 DEF RestoreVolume
<1>8. CASE RestoreBound
  <2>1. /\ UNCHANGED <<data, point, up, journal, prior, bypassed>>
        /\ pc.at = "restore" /\ pc.p \in Bound
    BY <1>8 DEF RestoreBound
  <2>2. pc'.at # "restore"
    BY <1>0, <1>8, GotoMoves, FailFacts DEF RestoreBound
  <2>3. \A n \in Native : ~TornPlace(n)
    BY <2>1 DEF TornPlace, Native
  <2>4. QED
    BY <2>1, <2>2, <2>3, TornMoves
<1>9. CASE RestoreSQL
  <2>0. /\ UNCHANGED <<up, point>>
        /\ pc.p \in Providers /\ pc.at = "restore_sql"
        /\ data' \in {data, Rewound(pc.p)}
    BY <1>0, <1>9 DEF RestoreSQL
  <2>1. \A q \in Providers : data'[q].format # "torn"
    BY <1>1a, <2>0, RewoundData
  <2>2. pc'.at # "restore"
    BY <1>0, <1>9, GotoMoves, FailFacts DEF RestoreSQL
  <2>3. QED
    BY <1>1a, <2>0, <2>1, <2>2, NotTorn
<1>10. CASE RestoreNote
  <2>1. UNCHANGED <<data, point>> /\ pc.at = "restore_note" /\ pc.p \in Bound
    BY <1>10 DEF RestoreNote, PlaceInv
  <2>2. pc'.at = "restore" => pc'.p = pc.p
    BY <1>0, <1>10, GotoMoves, FailFacts DEF RestoreNote
  <2>3. QED
    BY <1>1a, <2>1, <2>2 DEF TornInv, Native
<1>11. CASE Unstage
  <2>1. UNCHANGED <<data, point>> /\ pc.at = "unstage"
    BY <1>11 DEF Unstage
  <2>2. pc'.at # "restore"
    BY <1>0, <1>11, GotoMoves, FailFacts DEF Unstage
  <2>3. QED
    BY <1>1a, <2>1, <2>2, NotTorn
<1>12. CASE Restart
  <2>1. point' = point /\ pc.at = "restart" /\ pc.p \in Providers
    BY <1>0, <1>12 DEF Restart
  <2>2. pc'.at # "restore"
    BY <1>0, <1>12, GotoMoves, FailFacts DEF Restart
  <2>3. \A q \in Providers : data'[q].format # "torn"
    BY <1>0, <1>1a, <1>12, <2>1, StartData DEF Restart, StartProject, StartSome
  <2>4. QED
    BY <1>1a, <2>1, <2>2, <2>3, NotTorn
<1>13. CASE Recheck
  <2>1. UNCHANGED <<data, point>> /\ pc.at = "recheck"
    BY <1>13 DEF Recheck
  <2>2. pc'.at # "restore"
    BY <1>0, <1>13, NAssumption, GotoAtMoves, RecordMoves, FailFacts DEF Recheck, Providers
  <2>3. QED
    BY <1>1a, <2>1, <2>2, NotTorn
<1>14. CASE Quiesce
  <2>1. UNCHANGED <<data, point>> /\ pc.at = "quiesce"
    BY <1>14 DEF Quiesce, StopScope, StopSome, StopSet
  <2>2. pc'.at # "restore"
    BY <1>0, <1>14, GotoMoves, AbortFacts DEF Quiesce
  <2>3. QED
    BY <1>1a, <2>1, <2>2, NotTorn
<1>15. CASE Capture
  <2>1. UNCHANGED <<data, up>> /\ pc.at = "capture" /\ pc.p \in Providers
    BY <1>0, <1>15 DEF Capture
  <2>2. pc'.at # "restore"
    BY <1>0, <1>15, GotoMoves, RecordMoves, AbortFacts DEF Capture
  <2>3. \A p, q \in Providers : point'[p].copy[q] \in {point[p].copy[q], data[q]}
    BY <1>0, <1>15, <2>1, CaptureData DEF Capture
  <2>4. QED
    BY <1>1a, <2>1, <2>2, <2>3, NotTorn
<1>16. CASE Complete
  <2>1. UNCHANGED <<data, up>> /\ pc.at = "complete" /\ pc.p \in Providers
    BY <1>0, <1>16 DEF Complete
  <2>2. pc'.at # "restore"
    BY <1>0, <1>16, GotoMoves, RecordMoves, AbortFacts DEF Complete
  <2>3. \A q \in Providers : point'[q].copy = point[q].copy
    BY <1>0, <1>16, <2>1, CompleteData DEF Complete
  <2>4. QED
    BY <1>1a, <2>1, <2>2, <2>3, NotTorn
<1>17. CASE Seal
  <2>1. UNCHANGED <<data, up>> /\ pc.at = "seal" /\ pc.p \in Providers
    BY <1>0, <1>17 DEF Seal
  <2>2. pc'.at # "restore"
    BY <1>0, <1>17, GotoMoves, RecordMoves, AbortFacts DEF Seal
  <2>3. \A q \in Providers : point'[q].copy = point[q].copy
    BY <1>0, <1>17, <2>1, PointData DEF Seal
  <2>4. QED
    BY <1>1a, <2>1, <2>2, <2>3, NotTorn
<1>18. CASE Checkpoint
  <2>1. UNCHANGED <<data, point>> /\ pc.at = "checkpoint"
    BY <1>18 DEF Checkpoint
  <2>2. pc'.at # "restore"
    BY <1>0, <1>18, GotoMoves, RecordMoves, AbortFacts DEF Checkpoint
  <2>3. QED
    BY <1>1a, <2>1, <2>2, NotTorn
<1>19. CASE Stage
  <2>1. UNCHANGED <<data, point>> /\ pc.at = "stage"
    BY <1>19 DEF Stage
  <2>2. pc'.at # "restore"
    BY <1>0, <1>19, GotoMoves, RecordMoves DEF Stage
  <2>3. QED
    BY <1>1a, <2>1, <2>2, NotTorn
<1>20. CASE Start
  <2>1. point' = point /\ pc.at = "start" /\ pc.p \in Providers
    BY <1>0, <1>20 DEF Start
  <2>2. pc'.at # "restore"
    BY <1>0, <1>20, GotoMoves, RecordMoves DEF Start
  <2>3. \A q \in Providers : data'[q].format # "torn"
    BY <1>0, <1>1a, <1>20, <2>1, StartData DEF Start, StartProject, StartSome
  <2>4. QED
    BY <1>1a, <2>1, <2>2, <2>3, NotTorn
<1>21. CASE Verify
  <2>1. UNCHANGED <<data, point>> /\ pc.at = "verify"
    BY <1>21 DEF Verify
  <2>2. pc'.at # "restore"
    BY <1>0, <1>21, RecordMoves DEF Verify, JournalStates
  <2>3. QED
    BY <1>1a, <2>1, <2>2, NotTorn
<1>22. CASE Note
  <2>1. UNCHANGED <<data, point>> /\ pc.at = "note"
    BY <1>22 DEF Note
  <2>2. pc'.at # "restore"
    BY <1>0, <1>22, GotoMoves, FailFacts DEF Note
  <2>3. QED
    BY <1>1a, <2>1, <2>2, NotTorn
<1>23. CASE Log
  <2>1. UNCHANGED <<data, point>> /\ pc.at = "log"
    BY <1>23 DEF Log
  <2>2. pc'.at # "restore"
    BY <1>23, LogMoves
  <2>3. QED
    BY <1>1a, <2>1, <2>2, NotTorn
<1>24. CASE Crash
  <2>1. pc'.at = "idle" /\ UNCHANGED <<up, journal, bypassed>>
    BY <1>24 DEF Crash, Idle
  <2>2. data' = data \/ (pc.at = "restore" /\ pc.p \in Native)
    BY <1>24 DEF Crash
  <2>3. \A q \in Providers : point'[q].copy = point[q].copy
    BY <1>0, <1>24, PointData DEF Crash
  <2>4. pc.at = "restore" => pc.p \in InterruptedIn(journal)
    BY <1>0 DEF JournalInv, Recovering, InterruptedIn
  <2>5. CASE data' = data
    BY <2>1, <2>3, <2>5 DEF TornInv, TornPlace, InterruptedIn
  <2>6. CASE pc.at = "restore" /\ pc.p \in Native
    BY <2>1, <2>3, <2>4, <2>6 DEF TornInv, TornPlace, InterruptedIn, Native
  <2>7. QED
    BY <2>2, <2>5, <2>6
<1>25. ASSUME NEW p \in Providers, Write(p) PROVE TornInv'
  <2>1. UNCHANGED <<pc, point, up, journal, prior, bypassed>>
    BY <1>25 DEF Write
  <2>2. \A q \in Providers : data'[q].format = data[q].format
    BY <1>0, <1>25, WriteData
  <2>3. QED
    BY <2>1, <2>2 DEF TornInv, TornPlace, InterruptedIn, Native
<1>26. ASSUME NEW kind \in {"up", "apply"}, BeginUp(kind)
       PROVE  TornInv'
  BY <1>0, <1>26, BeginUpFacts, TornMoves DEF TornPlace
<1>27. CASE UpStep
  <2>1. /\ UNCHANGED <<point, journal>>
        /\ pc.at \in UpStages /\ pc'.at \in UpStages \cup {"idle"}
    BY <1>27, UpFacts
  <2>2. \A q \in Providers : data'[q].format = "torn" => data[q].format = "torn"
    BY <1>0, <1>27, UpFacts, StartData DEF UpSet
  <2>3. \A q \in Native \ bypassed' : data'[q].format = "torn" => ~up'[q]
    <3>1. ASSUME NEW S \in SUBSET Providers, UpSet(S), NEW q \in Native \ bypassed',
                 data'[q].format = "torn"
          PROVE  ~up'[q]
      BY <1>0, <2>2, <3>1, StartData DEF UpSet, Native, TornInv
    <3>2. ASSUME bypassed \subseteq bypassed', UNCHANGED <<up, data>>
          PROVE  \A q \in Native \ bypassed' : data'[q].format = "torn" => ~up'[q]
      BY <3>2 DEF TornInv
    <3>3. QED
      BY <1>27, <3>1, <3>2, UpFacts DEF Render
  <2>4. QED
    BY <2>1, <2>2, <2>3 DEF TornInv, TornPlace, InterruptedIn
<1>28. CASE UNCHANGED vars
  BY <1>0, <1>28 DEF vars, TornInv, TornPlace, InterruptedIn
<1>29. QED
  BY <1>1, <1>2, <1>3, <1>4, <1>5, <1>6, <1>7, <1>8, <1>9, <1>10, <1>11, <1>12, <1>13, <1>14,
     <1>15, <1>16, <1>17, <1>18, <1>19, <1>20, <1>21, <1>22, <1>23, <1>24, <1>25, <1>26, <1>27,
     <1>28
     DEF Next, Step

(* Replaying a backed up configuration concerns its own Compose entry.     *)
LEMMA ReplayedElsewhere ==
  ASSUME DataTypes, RestoreBound
  PROVE  /\ UNCHANGED <<point, data, image, journal, bypassed>> /\ pc.p \in Bound
         /\ \A q \in Providers : q # pc.p => compose'[q] = compose[q]
<1>1. compose' \in {compose, Replayed(pc.p)}
  BY DEF RestoreBound
<1>2. \A q \in Providers : q # pc.p => Replayed(pc.p)[q] = compose[q]
  BY DEF DataTypes, Replayed
<1>3. UNCHANGED <<point, data, image, journal, bypassed>> /\ pc.p \in Bound
  BY DEF RestoreBound, records, runtime
<1>4. QED
  BY <1>1, <1>2, <1>3

-----------------------------------------------------------------------------
(* Recovery points.                                                        *)

(* A recovery point is complete before a mutation and is never replaced,   *)
(* so it holds data of the original format.                                *)
LEMMA PointStep ==
  ASSUME TypeOK, PlaceInv, JournalInv, TornInv, PointInv, [Next]_vars
  PROVE  PointInv'
<1> USE DEF PointInv, PointBeforeMutation, Recovering, Mutating, WorkStages, RecoverStages,
        PrepareStages, ApplyStages, RecordStages, Interrupted, At, evidence, records, runtime, attempt
<1>0. /\ pc \in PcType
      /\ DataTypes
      /\ todo \subseteq Providers
      /\ pc.at \in WorkStages => pc.p \in Providers
  BY DEF TypeOK, PcType, PlaceInv, DataTypes, Checkpoints
<1>1a. pc.at = "capture" => \A q \in Providers : data[q].format # "torn"
  BY DEF TornInv, TornPlace, UpStages
<1>1b. /\ Recovering => journal[pc.p] \in Interrupted
       /\ Mutating => journal[pc.p] = "applying"
  BY DEF JournalInv
<1>1c. \A q \in Providers : data[q].format \in {"orig", "pinned", "torn"}
  BY <1>0 DEF DataTypes, Data, Images
<1>1. CASE BeginAttempt
  <2>1. UNCHANGED <<point, data, compose, image, journal>>
    BY <1>1 DEF BeginAttempt
  <2>2. pc'.at \notin {"note", "log", "complete", "seal"}
    BY <1>0, <1>1, NAssumption, GotoAtMoves, ReturnFacts DEF BeginAttempt
  <2>3. QED
    BY <1>0, <2>1, <2>2
<1>2. CASE Preflight
  <2>1. UNCHANGED <<point, data, compose, image, journal>>
    BY <1>2 DEF Preflight
  <2>2. pc'.at \notin {"note", "log", "complete", "seal"}
    BY <1>0, <1>2, NAssumption, GotoAtMoves, AbortFacts DEF Preflight
  <2>3. QED
    BY <1>0, <2>1, <2>2
<1>3. CASE ResumeNext
  <2>1. UNCHANGED <<point, data, compose, image, journal>>
    BY <1>3 DEF ResumeNext
  <2>2. pc'.at \notin {"note", "log", "complete", "seal"}
    BY <1>0, <1>3, NAssumption, GotoAtMoves, AbortFacts DEF ResumeNext, Providers
  <2>3. QED
    BY <1>0, <2>1, <2>2
<1>4. CASE ExecuteNext
  <2>1. UNCHANGED <<point, data, compose, image, journal>>
    BY <1>4 DEF ExecuteNext
  <2>2. \/ pc'.at \notin {"note", "log", "complete", "seal"}
        \/ pc'.at = "note" /\ point[pc'.p].status = "sealed"
    BY <1>0, <1>4, NAssumption, GotoAtMoves, ReturnFacts DEF ExecuteNext, Providers
  <2>3. QED
    BY <1>0, <2>1, <2>2
<1>5. CASE RollbackNext
  <2>1. UNCHANGED <<point, data, compose, image, journal>>
    BY <1>5 DEF RollbackNext
  <2>2. pc'.at \notin {"note", "log", "complete", "seal"}
    BY <1>0, <1>5, NAssumption, GotoAtMoves, ReturnFacts DEF RollbackNext, Providers
  <2>3. QED
    BY <1>0, <2>1, <2>2
<1>6. CASE RecoverStop
  <2>1. UNCHANGED <<point, data, compose, image, journal>>
    BY <1>6 DEF RecoverStop, StopScope, StopSome, StopSet
  <2>2. pc'.at \notin {"note", "log", "complete", "seal"}
    BY <1>0, <1>6, GotoMoves, FailFacts DEF RecoverStop
  <2>3. QED
    BY <1>0, <2>1, <2>2
<1>7. CASE RestoreVolume
  <2>1. UNCHANGED <<point, compose, image, journal>> /\ pc.p \in Providers
    BY <1>0, <1>7 DEF RestoreVolume
  <2>2. pc'.at \notin {"note", "log", "complete", "seal"}
    BY <1>0, <1>7, GotoMoves, FailFacts DEF RestoreVolume
  <2>3. point[pc.p].status = "sealed"
    BY <1>1b, <1>7, <2>1 DEF RestoreVolume
  <2>4. \A q \in Providers : point[q].status # "sealed" => data'[q].format # "pinned"
    BY <1>0, <1>7, <2>1, <2>3, RewoundData, TornData DEF RestoreVolume
  <2>5. QED
    BY <2>1, <2>2, <2>4
<1>8. CASE RestoreBound
  <2>1. /\ UNCHANGED <<point, data, image, journal>>
        /\ \A q \in Providers : q # pc.p => compose'[q] = compose[q]
    BY <1>0, <1>8, ReplayedElsewhere
  <2>2. pc'.at \notin {"note", "log", "complete", "seal"}
    BY <1>0, <1>8, GotoMoves, FailFacts DEF RestoreBound
  <2>3. pc.p \in Providers /\ journal[pc.p] # "none"
    BY <1>0, <1>1b, <1>8 DEF RestoreBound
  <2>4. QED
    BY <1>0, <2>1, <2>2, <2>3
<1>9. CASE RestoreSQL
  <2>1. UNCHANGED <<point, compose, image, journal>> /\ pc.p \in Providers
    BY <1>0, <1>9 DEF RestoreSQL
  <2>2. pc'.at \notin {"note", "log", "complete", "seal"}
    BY <1>0, <1>9, GotoMoves, FailFacts DEF RestoreSQL
  <2>3. point[pc.p].status = "sealed"
    BY <1>1b, <1>9, <2>1 DEF RestoreSQL
  <2>4. \A q \in Providers : point[q].status # "sealed" => data'[q].format # "pinned"
    BY <1>0, <1>9, <2>1, <2>3, RewoundData, TornData DEF RestoreSQL
  <2>5. QED
    BY <2>1, <2>2, <2>4
<1>10. CASE RestoreNote
  <2>1. UNCHANGED <<point, data, compose, image, journal>>
    BY <1>10 DEF RestoreNote
  <2>2. pc'.at \notin {"note", "log", "complete", "seal"}
    BY <1>0, <1>10, GotoMoves, FailFacts DEF RestoreNote
  <2>3. QED
    BY <1>0, <2>1, <2>2
<1>11. CASE Unstage
  <2>1. /\ UNCHANGED <<point, data, image, journal>>
        /\ compose' \in {compose, [compose EXCEPT ![pc.p] = "orig"]}
    BY <1>11 DEF Unstage
  <2>2. pc'.at \notin {"note", "log", "complete", "seal"}
    BY <1>0, <1>11, GotoMoves, FailFacts DEF Unstage
  <2>3. QED
    BY <1>0, <2>1, <2>2 DEF DataTypes
<1>12. CASE Restart
  <2>1. UNCHANGED <<point, compose, journal>> /\ pc.p \in Providers
    BY <1>0, <1>12 DEF Restart
  <2>2. \/ pc'.at \notin {"note", "log", "complete", "seal"}
        \/ pc'.at = "note" /\ pc'.status = "apply_failed"
    BY <1>0, <1>12, GotoMoves, FailFacts DEF Restart
  <2>3. \A q \in Providers : image'[q] \in {image[q], compose[q]}
    BY <1>12, <2>1, StartImages DEF Restart, StartProject, StartSome
  <2>4. \A q \in Providers : data'[q].format = data[q].format \/ compose[q] = "pinned"
    BY <1>0, <1>12, <2>1, StartData DEF Restart, StartProject, StartSome
  <2>5. QED
    BY <2>1, <2>2, <2>3, <2>4
<1>13. CASE Recheck
  <2>1. UNCHANGED <<point, data, compose, image, journal>>
    BY <1>13 DEF Recheck
  <2>2. pc'.at \notin {"log", "complete", "seal"} /\ pc'.status # "applying"
    BY <1>0, <1>13, NAssumption, GotoAtMoves, RecordMoves, FailFacts DEF Recheck, Providers
  <2>3. QED
    BY <1>0, <2>1, <2>2
<1>14. CASE Quiesce
  <2>1. UNCHANGED <<point, data, compose, image, journal>>
    BY <1>14 DEF Quiesce, StopScope, StopSome, StopSet
  <2>2. pc'.at \notin {"note", "log", "complete", "seal"}
    BY <1>0, <1>14, GotoMoves, AbortFacts DEF Quiesce
  <2>3. QED
    BY <1>0, <2>1, <2>2
<1>15. CASE Capture
  <2>1. /\ UNCHANGED <<data, compose, image, journal>>
        /\ pc.at = "capture" /\ pc.p \in Providers
    BY <1>0, <1>15 DEF Capture
  <2>2. CASE /\ point' = point
             /\ \/ point[pc.p].status = "whole" /\ Goto("seal")
                \/ point[pc.p].status = "sealed" /\ Record("applying")
                \/ Abort
    <3>1. \/ pc'.at \notin {"note", "log", "complete", "seal"}
          \/ pc'.at = "seal" /\ pc'.p = pc.p /\ point[pc.p].status = "whole"
          \/ pc'.at = "note" /\ pc'.p = pc.p /\ point[pc.p].status = "sealed"
      BY <1>0, <2>2, GotoMoves, RecordMoves, AbortFacts
    <3>2. QED
      BY <2>1, <2>2, <3>1
  <2>3. CASE /\ point[pc.p].status = "none"
             /\ point' = [point EXCEPT ![pc.p] =
                           [status |-> "partial", copy |-> data, conf |-> @.conf]]
             /\ Goto(IF pc.p \in Bound THEN "complete" ELSE "seal")
    <3>2. pc'.at \in {"complete", "seal"} /\ pc'.p = pc.p
      BY <1>0, <2>3, GotoMoves
    <3>3. /\ point'[pc.p].status = "partial" /\ point'[pc.p].copy = data
          /\ \A q \in Providers : q # pc.p => point'[q] = point[q]
      BY <1>0, <2>1, <2>3, CaptureData
    <3>4. \A q \in Providers : point[q].status # "sealed" => data[q].format = "orig"
      BY <1>1a, <1>1c, <2>1
    <3>5. \A q \in Providers : point'[q].status = "sealed" <=> point[q].status = "sealed"
      BY <2>1, <2>3, <3>3
    <3>6. PointBeforeMutation'
      BY <2>1, <2>3, <3>3
    <3>7. \A p, q \in Providers :
             point'[p].status # "none" /\ point'[q].status # "sealed" =>
                point'[p].copy[q].format = "orig"
      BY <2>1, <3>3, <3>4, <3>5
    <3>8. \A p \in Providers : point'[p].status # "none" => point'[p].copy[p].format = "orig"
      BY <2>1, <2>3, <3>3, <3>4
    <3>9. QED
      BY <2>1, <3>2, <3>3, <3>5, <3>6, <3>7, <3>8
  <2>4. QED
    BY <1>15, <2>2, <2>3 DEF Capture
<1>16. CASE Complete
  <2>1. /\ UNCHANGED <<data, compose, image, journal>>
        /\ pc.at = "complete" /\ pc.p \in Providers
    BY <1>0, <1>16 DEF Complete
  <2>2. CASE Abort /\ point' = point
    BY <2>1, <2>2, AbortFacts
  <2>3. CASE /\ Goto("seal")
             /\ point' = [point EXCEPT ![pc.p] =
                            [status |-> "whole", copy |-> @.copy, conf |-> compose[pc.p]]]
    <3>1. pc'.at = "seal" /\ pc'.p = pc.p
      BY <1>0, <2>3, GotoMoves
    <3>2. \A q \in Providers :
             /\ point'[q].copy = point[q].copy
             /\ point'[q].status = IF q = pc.p THEN "whole" ELSE point[q].status
      BY <1>0, <2>1, <2>3, CompleteData
    <3>3. QED
      BY <2>1, <3>1, <3>2
  <2>4. QED
    BY <1>16, <2>2, <2>3 DEF Complete
<1>17. CASE Seal
  <2>1. /\ UNCHANGED <<data, compose, image, journal>>
        /\ pc.at = "seal" /\ pc.p \in Providers
    BY <1>0, <1>17 DEF Seal
  <2>2. PICK s \in {"partial", "whole", "sealed"} :
          /\ \A q \in Providers : /\ point'[q].copy = point[q].copy
                                  /\ q # pc.p => point'[q].status = point[q].status
          /\ point'[pc.p].status = s
          /\ \/ pc'.at = "rollback"
             \/ s = "sealed" /\ pc'.at = "note" /\ pc'.p = pc.p
    <3>1. CASE /\ point' = [point EXCEPT ![pc.p].status = "sealed"]
               /\ Record("applying")
      <4>0. DataTypes /\ pc.p \in Providers /\ point' = [point EXCEPT ![pc.p].status = "sealed"]
        BY <1>0, <2>1, <3>1
      <4>1. \A q \in Providers :
               /\ point'[q].copy = point[q].copy
               /\ point'[q].status = IF q = pc.p THEN "sealed" ELSE point[q].status
        BY <4>0 DEF DataTypes
      <4>2. pc'.at = "note" /\ pc'.p = pc.p
        BY <1>0, <3>1, RecordMoves DEF JournalStates
      <4>3. QED
        BY <2>1, <4>1, <4>2
    <3>2. CASE Abort /\ point' = [point EXCEPT ![pc.p].status = "partial"]
      BY <1>0, <2>1, <3>2, PointData, AbortFacts
    <3>3. CASE Abort /\ point' = point
      BY <2>1, <3>3, AbortFacts
    <3>4. CASE Abort /\ point' = [point EXCEPT ![pc.p].status = "sealed"]
      <4>0. DataTypes /\ pc.p \in Providers /\ point' = [point EXCEPT ![pc.p].status = "sealed"]
        BY <1>0, <2>1, <3>4
      <4>1. \A q \in Providers :
               /\ point'[q].copy = point[q].copy
               /\ point'[q].status = IF q = pc.p THEN "sealed" ELSE point[q].status
        BY <4>0 DEF DataTypes
      <4>2. pc'.at = "rollback"
        BY <3>4, AbortFacts
      <4>3. QED
        BY <2>1, <4>1, <4>2
    <3>5. QED
      BY <1>17, <3>1, <3>2, <3>3, <3>4 DEF Seal
  <2>3. QED
    BY <2>1, <2>2
<1>18. CASE Checkpoint
  <2>1. UNCHANGED <<point, data, compose, image, journal>>
    BY <1>18 DEF Checkpoint
  <2>2. \/ pc'.at \notin {"note", "log", "complete", "seal"}
        \/ pc'.at = "note" /\ pc'.status = "apply_failed"
    BY <1>0, <1>18, GotoMoves, RecordMoves, AbortFacts DEF Checkpoint
  <2>3. QED
    BY <1>0, <2>1, <2>2
<1>19. CASE Stage
  <2>1. /\ UNCHANGED <<point, data, image, journal>>
        /\ compose' \in {compose, [compose EXCEPT ![pc.p] = "pinned"]}
    BY <1>19 DEF Stage
  <2>2. journal[pc.p] = "applying" /\ pc.p \in Providers
    BY <1>0, <1>1b, <1>19 DEF Stage
  <2>3. \/ pc'.at \notin {"note", "log", "complete", "seal"}
        \/ pc'.at = "note" /\ pc'.status = "apply_failed"
    BY <1>0, <1>19, GotoMoves, RecordMoves DEF Stage
  <2>4. PointBeforeMutation'
    BY <1>0, <2>1, <2>2 DEF DataTypes
  <2>5. QED
    BY <2>1, <2>3, <2>4
<1>20. CASE Start
  <2>1. UNCHANGED <<point, compose, journal>> /\ pc.p \in Providers
    BY <1>0, <1>20 DEF Start
  <2>2. \/ pc'.at \notin {"note", "log", "complete", "seal"}
        \/ pc'.at = "note" /\ pc'.status = "apply_failed"
    BY <1>0, <1>20, GotoMoves, RecordMoves DEF Start
  <2>3. \A q \in Providers : image'[q] \in {image[q], compose[q]}
    BY <1>20, <2>1, StartImages DEF Start, StartProject, StartSome
  <2>4. \A q \in Providers : data'[q].format = data[q].format \/ compose[q] = "pinned"
    BY <1>0, <1>20, <2>1, StartData DEF Start, StartProject, StartSome
  <2>5. QED
    BY <2>1, <2>2, <2>3, <2>4
<1>21. CASE Verify
  <2>1. UNCHANGED <<point, data, compose, image, journal>>
    BY <1>21 DEF Verify
  <2>2. pc'.at \notin {"log", "complete", "seal"} /\ pc'.status # "applying"
    BY <1>0, <1>21, RecordMoves DEF Verify, JournalStates
  <2>3. QED
    BY <1>0, <2>1, <2>2
<1>22. CASE Note
  <2>1. UNCHANGED <<point, data, compose, image, journal>>
    BY <1>22 DEF Note
  <2>2. \/ pc'.at \notin {"note", "log", "complete", "seal"}
        \/ pc'.at = "log" /\ pc'.status = pc.status /\ pc'.p = pc.p /\ pc.at = "note"
    BY <1>0, <1>22, GotoMoves, FailFacts DEF Note
  <2>3. QED
    BY <1>0, <2>1, <2>2
<1>23. CASE Log
  <2>1. UNCHANGED <<point, data, compose, image>> /\ pc.p \in Providers
    BY <1>0, <1>23 DEF Log
  <2>2. pc'.at \notin {"note", "log", "complete", "seal"}
    BY <1>23, LogMoves
  <2>3. journal' = journal \/ journal' = [journal EXCEPT ![pc.p] = pc.status]
    BY <1>23 DEF Log, Recorded
  <2>4. pc.status = "applying" \/ journal[pc.p] # "none"
    BY <1>0, <1>1b, <1>23, <2>1 DEF Log, PlaceInv, DoneStates
  <2>5. point[pc.p].status = "sealed" /\ point[pc.p].copy[pc.p].format = "orig"
    BY <1>23, <2>1, <2>4 DEF Log
  <2>6. PointBeforeMutation'
    BY <1>0, <2>1, <2>3, <2>5 DEF DataTypes
  <2>7. QED
    BY <2>1, <2>2, <2>6
<1>24. CASE Crash
  <2>1. /\ UNCHANGED <<compose, image, journal>>
        /\ pc'.at = "idle"
    BY <1>24 DEF Crash, Idle
  <2>2. \A q \in Providers : data'[q].format = data[q].format \/ data'[q].format = "torn"
    BY <1>0, <1>24, TornData DEF Crash
  <2>3. \/ point' = point
        \/ /\ pc.at = "seal" /\ pc.p \in Providers
           /\ point' = [point EXCEPT ![pc.p].status = "partial"]
    BY <1>0, <1>24 DEF Crash
  <2>4. \A q \in Providers :
           /\ point'[q].copy = point[q].copy
           /\ \/ point'[q].status = point[q].status
              \/ point'[q].status = "partial" /\ point[q].status \in {"partial", "whole"}
    <3>1. CASE point' = point
      BY <3>1
    <3>2. CASE /\ pc.at = "seal" /\ pc.p \in Providers
               /\ point' = [point EXCEPT ![pc.p].status = "partial"]
      BY <1>0, <3>2, PointData
    <3>3. QED
      BY <2>3, <3>1, <3>2
  <2>5. QED
    BY <2>1, <2>2, <2>4
<1>25. ASSUME NEW p \in Providers, Write(p) PROVE PointInv'
  <2>1. UNCHANGED <<point, compose, journal, image, pc>>
    BY <1>25 DEF Write
  <2>2. \A q \in Providers : data'[q].format = data[q].format
    BY <1>0, <1>25, WriteData
  <2>3. QED
    BY <2>1, <2>2
<1>26. ASSUME NEW kind \in {"up", "apply"}, BeginUp(kind)
       PROVE  PointInv'
  BY <1>0, <1>26, BeginUpFacts DEF UpStages
<1>27. CASE UpStep
  <2>1. /\ UNCHANGED <<point, journal>>
        /\ pc'.at \in UpStages \cup {"idle"}
    BY <1>27, UpFacts
  <2>2. \A q \in Providers : compose'[q] = "pinned" \/ image'[q] = "pinned" =>
                               compose[q] = "pinned" \/ image[q] = "pinned"
    BY <1>0, <1>27, UpFacts, StartImages DEF UpSet, Render
  <2>3. \A q \in Providers : data'[q].format = data[q].format \/ compose[q] = "pinned"
    BY <1>0, <1>27, UpFacts, StartData DEF UpSet
  <2>4. QED
    BY <2>1, <2>2, <2>3 DEF UpStages
<1>28. CASE UNCHANGED vars
  BY <1>0, <1>28 DEF vars
<1> HIDE DEF PointInv
<1>29. QED
  BY <1>1, <1>2, <1>3, <1>4, <1>5, <1>6, <1>7, <1>8, <1>9, <1>10, <1>11, <1>12, <1>13, <1>14,
     <1>15, <1>16, <1>17, <1>18, <1>19, <1>20, <1>21, <1>22, <1>23, <1>24, <1>25, <1>26, <1>27,
     <1>28
     DEF Next, Step

-----------------------------------------------------------------------------
(* The native provider's data.                                             *)

(* The original Compose entry is only put back over restored data.         *)
LEMMA FormatStep ==
  ASSUME TypeOK, PlaceInv, ImageInv, PointInv, FormatInv, [Next]_vars
  PROVE  FormatInv'
<1> USE DEF FormatInv, Native, WorkStages, RecoverStages, PrepareStages, ApplyStages, RecordStages,
        At, evidence, records, runtime, attempt
<1>0. /\ pc \in PcType
      /\ DataTypes
      /\ todo \subseteq Providers
      /\ pc.at \in WorkStages => pc.p \in Providers
  BY DEF TypeOK, PcType, PlaceInv, DataTypes, Checkpoints
<1>1. CASE BeginAttempt
  BY <1>0, <1>1, NAssumption, GotoAtMoves, ReturnFacts DEF BeginAttempt
<1>2. CASE Preflight
  BY <1>0, <1>2, NAssumption, GotoAtMoves, AbortFacts DEF Preflight
<1>3. CASE ResumeNext
  BY <1>0, <1>3, NAssumption, GotoAtMoves, AbortFacts DEF ResumeNext, Providers
<1>4. CASE ExecuteNext
  BY <1>0, <1>4, NAssumption, GotoAtMoves, ReturnFacts DEF ExecuteNext, Providers
<1>5. CASE RollbackNext
  BY <1>0, <1>5, NAssumption, GotoAtMoves, ReturnFacts DEF RollbackNext, Providers
<1>6. CASE RecoverStop
  BY <1>0, <1>6, GotoMoves, FailFacts DEF RecoverStop, StopScope, StopSome, StopSet
<1>7. CASE RestoreVolume
  <2>1. /\ UNCHANGED <<compose, image, bypassed>>
        /\ pc.p \in Providers /\ pc.p \in Native
        /\ point[pc.p].status # "none" => point[pc.p].copy[pc.p].format = "orig"
    BY <1>0, <1>7 DEF RestoreVolume, PointInv
  <2>2. \A q \in Native : q = pc.p
    BY <2>1, BoundAssumption DEF Providers
  <2>3. CASE /\ point[pc.p].status = "sealed"
             /\ data' = Rewound(pc.p) /\ Goto("unstage")
    <3>1. data'[pc.p].format = "orig"
      BY <2>1, <2>3, RewoundData, ScopeFacts
    <3>2. pc'.p = pc.p
      BY <1>0, <2>3, GotoMoves
    <3>3. QED
      BY <2>1, <2>2, <3>1, <3>2
  <2>4. CASE Fail /\ data' \in {data, Torn(pc.p)}
    <3>1. \A q \in Native : data'[q].format \in {data[q].format, "torn"}
      BY <1>0, <2>4, TornData
    <3>2. pc'.at \notin {"unstage", "restart", "recheck"}
      BY <2>4, FailFacts
    <3>3. QED
      BY <2>1, <3>1, <3>2
  <2>5. QED
    BY <1>7, <2>3, <2>4 DEF RestoreVolume
<1>8. CASE RestoreBound
  <2>1. /\ UNCHANGED <<image, data, bypassed>> /\ pc.p \in Bound
        /\ \A q \in Native : compose'[q] = compose[q]
    BY <1>0, <1>8, ReplayedElsewhere
  <2>2. pc'.at \in {"unstage", "restart", "recheck"} => pc'.p = pc.p
    BY <1>0, <1>8, GotoMoves, FailFacts DEF RestoreBound
  <2>3. QED
    BY <2>1, <2>2
<1>9. CASE RestoreSQL
  <2>1. /\ UNCHANGED <<compose, image, bypassed>>
        /\ pc.p \in Providers /\ pc.p \in Bound
        /\ data' \in {data, Rewound(pc.p)}
    BY <1>0, <1>9 DEF RestoreSQL, PlaceInv
  <2>2. pc'.at \notin {"unstage", "restart", "recheck"}
    BY <1>0, <1>9, GotoMoves, FailFacts DEF RestoreSQL
  <2>3. \A q \in Native : data'[q] = data[q]
    BY <2>1, RewoundData, ScopeFacts
  <2>4. QED
    BY <2>1, <2>2, <2>3
<1>10. CASE RestoreNote
  BY <1>0, <1>10, GotoMoves, FailFacts DEF RestoreNote
<1>11. CASE Unstage
  <2>1. /\ UNCHANGED <<image, data, bypassed>>
        /\ pc.at = "unstage" /\ pc.p \in Providers
        /\ compose' \in {compose, [compose EXCEPT ![pc.p] = "orig"]}
    BY <1>0, <1>11 DEF Unstage
  <2>2. pc'.at \in {"unstage", "restart", "recheck"} => pc'.p = pc.p
    BY <1>0, <1>11, GotoMoves, FailFacts DEF Unstage
  <2>3. QED
    BY <1>0, <2>1, <2>2 DEF DataTypes
<1>12. CASE Restart
  <2>1. UNCHANGED <<compose, bypassed>> /\ pc.p \in Providers /\ pc.at = "restart"
    BY <1>0, <1>12 DEF Restart
  <2>2. pc'.at \in {"unstage", "restart", "recheck"} => pc'.p = pc.p
    BY <1>0, <1>12, GotoMoves, FailFacts DEF Restart
  <2>3. \A q \in Native \ bypassed :
           compose[q] = "orig" \/ image'[q] = "orig" => data'[q].format # "pinned"
    BY <1>0, <1>12, <2>1, StartData DEF Restart, StartProject, StartSome
  <2>4. compose[pc.p] = "orig"
    BY <2>1 DEF ImageInv
  <2>5. data'[pc.p].format = data[pc.p].format
    BY <1>0, <1>12, <2>1, <2>4, StartData DEF Restart, StartProject, StartSome
  <2>6. QED
    BY <2>1, <2>2, <2>3, <2>5
<1>13. CASE Recheck
  <2>1. /\ UNCHANGED <<compose, image, data>>
        /\ pc.p \in Providers /\ pc.at = "recheck"
        /\ bypassed' \in {bypassed, bypassed \ {pc.p}}
    BY <1>0, <1>13 DEF Recheck
  <2>2. pc'.at \notin {"unstage", "restart", "recheck"}
    BY <1>0, <1>13, NAssumption, GotoAtMoves, RecordMoves, FailFacts DEF Recheck, Providers
  <2>3. QED
    BY <2>1, <2>2
<1>14. CASE Quiesce
  BY <1>0, <1>14, GotoMoves, AbortFacts DEF Quiesce, StopScope, StopSome, StopSet
<1>15. CASE Capture
  BY <1>0, <1>15, GotoMoves, RecordMoves, AbortFacts DEF Capture
<1>16. CASE Complete
  BY <1>0, <1>16, GotoMoves, AbortFacts DEF Complete
<1>17. CASE Seal
  BY <1>0, <1>17, RecordMoves, AbortFacts DEF Seal, JournalStates
<1>18. CASE Checkpoint
  BY <1>0, <1>18, GotoMoves, RecordMoves, AbortFacts DEF Checkpoint
<1>19. CASE Stage
  <2>1. /\ UNCHANGED <<image, data, bypassed>>
        /\ compose' \in {compose, [compose EXCEPT ![pc.p] = "pinned"]}
    BY <1>19 DEF Stage
  <2>2. pc'.at \notin {"unstage", "restart", "recheck"}
    BY <1>0, <1>19, GotoMoves, RecordMoves DEF Stage
  <2>3. QED
    BY <1>0, <2>1, <2>2 DEF DataTypes
<1>20. CASE Start
  <2>1. UNCHANGED <<compose, bypassed>> /\ pc.p \in Providers
    BY <1>0, <1>20 DEF Start
  <2>2. pc'.at \notin {"unstage", "restart", "recheck"}
    BY <1>0, <1>20, GotoMoves, RecordMoves DEF Start
  <2>3. \A q \in Native \ bypassed :
           compose[q] = "orig" \/ image'[q] = "orig" => data'[q].format # "pinned"
    BY <1>0, <1>20, <2>1, StartData DEF Start, StartProject, StartSome
  <2>4. QED
    BY <2>1, <2>2, <2>3
<1>21. CASE Verify
  BY <1>0, <1>21, RecordMoves DEF Verify, JournalStates
<1>22. CASE Note
  BY <1>0, <1>22, GotoMoves, FailFacts DEF Note
<1>23. CASE Log
  <2>1. UNCHANGED <<compose, image, data, bypassed>>
    BY <1>23 DEF Log
  <2>2. pc'.at \notin {"unstage", "restart", "recheck"}
    BY <1>23, LogMoves
  <2>3. QED
    BY <2>1, <2>2
<1>24. CASE Crash
  <2>1. UNCHANGED <<compose, image, bypassed>> /\ pc'.at = "idle"
    BY <1>24 DEF Crash, Idle
  <2>2. \A q \in Native : data'[q].format \in {data[q].format, "torn"}
    BY <1>0, <1>24, TornData DEF Crash
  <2>3. QED
    BY <2>1, <2>2
<1>25. ASSUME NEW p \in Providers, Write(p) PROVE FormatInv'
  <2>1. UNCHANGED <<compose, image, bypassed, pc>>
    BY <1>25 DEF Write
  <2>2. \A q \in Providers : data'[q].format = data[q].format
    BY <1>0, <1>25, WriteData
  <2>3. pc.at \in {"unstage", "restart", "recheck"} => pc.p \in Providers
    BY <1>0
  <2>4. QED
    BY <2>1, <2>2, <2>3
<1>26. ASSUME NEW kind \in {"up", "apply"}, BeginUp(kind)
       PROVE  FormatInv'
  BY <1>0, <1>26, BeginUpFacts DEF UpStages
<1>27. CASE UpStep
  <2>1. pc'.at \in UpStages \cup {"idle"}
    BY <1>27, UpFacts
  <2>2. \A q \in Native \ bypassed' :
           compose'[q] = "orig" \/ image'[q] = "orig" => data'[q].format # "pinned"
    <3>1. ASSUME NEW S \in SUBSET Providers, UpSet(S), compose' = compose,
                 NEW q \in Native \ bypassed', compose'[q] = "orig" \/ image'[q] = "orig"
          PROVE  data'[q].format # "pinned"
      BY <1>0, <3>1, StartData DEF UpSet
    <3>2. ASSUME NEW S \in SUBSET Providers, Render(S), UNCHANGED <<image, up, data>>,
                 NEW q \in Native \ bypassed', compose'[q] = "orig" \/ image'[q] = "orig"
          PROVE  data'[q].format # "pinned"
      BY <1>0, <3>2 DEF Render, DataTypes, Images
    <3>3. QED
      BY <1>27, <3>1, <3>2, UpFacts
  <2>3. QED
    BY <2>1, <2>2 DEF UpStages
<1>28. CASE UNCHANGED vars
  BY <1>0, <1>28 DEF vars
<1> HIDE DEF FormatInv
<1>29. QED
  BY <1>1, <1>2, <1>3, <1>4, <1>5, <1>6, <1>7, <1>8, <1>9, <1>10, <1>11, <1>12, <1>13, <1>14,
     <1>15, <1>16, <1>17, <1>18, <1>19, <1>20, <1>21, <1>22, <1>23, <1>24, <1>25, <1>26, <1>27,
     <1>28
     DEF Next, Step

LEMMA OwnFormat ==
  ASSUME TypeOK, TornInv, FormatInv
  PROVE  NativeRunsOwnFormat
<1>1. \A p \in Native : p \in Providers /\ data[p].format \in {"orig", "pinned", "torn"}
  BY DEF TypeOK, Native, Data, Images
<1>2. QED
  BY <1>1 DEF TornInv, FormatInv, NativeRunsOwnFormat

(* Only the two restores take writes back, and they work on a provider the *)
(* journal holds as interrupted.                                           *)
LEMMA RewindStep ==
  ASSUME TypeOK, PlaceInv, JournalInv, [Next]_vars, NEW q \in Providers,
         data'[q].writes < data[q].writes
  PROVE  \E p \in InterruptedIn(journal) : q \in Scope(p)
<1>0. DataTypes /\ data[q].writes \in Nat
  BY LimitsAssumption DEF TypeOK, DataTypes, Checkpoints, Data
<1>1. data'[q].writes # data[q].writes
  BY <1>0
<1>2. ASSUME pc.at \in RecoverStages, data' \in {data, Rewound(pc.p)}
      PROVE  \E p \in InterruptedIn(journal) : q \in Scope(p)
  <2>1. pc.p \in InterruptedIn(journal)
    BY <1>2 DEF PlaceInv, JournalInv, Recovering, WorkStages, InterruptedIn
  <2>2. q \in Scope(pc.p)
    BY <1>1, <1>2, RewoundData
  <2>3. QED
    BY <2>1, <2>2
<1>3. CASE RestoreVolume
  <2>1. data' # Torn(pc.p)
    BY <1>0, <1>1, TornData
  <2>2. QED
    BY <1>2, <1>3, <2>1 DEF RestoreVolume, At, RecoverStages
<1>4. CASE RestoreSQL
  BY <1>2, <1>4 DEF RestoreSQL, At, RecoverStages
<1>5. CASE data' = data
  BY <1>1, <1>5
<1>6. ASSUME NEW S, StartSet(S)
      PROVE  FALSE
  BY <1>0, <1>1, <1>6, StartData
<1>7. CASE Crash
  BY <1>0, <1>1, <1>7, TornData DEF Crash
<1>8. ASSUME NEW p \in Providers, Write(p)
      PROVE  FALSE
  BY <1>0, <1>1, <1>8, WriteData, LimitsAssumption DEF Write, DataTypes, Data
<1>9. CASE Restart \/ Start
  <2>1. pc.p \in Providers
    BY <1>9 DEF Restart, Start, At, PlaceInv, WorkStages, RecoverStages, ApplyStages
  <2>2. QED
    BY <1>5, <1>6, <1>9, <2>1 DEF Restart, Start, StartProject, StartSome
<1>10. CASE UpStep
  BY <1>5, <1>6, <1>10, UpFacts DEF UpSet
<1>11. CASE \/ BeginAttempt \/ Preflight \/ ResumeNext \/ ExecuteNext \/ RollbackNext
            \/ RecoverStop \/ RestoreBound \/ RestoreNote \/ Unstage \/ Recheck \/ Quiesce
            \/ Capture \/ Complete \/ Seal \/ Checkpoint \/ Stage \/ Verify \/ Note \/ Log
            \/ (\E kind \in {"up", "apply"} : BeginUp(kind)) \/ UNCHANGED vars
  <2>1. data' = data
    BY <1>11 DEF BeginAttempt, Preflight, ResumeNext, ExecuteNext, RollbackNext, RecoverStop,
       RestoreBound, RestoreNote, Unstage, Recheck, Quiesce, Capture, Complete, Seal, Checkpoint,
       Stage, Verify, Note, Log, BeginUp, vars, runtime, StopScope, StopSome, StopSet
  <2>2. QED
    BY <1>5, <2>1
<1>12. QED
  BY <1>3, <1>4, <1>7, <1>8, <1>9, <1>10, <1>11 DEF Next, Step

-----------------------------------------------------------------------------
(* The invariant of the update and what follows from it.                   *)
IInv ==
  /\ TypeOK /\ PlaceInv /\ JournalInv
  /\ ImageInv /\ OrderInv
  /\ TornInv /\ PointInv /\ FormatInv

LEMMA IInvInit ==
  ASSUME Init
  PROVE  IInv
<1> USE NAssumption, LimitsAssumption DEF Init
<1>1. TypeOK
  <2>1. data \in [Providers -> Data]
    BY DEF Data, Images
  <2>2. point \in [Providers -> [status : PointStates, copy : [Providers -> Data], conf : Images]]
    BY <2>1 DEF PointStates, Images
  <2>3. pc \in PcType
    BY DEF PcType, Idle, Stages, Passes, JournalStates
  <2>4. ckpt \in Checkpoints
    BY DEF Checkpoints, CheckpointStates, Images
  <2>5. QED
    BY <2>1, <2>2, <2>3, <2>4 DEF TypeOK, PcType, Checkpoints, Images, RestorePhases, JournalStates
<1>2. PlaceInv
  BY DEF PlaceInv, Idle, WorkStages, RecoverStages, PrepareStages, ApplyStages, RecordStages,
     UpStages
<1>3. JournalInv
  BY DEF JournalInv, Mutating, Recovering, Idle, JournalFollowsReceipts, RecoverStages, ApplyStages,
     RecordStages
<1>4. ImageInv
  BY DEF ImageInv, VerifiedIsLive, Idle, RecordStages
<1>5. OrderInv
  BY DEF OrderInv, InOrder, PinnedIsJournaled, Executing, Resuming, Idle, RecoverStages,
     PrepareStages, ApplyStages, RecordStages
<1>6. TornInv
  BY DEF TornInv, Idle, Native
<1>7. PointInv
  BY DEF PointInv, PointBeforeMutation, Idle, RecordStages
<1>8. FormatInv
  BY DEF FormatInv, Idle, Native
<1>9. QED
  BY <1>1, <1>2, <1>3, <1>4, <1>5, <1>6, <1>7, <1>8 DEF IInv

LEMMA IInvStep ==
  ASSUME IInv, [Next]_vars
  PROVE  IInv'
BY TypeStep, JournalStep, ImageStep, OrderStep, TornStep, PointStep, FormatStep DEF IInv

LEMMA Invariance == Spec => []IInv
<1>1. Init => IInv
  BY IInvInit
<1>2. IInv /\ [Next]_vars => IInv'
  BY IInvStep
<1>3. QED
  BY <1>1, <1>2, PTL DEF Spec

(* Every reachable state of the update has its declared types.             *)
THEOREM TypeCorrect == Spec => []TypeOK
<1>1. IInv => TypeOK
  BY DEF IInv
<1>2. QED
  BY <1>1, Invariance, PTL

(* No mutation without a complete recovery point of original data, for any *)
(* number of providers, crashes, faults and retries.                       *)
THEOREM RecoveryPointFirst == Spec => []PointBeforeMutation
<1>1. IInv => PointBeforeMutation
  BY DEF IInv, PointInv
<1>2. QED
  BY <1>1, Invariance, PTL

(* "verified" in the journal means the pinned image, for ever.             *)
THEOREM VerifiedStaysLive == Spec => []VerifiedIsLive
<1>1. IInv => VerifiedIsLive
  BY DEF IInv, ImageInv
<1>2. QED
  BY <1>1, Invariance, PTL

(* The journal is never ahead of the receipts.                             *)
THEOREM ReceiptsFirst == Spec => []JournalFollowsReceipts
<1>1. IInv => JournalFollowsReceipts
  BY DEF IInv, JournalInv
<1>2. QED
  BY <1>1, Invariance, PTL

(* At most one provider is in the middle of its mutation.                  *)
THEOREM OneAtATime == Spec => []AtMostOneInterrupted
<1>1. IInv => AtMostOneInterrupted
  BY OneInterrupted DEF IInv
<1>2. QED
  BY <1>1, Invariance, PTL

(* The original image of the native provider never runs on migrated or     *)
(* half restored data.                                                     *)
THEOREM NativeFormatSafe == Spec => []NativeRunsOwnFormat
<1>1. IInv => NativeRunsOwnFormat
  BY OwnFormat DEF IInv
<1>2. QED
  BY <1>1, Invariance, PTL

(* Accepted writes are taken back only by the recovery of an interrupted   *)
(* provider.                                                               *)
THEOREM RewindsAreRecoveries == Spec => RewindOnlyInterrupted
<1>1. IInv /\ [Next]_vars =>
        [\A q \in Providers :
           data'[q].writes < data[q].writes =>
             \E p \in InterruptedIn(journal) : q \in Scope(p)]_vars
  BY RewindStep DEF IInv
<1>2. QED
  BY <1>1, Invariance, PTL DEF Spec, RewindOnlyInterrupted

=============================================================================
