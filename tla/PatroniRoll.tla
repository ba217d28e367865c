----------------------------- MODULE PatroniRoll -----------------------------
(***************************************************************************)
(* The rolling image update of the three Patroni members of an owned HA    *)
(* Core: rollOwnedCoreHAPostgres and the inventory before it (cmd/baha),   *)
(* around StageAndRollPatroniCluster and RollPatroniCluster                *)
(* (internal/coreupdate).  Replicas are recreated first, then leadership   *)
(* is switched, then the old primary is recreated as a replica.  A member  *)
(* journal lets a later attempt resume.                                    *)
(*                                                                         *)
(* An attempt runs under the Core lifecycle lock, so one runs at a time,   *)
(* but Patroni elects leaders on its own, members restart, and the attempt *)
(* may fail or die between any two steps.                                  *)
(*                                                                         *)
(* Abstractions: a member is healthy and without replay lag, or it is not. *)
(* inspectPatroniMembers asks the members one after the other and again    *)
(* through /cluster; here it sees one instant.  The base backup, the DCS   *)
(* receipt and the Compose checkpoint are written once and only verified   *)
(* afterwards.  The journal is replaced by rename, and this code records   *)
(* only "applying" and "verified" in it.                                   *)
(***************************************************************************)
EXTENDS Naturals

(* VerifyPatroniQuorum accepts three members, and sorts them by name. *)
PatroniMembers == 1..3
NoMember == 0
NoRequest == <<NoMember, NoMember>>
Images == {"orig", "pinned"}

(* Evidence: written in part, or sealed and then taken of an untouched     *)
(* cluster ("pre") or of one already being rolled ("mixed").               *)
Artifacts == {"none", "partial", "pre", "mixed"}
Sealed == {"pre", "mixed"}

RollPoints ==
  {"idle", "quorum", "base", "dcs", "requorum", "prestage",  \* evidence
   "checkpoint", "compose", "snapshot",
   "replica", "mark", "recreate", "image", "wait", "record", \* one member
   "switch", "switchover", "switched",                       \* leadership
   "former", "final"}

Modes == {"replica", "old", "resume", "replay"}

VARIABLES
  (* Patroni and the runtime *)
  leader,     \* the member that holds the leader lock
  up,         \* healthy, and as a replica without lag
  image,      \* image of the member's container
  requested,  \* a switchover <<old, new>> Patroni accepted and has not carried out
  (* files *)
  declared,   \* image the Compose file declares for the members
  ckpt,       \* Compose checkpoint
  base, dcs,  \* base backup and DCS receipt
  journal,    \* patroni-members.json
  (* the attempt *)
  at, mode,
  lead,       \* the leader the attempt expects
  member,     \* the member at hand
  todo,       \* replicas still to be rolled
  outcome,
  calm,       \* no fault and no election happens any more
  (* history *)
  seen,       \* leader of the last verified snapshot
  taken,      \* members the roll recreated that have not been healthy since
  marked,     \* role in which a member was recorded as applying
  switches    \* switchovers the roll asked for

patroniVars == <<leader, up, image, requested>>
rollFiles == <<declared, ckpt, base, dcs, journal>>
local == <<mode, lead, member, todo>>
history == <<seen, taken, marked, switches>>
rollVars == <<patroniVars, rollFiles, at, local, outcome, calm, history>>

RollTypeOK ==
  /\ leader \in PatroniMembers \cup {NoMember}
  /\ up \in [PatroniMembers -> BOOLEAN]
  /\ image \in [PatroniMembers -> Images]
  /\ requested \in (PatroniMembers \X PatroniMembers) \cup {NoRequest}
  /\ declared \in Images
  /\ ckpt \in {"none", "partial", "saved"}
  /\ base \in Artifacts /\ dcs \in Artifacts
  /\ journal \in [PatroniMembers -> {"", "applying", "verified"}]
  /\ at \in RollPoints /\ mode \in Modes
  /\ lead \in PatroniMembers /\ member \in PatroniMembers
  /\ todo \in SUBSET PatroniMembers
  /\ outcome \in {"none", "ok", "error"}
  /\ calm \in BOOLEAN
  /\ seen \in PatroniMembers \cup {NoMember}
  /\ taken \in SUBSET PatroniMembers
  /\ marked \in [PatroniMembers -> {"none", "replica", "primary"}]
  /\ switches \in 0..2

RollInit ==
  /\ leader \in PatroniMembers
  /\ up = [n \in PatroniMembers |-> TRUE]
  /\ image = [n \in PatroniMembers |-> "orig"]
  /\ requested = NoRequest
  /\ declared = "orig" /\ ckpt = "none" /\ base = "none" /\ dcs = "none"
  /\ journal = [n \in PatroniMembers |-> ""]
  /\ at = "idle" /\ mode = "replica" /\ lead = 1 /\ member = 1 /\ todo = {}
  /\ outcome = "none" /\ calm = FALSE
  /\ seen = NoMember /\ taken = {} /\ switches = 0
  /\ marked = [n \in PatroniMembers |-> "none"]

-----------------------------------------------------------------------------
First(S) == CHOOSE n \in S : \A k \in S : n <= k
Untouched == \A n \in PatroniMembers : image[n] = "orig"
Healthy == \A n \in PatroniMembers : up[n]

(* Mutant: a snapshot without a primary is accepted. *)
QuorumWithoutPrimary == Healthy
PatroniQuorum == Healthy /\ leader # NoMember

RollTo(step) == at' = step
Refuse == RollTo("idle") /\ outcome' = "error"

(* VerifyPatroniQuorum of a fresh snapshot: all healthy, one leader, and   *)
(* one of those the caller accepts.                                        *)
CheckQuorum(leaders, step) ==
  /\ seen' = IF PatroniQuorum THEN leader ELSE seen
  /\ IF PatroniQuorum /\ leader \in leaders THEN RollTo(step) /\ UNCHANGED outcome ELSE Refuse

(* WaitForPatroniQuorum: another leader of a complete quorum is drift; an  *)
(* incomplete quorum is waited for, until the deadline (Timeout).          *)
AwaitQuorum(step) == PatroniQuorum /\ CheckQuorum({lead}, step)

-----------------------------------------------------------------------------
(* The inventory of the member images decides whether there is a roll.     *)

Mixed == \E n, k \in PatroniMembers : image[n] # image[k]

(* verifyCompletedPatroniJournal; the file is absent while nothing was     *)
(* recorded.                                                               *)
JournalComplete == \/ \A n \in PatroniMembers : journal[n] = ""
                   \/ \A n \in PatroniMembers : journal[n] = "verified"

(* classifyMixedHAPostgresWithJournal *)
(* Mutant: a pinned member must have been verified. *)
AttestedVerified ==
  /\ \E n \in PatroniMembers : journal[n] # ""
  /\ \A n \in PatroniMembers : (image[n] = "pinned") = (journal[n] = "verified")
Attested == /\ \E n \in PatroniMembers : journal[n] # ""
            /\ \A n \in PatroniMembers : IF image[n] = "pinned"
                                            THEN journal[n] # ""
                                            ELSE journal[n] # "verified"

Begin ==
  /\ at = "idle"
  /\ \/ (Mixed => Attested) /\ (Mixed \/ Untouched)
        /\ RollTo("quorum") /\ outcome' = "none"
     \/ ~Mixed /\ ~Untouched /\ JournalComplete
        /\ outcome' = "ok" /\ UNCHANGED at
     \/ \/ Mixed /\ ~Attested
        \/ ~Mixed /\ ~Untouched /\ ~JournalComplete
        /\ Refuse
  /\ UNCHANGED <<patroniVars, rollFiles, local, calm, history>>

(* prepareCoreHARecoveryEvidence: the leader is fixed, the base backup and *)
(* the DCS snapshot are taken, and the leader is confirmed.                *)
EvidenceQuorum ==
  /\ at = "quorum"
  /\ CheckQuorum(PatroniMembers, "base")
  /\ lead' = IF PatroniQuorum THEN leader ELSE lead
  /\ UNCHANGED <<patroniVars, rollFiles, mode, member, todo, calm, taken, marked, switches>>

(* StreamRecoveryPoint.Capture, DCSCheckpoint.Acquire: an artifact that    *)
(* exists is verified and kept; one that an interruption left incomplete   *)
(* is refused.                                                             *)
Capture(step, file, next) ==
  /\ at = step
  /\ IF file = "partial" THEN Refuse ELSE RollTo(next) /\ UNCHANGED outcome

(* Mutant: every attempt takes fresh evidence. *)
PublishFresh(file) == IF Untouched THEN "pre" ELSE "mixed"
Publish(file) == IF file = "none" THEN IF Untouched THEN "pre" ELSE "mixed" ELSE file

CaptureBase ==
  /\ Capture("base", base, "dcs")
  /\ base' = Publish(base)
  /\ UNCHANGED <<patroniVars, declared, ckpt, dcs, journal, local, calm, history>>

CaptureDCS ==
  /\ Capture("dcs", dcs, "requorum")
  /\ dcs' = Publish(dcs)
  /\ UNCHANGED <<patroniVars, declared, ckpt, base, journal, local, calm, history>>

(* The publication is cut short between the artifact and its checksum, or  *)
(* while the receipt or the checkpoint is written.                         *)
CutShort ==
  /\ ~calm
  /\ \/ at = "base" /\ base = "none" /\ base' = "partial" /\ UNCHANGED <<dcs, ckpt>>
     \/ at = "dcs" /\ dcs = "none" /\ dcs' = "partial" /\ UNCHANGED <<base, ckpt>>
     \/ at = "checkpoint" /\ ckpt = "none" /\ ckpt' = "partial" /\ UNCHANGED <<base, dcs>>
  /\ Refuse
  /\ UNCHANGED <<patroniVars, declared, journal, local, calm, history>>

ConfirmLeader ==
  /\ at = "requorum"
  /\ CheckQuorum({lead}, "prestage")
  /\ UNCHANGED <<patroniVars, rollFiles, local, calm, taken, marked, switches>>

(* StageAndRollPatroniCluster: both proofs again, then a quorum, then      *)
(* HAPostgresComposeCheckpoint.Stage.                                      *)
Evidence == base \in Sealed /\ dcs \in Sealed

PreStage ==
  /\ at = "prestage"
  /\ IF Evidence
     THEN CheckQuorum(PatroniMembers, "checkpoint")
     ELSE Refuse /\ UNCHANGED seen
  /\ UNCHANGED <<patroniVars, rollFiles, local, calm, taken, marked, switches>>

SaveCheckpoint ==
  /\ at = "checkpoint"
  /\ IF ckpt = "partial" THEN Refuse ELSE RollTo("compose") /\ UNCHANGED outcome
  /\ ckpt' = IF ckpt = "none" THEN "saved" ELSE ckpt
  /\ UNCHANGED <<patroniVars, declared, base, dcs, journal, local, calm, history>>

ReplaceCompose ==
  /\ at = "compose"
  /\ declared' = "pinned"
  /\ RollTo("snapshot")
  /\ UNCHANGED <<patroniVars, ckpt, base, dcs, journal, local, outcome, calm, history>>

-----------------------------------------------------------------------------
(* RollPatroniCluster *)

(* resumePatroniAfterSwitchover: the leader and one replica are verified   *)
(* and run the pinned image, the other replica is the interrupted one.     *)
Interrupted == {n \in PatroniMembers : journal[n] = "applying"}
VerifiedImages == \A n \in PatroniMembers : journal[n] = "verified" => image[n] = "pinned"

(* Mutant: members without a journal entry do not make it ambiguous. *)
ResumeAnyway(l) ==
  /\ journal[l] = "verified"
  /\ \A n, k \in Interrupted : n = k
  /\ VerifiedImages
CanResume(l) ==
  /\ journal[l] = "verified"
  /\ \A n \in PatroniMembers : journal[n] # ""
  /\ \A n, k \in Interrupted : n = k
  /\ VerifiedImages

NoSnapshot ==
  /\ at = "snapshot" /\ ~PatroniQuorum
  /\ Refuse
  /\ UNCHANGED <<patroniVars, rollFiles, local, calm, history>>

Snapshot ==
  /\ at = "snapshot"
  /\ PatroniQuorum
  /\ lead' = leader /\ seen' = leader
  /\ todo' = PatroniMembers \ {leader}
  /\ \/ /\ journal[leader] = ""
        /\ mode' = "replica" /\ RollTo("replica") /\ UNCHANGED <<member, outcome>>
     \/ /\ journal[leader] # "" /\ CanResume(leader)
        /\ IF Interrupted = {}
           THEN mode' = "replay" /\ RollTo("wait") /\ UNCHANGED <<member, outcome>>
           ELSE /\ mode' = "resume" /\ member' = First(Interrupted)
                /\ RollTo("former") /\ UNCHANGED outcome
     \/ /\ journal[leader] # "" /\ ~CanResume(leader)
        /\ Refuse /\ UNCHANGED <<mode, member>>
  /\ UNCHANGED <<patroniVars, rollFiles, calm, taken, marked, switches>>

(* RecoverInterrupted only observes: it does not repeat an interrupted     *)
(* recreation.  Mutant: it takes the journal's word.                       *)
RecoveredUnseen(n) == TRUE
Recovered(n) == image[n] = "pinned"

(* The step of the next replica, by its journal state. *)
Replica ==
  /\ at = "replica"
  /\ todo # {}
  /\ member' = First(todo)
  /\ \/ /\ journal[member'] = "verified"
        /\ IF image[member'] = "pinned" THEN RollTo("wait") /\ UNCHANGED outcome ELSE Refuse
        /\ UNCHANGED seen
     \/ /\ journal[member'] = "applying"
        /\ IF ~Recovered(member')
           THEN Refuse /\ UNCHANGED seen
           ELSE CheckQuorum(PatroniMembers, "wait")
     \/ /\ journal[member'] = "" /\ Evidence
        /\ CheckQuorum({lead}, "mark")
     \/ /\ journal[member'] = "" /\ ~Evidence
        /\ Refuse /\ UNCHANGED seen
  /\ UNCHANGED <<patroniVars, rollFiles, mode, lead, todo, calm, taken, marked, switches>>

Mark ==
  /\ at = "mark"
  /\ journal' = [journal EXCEPT ![member] = "applying"]
  /\ marked' = [marked EXCEPT ![member] = IF mode = "old" THEN "primary" ELSE "replica"]
  /\ RollTo(IF mode = "old" THEN "switchover" ELSE "recreate")
  /\ UNCHANGED <<patroniVars, declared, ckpt, base, dcs, local, outcome, calm>>
  /\ UNCHANGED <<seen, taken, switches>>

(* Recreate: the container is replaced by one of the image the Compose     *)
(* file declares; a primary loses its leadership.                          *)
RecreateMember ==
  /\ at = "recreate"
  /\ image' = [image EXCEPT ![member] = declared]
  /\ up' = [up EXCEPT ![member] = FALSE]
  /\ leader' = IF leader = member THEN NoMember ELSE leader
  /\ taken' = taken \cup {member}
  /\ RollTo("image")
  /\ UNCHANGED <<requested, rollFiles, local, outcome, calm, seen, marked, switches>>

VerifyMemberImage ==
  /\ at = "image"
  /\ IF image[member] = "pinned" THEN RollTo("wait") /\ UNCHANGED outcome ELSE Refuse
  /\ UNCHANGED <<patroniVars, rollFiles, local, calm, history>>

Wait ==
  /\ at = "wait"
  /\ AwaitQuorum(IF mode = "replay" THEN "final" ELSE "record")
  /\ UNCHANGED <<patroniVars, rollFiles, local, calm, taken, marked, switches>>

RecordVerified ==
  /\ at = "record"
  /\ journal' = [journal EXCEPT ![member] = "verified"]
  /\ todo' = todo \ {member}
  /\ RollTo(IF mode # "replica" THEN "final"
            ELSE IF todo' = {} THEN "switch" ELSE "replica")
  /\ UNCHANGED <<patroniVars, declared, ckpt, base, dcs>>
  /\ UNCHANGED <<mode, lead, member, outcome, calm, history>>

(* The old primary is the member at hand from here on, and the first       *)
(* replica the expected leader.                                            *)
Switch ==
  /\ at = "switch"
  /\ IF journal[lead] = "" /\ Evidence
     THEN /\ mode' = "old" /\ member' = lead /\ lead' = First(PatroniMembers \ {lead})
          /\ RollTo("mark") /\ UNCHANGED <<todo, outcome>>
     ELSE Refuse /\ UNCHANGED local
  /\ UNCHANGED <<patroniVars, rollFiles, calm, history>>

(* Patroni compares the leader of the request with its own; it answers     *)
(* when the switchover is done (200) or accepted (202), or not in time.    *)
Switchover ==
  /\ at = "switchover"
  /\ switches' = switches + 1
  /\ IF leader = member /\ up[member]
     THEN /\ \/ up[lead] /\ leader' = lead /\ UNCHANGED requested
             \/ requested' = <<member, lead>> /\ UNCHANGED leader
          /\ RollTo("switched") /\ UNCHANGED outcome
     ELSE Refuse /\ UNCHANGED <<leader, requested>>
  /\ UNCHANGED <<up, image, rollFiles, local, calm, seen, taken, marked>>

Switched ==
  /\ at = "switched"
  /\ AwaitQuorum("recreate")
  /\ UNCHANGED <<patroniVars, rollFiles, local, calm, taken, marked, switches>>

(* The interrupted old primary: recreated unless it already runs the       *)
(* pinned image.                                                           *)
Former ==
  /\ at = "former"
  /\ IF Evidence
     THEN AwaitQuorum(IF image[member] = "pinned" THEN "image" ELSE "recreate")
     ELSE Refuse /\ UNCHANGED seen
  /\ UNCHANGED <<patroniVars, rollFiles, local, calm, taken, marked, switches>>

(* rollOwnedCoreHAPostgres checks the quorum and every image at the end.   *)
Final ==
  /\ at = "final"
  /\ seen' = IF PatroniQuorum THEN leader ELSE seen
  /\ IF PatroniQuorum /\ \A n \in PatroniMembers : image[n] = "pinned"
     THEN RollTo("idle") /\ outcome' = "ok"
     ELSE Refuse
  /\ UNCHANGED <<patroniVars, rollFiles, local, calm, taken, marked, switches>>

(* A call fails, a deadline passes or the process dies; a call that had    *)
(* its effect and then failed is one stopped at the next step.             *)
StopRoll ==
  /\ ~calm /\ at # "idle"
  /\ Refuse
  /\ UNCHANGED <<patroniVars, rollFiles, local, calm, history>>

(* The deadline of WaitForPatroniQuorum. *)
Timeout == StopRoll /\ at \in {"wait", "switched", "former"}

-----------------------------------------------------------------------------
(* Patroni *)

Elect ==
  /\ leader = NoMember
  /\ \E n \in PatroniMembers : up[n] /\ leader' = n
  /\ UNCHANGED <<up, image, requested, rollFiles, at, local, outcome, calm, history>>

Rejoin ==
  /\ \E n \in PatroniMembers : /\ ~up[n]
                               /\ up' = [up EXCEPT ![n] = TRUE]
                               /\ taken' = taken \ {n}
  /\ UNCHANGED <<leader, image, requested, rollFiles, at, local, outcome, calm>>
  /\ UNCHANGED <<seen, marked, switches>>

CarryOut ==
  /\ requested # NoRequest
  /\ requested' = NoRequest
  /\ leader' = IF leader = requested[1] /\ up[requested[2]] THEN requested[2] ELSE leader
  /\ UNCHANGED <<up, image, rollFiles, at, local, outcome, calm, history>>

Failover ==
  /\ ~calm /\ leader # NoMember
  /\ \E n \in PatroniMembers : up[n] /\ n # leader /\ leader' = n
  /\ UNCHANGED <<up, image, requested, rollFiles, at, local, outcome, calm, history>>

Flap ==
  /\ ~calm
  /\ \E n \in PatroniMembers : /\ up[n]
                               /\ up' = [up EXCEPT ![n] = FALSE]
                               /\ leader' = IF leader = n THEN NoMember ELSE leader
  /\ UNCHANGED <<image, requested, rollFiles, at, local, outcome, calm, history>>

FaultsCease ==
  /\ ~calm /\ calm' = TRUE
  /\ UNCHANGED <<patroniVars, rollFiles, at, local, outcome, history>>

Attempt ==
  \/ Begin \/ EvidenceQuorum \/ CaptureBase \/ CaptureDCS \/ ConfirmLeader \/ PreStage
  \/ SaveCheckpoint \/ ReplaceCompose \/ NoSnapshot \/ Snapshot \/ Replica
  \/ Mark \/ RecreateMember \/ VerifyMemberImage \/ Wait \/ RecordVerified
  \/ Switch \/ Switchover \/ Switched \/ Former \/ Final

Patroni == Elect \/ Rejoin \/ CarryOut

RollNext == Attempt \/ CutShort \/ StopRoll \/ Patroni \/ Failover \/ Flap \/ FaultsCease

RollSpec == RollInit /\ [][RollNext]_rollVars

(* The attempt's own steps happen, its waits have deadlines, members       *)
(* rejoin, leaders are elected and the operator retries.  Faults need not  *)
(* happen, and need not end.                                               *)
RollFairSpec ==
  /\ RollSpec
  /\ WF_rollVars(Attempt) /\ WF_rollVars(Timeout)
  /\ WF_rollVars(Elect) /\ WF_rollVars(Rejoin) /\ WF_rollVars(CarryOut)
-----------------------------------------------------------------------------
(* Properties *)

(* Both recovery artifacts are sealed before the Compose file, the journal *)
(* or a member changes, and they are of the untouched cluster: no attempt  *)
(* replaces them from a partly rolled one (DCSCheckpoint.Acquire,          *)
(* StreamRecoveryPoint.Capture), however often it was interrupted.         *)
EvidencePredatesRoll ==
  /\ base # "mixed" /\ dcs # "mixed"
  /\ declared = "pinned" \/ ~Untouched \/ (\E n \in PatroniMembers : journal[n] # "")
       => base = "pre" /\ dcs = "pre" /\ ckpt = "saved"

(* A roll that reports success has every member on the pinned image and    *)
(* journaled, and later attempts find it complete.                         *)
SuccessIsComplete ==
  outcome = "ok" => \A n \in PatroniMembers : image[n] = "pinned" /\ journal[n] = "verified"

(* The journal and the members agree across interruptions: what it calls   *)
(* verified runs the pinned image, no member runs it unrecorded, and       *)
(* success means that all is done.                                         *)
JournalAgrees ==
  /\ \A n \in PatroniMembers : /\ journal[n] = "verified" => image[n] = "pinned"
                               /\ image[n] = "pinned" => journal[n] # ""
  /\ SuccessIsComplete

(* The roll never has two members down at once, whatever was interrupted:  *)
(* the next one is recreated only after all have been healthy together.    *)
OneMemberDown == \A n, k \in taken : n = k

(* A primary is recorded for replacement only when both other members are  *)
(* verified, and over all attempts leadership is switched at most once: an *)
(* ambiguous switchover is not retried (RollPatroniCluster).               *)
ReplicasFirst ==
  /\ \A n \in PatroniMembers : marked[n] = "primary" =>
        \A k \in PatroniMembers \ {n} : journal[k] = "verified"
  /\ switches <= 1

(* resumePatroniAfterSwitchover takes the one interrupted replica for the  *)
(* old primary.  The journal does not name roles, so this is an inference  *)
(* from the order of the roll; it is right.                                *)
FormerIsOldPrimary == at = "former" => marked[member] = "primary"

(* A member is recreated only if it is recorded and the last snapshot      *)
(* before showed a complete quorum with another leader: an election since  *)
(* the snapshot the roll started from stops it.                            *)
RecreatesReplica ==
  at = "recreate" => seen \notin {NoMember, member} /\ journal[member] = "applying"

(* The order that keeps a primary and two replicas through the roll, in    *)
(* one attempt or in many.                                                 *)
RollInOrder == OneMemberDown /\ ReplicasFirst /\ FormerIsOldPrimary /\ RecreatesReplica

(* What a later attempt can finish.  The roll refuses everything else, and *)
(* leaves it to the operator: an interrupted member that still runs the    *)
(* old image, an interrupted leader, an elected leader that is verified    *)
(* beside untouched members, three pinned images with an open journal, and *)
(* evidence cut short.                                                     *)
Resumable ==
  /\ base # "partial" /\ dcs # "partial" /\ ckpt # "partial"
  /\ leader # NoMember /\ requested = NoRequest
  /\ \/ \A n \in PatroniMembers : journal[n] = "verified"
     \/ /\ journal[leader] = ""
        /\ \A n \in PatroniMembers : journal[n] = "applying" => image[n] = "pinned"
     \/ CanResume(leader) /\ Mixed

(* Once faults and elections cease, an attempt that starts from such a     *)
(* state leads to the complete roll.                                       *)
ResumableCompletes == (calm /\ at = "idle" /\ Resumable) ~> (outcome = "ok")
=============================================================================
