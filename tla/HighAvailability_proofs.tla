----------------------- MODULE HighAvailability_proofs -----------------------
(***************************************************************************)
(* Proofs about the two procedures that change a running HA Core.          *)
(*                                                                         *)
(* The point recovery (HACutover), for every set of members: the cluster   *)
(* stays on one side of the cutover until a `baha up` writes the template  *)
(* over the manifest, and what runs on restored data was seeded completely *)
(* whether or not it does.                                                 *)
(*                                                                         *)
(* The rolling update of the three Patroni members (PatroniRoll), for any  *)
(* number of attempts, elections and faults: evidence before change, a     *)
(* journal that is true, and the order of the roll.                        *)
(***************************************************************************)
EXTENDS HACutover, PatroniRoll, TLAPS

(* A Core start has the lifecycle lock to itself.                          *)
StartInv == starterBy = "core" /\ (starter # "none" => pc = "idle")

(* The journaled phase at each step of a recovery.                         *)
PlaceInv ==
  /\ pc \in {"boot", "down"} => phase = "none"
  /\ pc \in {"list", "stop_sql", "stop_dcs", "proven"} => phase = "prepared"
  /\ pc = "check" => phase \in {"fenced", "activated"}
  /\ pc \in {"activate", "seed", "receipt", "stage", "up_dcs"} => phase = "fenced"
  /\ pc \in {"quorum", "up_leader", "up_members", "settle"} => phase \in {"activated", "committed"}
  /\ pc = "commit" => phase = "verified"
  /\ pc = "record" => phase # "committed"
  /\ pc \in CutoverSteps \cup {"enter"} => prior \in Manifests

(* The manifest decides the side: unless it was written over, no container *)
(* was ever built on restored data before it is switched; after it every   *)
(* running one is.                                                         *)
SideInv ==
  /\ compose # "new" /\ ~rewritten => \A m \in Members : built[m] # "new"
  /\ compose = "new" => \A m \in running : built[m] = "new"

(* When the manifest may be switched.  Between the fence check and the     *)
(* switch nothing runs on the original data.                               *)
SwitchInv ==
  /\ phase \in {"none", "prepared"} => compose # "new" /\ ~rewritten
  /\ phase \in {"activated", "verified", "committed"} => compose = "new" \/ rewritten
  /\ pc \in {"seed", "receipt", "stage"} => \A m \in running : built[m] = "new"
  /\ pc = "up_dcs" => compose = "new"
  /\ pc = "record" /\ phase = "fenced" => compose = "new"
  /\ pc \in UpdateSteps => compose # "new" /\ \A m \in Members : built[m] # "new"

(* The receipt vouches for the volume, and the manifest for both.          *)
SeedInv ==
  /\ pc \in {"seed", "receipt"} => receipt = "none"
  /\ pc = "receipt" => volume = "seeded"
  /\ pc = "stage" => receipt = "written"
  /\ receipt = "written" => volume = "seeded"
  /\ compose = "new" \/ rewritten => receipt = "written" /\ prior \in Manifests

MarkInv ==
  /\ pc = "record" /\ phase = "verified" => mark = "written"
  /\ phase = "committed" => mark = "written"

IInv ==
  /\ TypeOK /\ StartInv /\ PlaceInv /\ SideInv
  /\ SwitchInv /\ SeedInv /\ MarkInv

(* How a step ends keeps the types of what it ends with.                   *)
EndTyped ==
  /\ pc' \in Steps /\ lock' \in BOOLEAN
  /\ crashes' \in 0..MaxCrashes /\ faults' \in 0..MaxFaults /\ stops' \in 0..MaxStops

(* ... by going on to the next step,                                       *)
LEMMA GotoTyped == ASSUME TypeOK, NEW s \in Steps, Goto(s) PROVE EndTyped
  BY DEF TypeOK, Goto, EndTyped

(* ... by leaving, which removes a lock file the attempt owns,             *)
LEMMA LeaveTyped == ASSUME TypeOK, Leave PROVE pc' = "idle" /\ lock' \in BOOLEAN
<1>1. lock' = TRUE \/ lock' = FALSE
  BY Zenon DEF Leave
<1> QED
  BY <1>1 DEF Leave

(* ... by returning,                                                       *)
LEMMA ReturnTyped == ASSUME TypeOK, Return PROVE EndTyped
  BY LeaveTyped DEF TypeOK, Return, EndTyped, Steps

(* ... or by a fault or the death of the process.                          *)
LEMMA BreakTyped == ASSUME TypeOK, Break PROVE EndTyped
<1> USE LimitsAssumption
<1>1. CASE Leave /\ faults < MaxFaults /\ faults' = faults + 1 /\ UNCHANGED <<crashes, stops>>
  BY <1>1, LeaveTyped DEF TypeOK, EndTyped, Steps
<1>2. CASE /\ pc' = "idle" /\ crashes < MaxCrashes /\ crashes' = crashes + 1
           /\ UNCHANGED <<lock, faults, stops>>
  BY <1>2 DEF TypeOK, EndTyped, Steps
<1> QED
  BY <1>1, <1>2 DEF Break

(* The types of the files, the containers and the Core start.              *)
StateTyped ==
  /\ phase \in Phases
  /\ prior \in Manifests \cup {"none", "torn"} /\ compose \in Manifests
  /\ volume \in {"empty", "partial", "seeded"}
  /\ receipt \in FileStates /\ mark \in FileStates
  /\ fenced \subseteq Members /\ running \subseteq Members
  /\ built \in [Members -> Manifests]
  /\ isolated \in BOOLEAN
  /\ starter \in {"none", "render", "recreate"} /\ starterBy \in {"core", "app"}
  /\ rewritten \in BOOLEAN

(* The type invariant is those two parts.                                  *)
LEMMA TypeParts == (TypeOK => StateTyped) /\ (StateTyped' /\ EndTyped => TypeOK')
  BY DEF TypeOK, StateTyped, EndTyped

(* Every step keeps the types.                                             *)
LEMMA TypeStep == TypeOK /\ [CutoverNext]_vars => TypeOK'
<1> SUFFICES ASSUME TypeOK, [CutoverNext]_vars PROVE TypeOK'
  OBVIOUS
<1> USE TypeParts
<1>1. CASE BeginRecover
  <2>1. StateTyped'
    BY <1>1
       DEF StateTyped, BeginRecover, files, cluster, start, Members, Phases, Manifests,
           FileStates
  <2>2. EndTyped
    BY <1>1, GotoTyped, ReturnTyped, BreakTyped
       DEF BeginRecover, Steps, CutoverSteps, UpdateSteps
  <2> QED
    BY <2>1, <2>2
<1>2. CASE BeginUpdate
  <2>1. StateTyped'
    BY <1>2
       DEF StateTyped, BeginUpdate, files, cluster, start, Members, Phases, Manifests,
           FileStates
  <2>2. EndTyped
    BY <1>2, GotoTyped, ReturnTyped, BreakTyped
       DEF BeginUpdate, Steps, CutoverSteps, UpdateSteps
  <2> QED
    BY <2>1, <2>2
<1>3. CASE Prior
  <2>1. StateTyped'
    BY <1>3
       DEF StateTyped, Prior, files, cluster, start, Members, Phases, Manifests, FileStates
  <2>2. EndTyped
    BY <1>3, GotoTyped, ReturnTyped, BreakTyped DEF Prior, Steps, CutoverSteps, UpdateSteps
  <2> QED
    BY <2>1, <2>2
<1>4. CASE Enter
  <2>1. StateTyped'
    BY <1>4
       DEF StateTyped, Enter, files, cluster, start, Members, Phases, Manifests, FileStates
  <2>2. EndTyped
    <3>1. CASE /\ UNCHANGED <<crashes, faults, stops>>
               /\ pc' \in {"idle", "boot", "check", "quorum"}
               /\ lock' = TRUE \/ lock' = FALSE
      BY <3>1 DEF TypeOK, EndTyped, Steps, CutoverSteps
    <3> QED
      BY <1>4, <3>1, ReturnTyped, BreakTyped DEF Enter
  <2> QED
    BY <2>1, <2>2
<1>5. CASE Boot
  <2>1. StateTyped'
    <3>1. isolated' \in BOOLEAN
      BY <1>5 DEF Boot
    <3> QED
      BY <1>5, <3>1 DEF StateTyped, Boot, files, cluster, start
  <2>2. EndTyped
    BY <1>5, GotoTyped, ReturnTyped, BreakTyped DEF Boot, Steps, CutoverSteps, UpdateSteps
  <2> QED
    BY <2>1, <2>2
<1>6. CASE Down
  <2>1. StateTyped'
    <3>1. isolated' \in BOOLEAN
      BY <1>6 DEF Down
    <3> QED
      BY <1>6, <3>1 DEF StateTyped, Down, files, cluster, start
  <2>2. EndTyped
    BY <1>6, GotoTyped, ReturnTyped, BreakTyped DEF Down, Steps, CutoverSteps, UpdateSteps
  <2> QED
    BY <2>1, <2>2
<1>7. CASE Record
  <2>1. StateTyped'
    BY <1>7
       DEF StateTyped, Record, NextPhase, files, cluster, start, Members, Phases, Manifests,
           FileStates
  <2>2. EndTyped
    <3>1. CASE /\ pc' = AfterRecord[phase] /\ lock' = (phase # "verified")
               /\ UNCHANGED <<crashes, faults, stops>>
      <4>1. lock' = TRUE \/ lock' = FALSE
        BY <3>1, Zenon
      <4> QED
        BY <3>1, <4>1 DEF TypeOK, EndTyped, Steps, CutoverSteps, AfterRecord, Phases
    <3> QED
      BY <1>7, <3>1, BreakTyped DEF Record
  <2> QED
    BY <2>1, <2>2
<1>8. CASE ListContainers
  <2>1. StateTyped'
    BY <1>8
       DEF StateTyped, ListContainers, files, cluster, start, Members, Phases, Manifests,
           FileStates
  <2>2. EndTyped
    BY <1>8, GotoTyped, ReturnTyped, BreakTyped
       DEF ListContainers, Steps, CutoverSteps, UpdateSteps
  <2> QED
    BY <2>1, <2>2
<1>9. CASE StopSQL
  <2>1. StateTyped'
    BY <1>9
       DEF StateTyped, StopSQL, Stop, files, cluster, start, Members, Phases, Manifests,
           FileStates
  <2>2. EndTyped
    BY <1>9, GotoTyped, ReturnTyped, BreakTyped
       DEF StopSQL, Steps, CutoverSteps, UpdateSteps
  <2> QED
    BY <2>1, <2>2
<1>10. CASE StopDCS
  <2>1. StateTyped'
    BY <1>10
       DEF StateTyped, StopDCS, Stop, files, cluster, start, Members, Phases, Manifests,
           FileStates
  <2>2. EndTyped
    BY <1>10, GotoTyped, ReturnTyped, BreakTyped
       DEF StopDCS, Steps, CutoverSteps, UpdateSteps
  <2> QED
    BY <2>1, <2>2
<1>11. CASE CheckFence
  <2>1. StateTyped'
    BY <1>11
       DEF StateTyped, CheckFence, files, cluster, start, Members, Phases, Manifests,
           FileStates
  <2>2. EndTyped
    BY <1>11, GotoTyped, ReturnTyped, BreakTyped
       DEF CheckFence, Steps, CutoverSteps, UpdateSteps
  <2> QED
    BY <2>1, <2>2
<1>12. CASE Activate
  <2>1. StateTyped'
    BY <1>12
       DEF StateTyped, Activate, files, cluster, start, Members, Phases, Manifests,
           FileStates
  <2>2. EndTyped
    BY <1>12, GotoTyped, ReturnTyped, BreakTyped
       DEF Activate, Steps, CutoverSteps, UpdateSteps
  <2> QED
    BY <2>1, <2>2
<1>13. CASE Seed
  <2>1. StateTyped'
    BY <1>13
       DEF StateTyped, Seed, files, cluster, start, Members, Phases, Manifests, FileStates
  <2>2. EndTyped
    BY <1>13, GotoTyped, ReturnTyped, BreakTyped DEF Seed, Steps, CutoverSteps, UpdateSteps
  <2> QED
    BY <2>1, <2>2
<1>14. CASE WriteReceipt
  <2>1. StateTyped'
    BY <1>14
       DEF StateTyped, WriteReceipt, Written, files, cluster, start, Members, Phases,
           Manifests, FileStates
  <2>2. EndTyped
    BY <1>14, GotoTyped, ReturnTyped, BreakTyped
       DEF WriteReceipt, Written, Steps, CutoverSteps, UpdateSteps
  <2> QED
    BY <2>1, <2>2
<1>15. CASE Stage
  <2>1. StateTyped'
    BY <1>15
       DEF StateTyped, Stage, files, cluster, start, Members, Phases, Manifests, FileStates
  <2>2. EndTyped
    BY <1>15, GotoTyped, ReturnTyped, BreakTyped DEF Stage, Steps, CutoverSteps, UpdateSteps
  <2> QED
    BY <2>1, <2>2
<1>16. CASE UpDCS
  <2>1. StateTyped'
    BY <1>16
       DEF StateTyped, UpDCS, ForceUp, Definition, files, cluster, start, Members, Phases,
           Manifests, FileStates
  <2>2. EndTyped
    BY <1>16, GotoTyped, ReturnTyped, BreakTyped DEF UpDCS, Steps, CutoverSteps, UpdateSteps
  <2> QED
    BY <2>1, <2>2
<1>17. CASE Quorum
  <2>1. StateTyped'
    BY <1>17
       DEF StateTyped, Quorum, files, cluster, start, Members, Phases, Manifests, FileStates
  <2>2. EndTyped
    BY <1>17, GotoTyped, ReturnTyped, BreakTyped
       DEF Quorum, Steps, CutoverSteps, UpdateSteps
  <2> QED
    BY <2>1, <2>2
<1>18. CASE UpLeader
  <2>1. StateTyped'
    BY <1>18, MembersAssumption
       DEF StateTyped, UpLeader, Up, Definition, files, cluster, start, Members, Phases,
           Manifests, FileStates
  <2>2. EndTyped
    BY <1>18, GotoTyped, ReturnTyped, BreakTyped
       DEF UpLeader, Steps, CutoverSteps, UpdateSteps
  <2> QED
    BY <2>1, <2>2
<1>19. CASE UpMembers
  <2>1. StateTyped'
    BY <1>19
       DEF StateTyped, UpMembers, Up, Definition, files, cluster, start, Members, Phases,
           Manifests, FileStates
  <2>2. EndTyped
    BY <1>19, GotoTyped, ReturnTyped, BreakTyped
       DEF UpMembers, Steps, CutoverSteps, UpdateSteps
  <2> QED
    BY <2>1, <2>2
<1>20. CASE Settle
  <2>1. StateTyped'
    BY <1>20
       DEF StateTyped, Settle, files, cluster, start, Members, Phases, Manifests, FileStates
  <2>2. EndTyped
    BY <1>20, GotoTyped, ReturnTyped, BreakTyped
       DEF Settle, Steps, CutoverSteps, UpdateSteps
  <2> QED
    BY <2>1, <2>2
<1>21. CASE Commit
  <2>1. StateTyped'
    BY <1>21
       DEF StateTyped, Commit, Written, files, cluster, start, Members, Phases, Manifests,
           FileStates
  <2>2. EndTyped
    BY <1>21, GotoTyped, ReturnTyped, BreakTyped
       DEF Commit, Written, Steps, CutoverSteps, UpdateSteps
  <2> QED
    BY <2>1, <2>2
<1>22. CASE Pin
  <2>1. StateTyped'
    BY <1>22
       DEF StateTyped, Pin, files, cluster, start, Members, Phases, Manifests, FileStates
  <2>2. EndTyped
    BY <1>22, GotoTyped, ReturnTyped, BreakTyped DEF Pin, Steps, CutoverSteps, UpdateSteps
  <2> QED
    BY <2>1, <2>2
<1>23. CASE Roll
  <2>1. StateTyped'
    BY <1>23
       DEF StateTyped, Roll, ForceUp, Definition, Unrolled, files, cluster, start, Members,
           Phases, Manifests, FileStates
  <2>2. EndTyped
    BY <1>23, GotoTyped, ReturnTyped, BreakTyped DEF Roll, Steps, CutoverSteps, UpdateSteps
  <2> QED
    BY <2>1, <2>2
<1>24. CASE StopCore
  <2>1. StateTyped'
    BY <1>24
       DEF StateTyped, StopCore, Stop, files, cluster, start, Members, Phases, Manifests,
           FileStates
  <2>2. EndTyped
    BY <1>24, LimitsAssumption DEF TypeOK, EndTyped, StopCore
  <2> QED
    BY <2>1, <2>2
<1>25. CASE StartCore("core")
  <2>1. StateTyped'
    BY <1>25
       DEF StateTyped, StartCore, Up, Definition, files, cluster, start, Members, Phases,
           Manifests, FileStates
  <2>2. EndTyped
    BY <1>25, GotoTyped DEF StartCore, TypeOK
  <2> QED
    BY <2>1, <2>2
<1>26. CASE Render
  <2>1. rewritten' \in BOOLEAN
    <3>1. CASE rewritten' = (rewritten \/ compose = "new")
      BY <3>1, Zenon
    <3>2. CASE rewritten' = rewritten
      BY <3>2 DEF TypeOK
    <3> QED
      BY <1>26, <3>1, <3>2 DEF Render
  <2>2. StateTyped'
    BY <1>26, <2>1 DEF StateTyped, Render, cluster, Manifests
  <2>3. EndTyped
    BY <1>26, GotoTyped DEF Render, TypeOK
  <2> QED
    BY <2>2, <2>3
<1>27. CASE Recreate
  <2>1. StateTyped'
    BY <1>27 DEF StateTyped, Recreate, Up, Definition, files, Members, Manifests
  <2>2. EndTyped
    BY <1>27, GotoTyped DEF Recreate, TypeOK
  <2> QED
    BY <2>1, <2>2
<1>28. CASE UNCHANGED vars
  BY <1>28 DEF TypeOK, vars, files, cluster, start
<1> QED
  BY <1>1, <1>2, <1>3, <1>4, <1>5, <1>6, <1>7, <1>8, <1>9, <1>10, <1>11, <1>12, <1>13,
     <1>14, <1>15, <1>16, <1>17, <1>18, <1>19, <1>20, <1>21, <1>22, <1>23, <1>24, <1>25,
     <1>26, <1>27, <1>28
     DEF CutoverNext, CutoverStep, UpdateStep

(* The invariant is inductive: one step per action, one leaf per part of   *)
(* the invariant.                                                          *)
LEMMA Inductive == IInv /\ [CutoverNext]_vars => IInv'
<1> SUFFICES ASSUME IInv, [CutoverNext]_vars PROVE IInv'
  OBVIOUS
<1> USE MembersAssumption
<1> USE DEF IInv, Members, Phases, Manifests, FileStates, CutoverSteps, UpdateSteps, Steps,
        Goto, Return, Leave, Holds, Break, files, cluster, start
<1>1. CASE BeginRecover
  <2>0. StartInv'
    BY <1>1 DEF TypeOK, StartInv, BeginRecover, Unlocked
  <2>1. PlaceInv'
    BY <1>1 DEF TypeOK, PlaceInv, BeginRecover, Unlocked
  <2>2. SideInv'
    BY <1>1 DEF TypeOK, SideInv, SwitchInv, BeginRecover, Unlocked
  <2>3. SwitchInv'
    BY <1>1 DEF TypeOK, SwitchInv, PlaceInv, SideInv, BeginRecover, Unlocked
  <2>4. SeedInv'
    BY <1>1 DEF TypeOK, SeedInv, PlaceInv, SwitchInv, BeginRecover, Unlocked
  <2>5. MarkInv'
    BY <1>1 DEF TypeOK, MarkInv, PlaceInv, BeginRecover, Unlocked
  <2> QED
    BY <2>0, <2>1, <2>2, <2>3, <2>4, <2>5, TypeStep
<1>2. CASE BeginUpdate
  <2>0. StartInv'
    BY <1>2 DEF TypeOK, StartInv, BeginUpdate, Unlocked
  <2>1. PlaceInv'
    BY <1>2 DEF TypeOK, PlaceInv, BeginUpdate, Unlocked, OnNew, Unrolled
  <2>2. SideInv'
    BY <1>2 DEF TypeOK, SideInv, SwitchInv, BeginUpdate, Unlocked, OnNew, Unrolled
  <2>3. SwitchInv'
    BY <1>2 DEF TypeOK, SwitchInv, PlaceInv, SideInv, BeginUpdate, Unlocked, OnNew, Unrolled
  <2>4. SeedInv'
    BY <1>2 DEF TypeOK, SeedInv, PlaceInv, SwitchInv, BeginUpdate, Unlocked, OnNew, Unrolled
  <2>5. MarkInv'
    BY <1>2 DEF TypeOK, MarkInv, PlaceInv, BeginUpdate, Unlocked, OnNew, Unrolled
  <2> QED
    BY <2>0, <2>1, <2>2, <2>3, <2>4, <2>5, TypeStep
<1>3. CASE Prior
  <2>0. StartInv'
    BY <1>3 DEF TypeOK, StartInv, Prior
  <2>1. PlaceInv'
    BY <1>3 DEF TypeOK, PlaceInv, Prior
  <2>2. SideInv'
    BY <1>3 DEF TypeOK, SideInv, SwitchInv, Prior
  <2>3. SwitchInv'
    BY <1>3 DEF TypeOK, SwitchInv, PlaceInv, SideInv, Prior
  <2>4. SeedInv'
    BY <1>3 DEF TypeOK, SeedInv, PlaceInv, SwitchInv, Prior
  <2>5. MarkInv'
    BY <1>3 DEF TypeOK, MarkInv, PlaceInv, Prior
  <2> QED
    BY <2>0, <2>1, <2>2, <2>3, <2>4, <2>5, TypeStep
<1>4. CASE Enter
  <2>0. StartInv'
    BY <1>4 DEF TypeOK, StartInv, Enter
  <2>1. PlaceInv'
    BY <1>4 DEF TypeOK, PlaceInv, Enter
  <2>2. SideInv'
    BY <1>4 DEF TypeOK, SideInv, SwitchInv, Enter
  <2>3. SwitchInv'
    BY <1>4 DEF TypeOK, SwitchInv, PlaceInv, SideInv, Enter
  <2>4. SeedInv'
    BY <1>4 DEF TypeOK, SeedInv, PlaceInv, SwitchInv, Enter
  <2>5. MarkInv'
    BY <1>4 DEF TypeOK, MarkInv, PlaceInv, Enter
  <2> QED
    BY <2>0, <2>1, <2>2, <2>3, <2>4, <2>5, TypeStep
<1>5. CASE Boot
  <2>0. StartInv'
    BY <1>5 DEF TypeOK, StartInv, Boot
  <2>1. PlaceInv'
    BY <1>5 DEF TypeOK, PlaceInv, Boot
  <2>2. SideInv'
    BY <1>5 DEF TypeOK, SideInv, SwitchInv, Boot
  <2>3. SwitchInv'
    BY <1>5 DEF TypeOK, SwitchInv, PlaceInv, SideInv, Boot
  <2>4. SeedInv'
    BY <1>5 DEF TypeOK, SeedInv, PlaceInv, SwitchInv, Boot
  <2>5. MarkInv'
    BY <1>5 DEF TypeOK, MarkInv, PlaceInv, Boot
  <2> QED
    BY <2>0, <2>1, <2>2, <2>3, <2>4, <2>5, TypeStep
<1>6. CASE Down
  <2>0. StartInv'
    BY <1>6 DEF TypeOK, StartInv, Down
  <2>1. PlaceInv'
    BY <1>6 DEF TypeOK, PlaceInv, Down
  <2>2. SideInv'
    BY <1>6 DEF TypeOK, SideInv, SwitchInv, Down
  <2>3. SwitchInv'
    BY <1>6 DEF TypeOK, SwitchInv, PlaceInv, SideInv, Down
  <2>4. SeedInv'
    BY <1>6 DEF TypeOK, SeedInv, PlaceInv, SwitchInv, Down
  <2>5. MarkInv'
    BY <1>6 DEF TypeOK, MarkInv, PlaceInv, Down
  <2> QED
    BY <2>0, <2>1, <2>2, <2>3, <2>4, <2>5, TypeStep
<1>7. CASE Record
  <2>0. StartInv'
    BY <1>7 DEF TypeOK, StartInv, Record
  <2>1. PlaceInv'
    BY <1>7 DEF TypeOK, PlaceInv, Record, NextPhase, AfterRecord
  <2>2. SideInv'
    BY <1>7 DEF TypeOK, SideInv, SwitchInv, Record, NextPhase, AfterRecord
  <2>3. SwitchInv'
    BY <1>7 DEF TypeOK, SwitchInv, PlaceInv, SideInv, Record, NextPhase, AfterRecord
  <2>4. SeedInv'
    BY <1>7 DEF TypeOK, SeedInv, PlaceInv, SwitchInv, Record, NextPhase, AfterRecord
  <2>5. MarkInv'
    BY <1>7 DEF TypeOK, MarkInv, PlaceInv, Record, NextPhase, AfterRecord
  <2> QED
    BY <2>0, <2>1, <2>2, <2>3, <2>4, <2>5, TypeStep
<1>8. CASE ListContainers
  <2>0. StartInv'
    BY <1>8 DEF TypeOK, StartInv, ListContainers
  <2>1. PlaceInv'
    BY <1>8 DEF TypeOK, PlaceInv, ListContainers
  <2>2. SideInv'
    BY <1>8 DEF TypeOK, SideInv, SwitchInv, ListContainers
  <2>3. SwitchInv'
    BY <1>8 DEF TypeOK, SwitchInv, PlaceInv, SideInv, ListContainers
  <2>4. SeedInv'
    BY <1>8 DEF TypeOK, SeedInv, PlaceInv, SwitchInv, ListContainers
  <2>5. MarkInv'
    BY <1>8 DEF TypeOK, MarkInv, PlaceInv, ListContainers
  <2> QED
    BY <2>0, <2>1, <2>2, <2>3, <2>4, <2>5, TypeStep
<1>9. CASE StopSQL
  <2>0. StartInv'
    BY <1>9 DEF TypeOK, StartInv, StopSQL
  <2>1. PlaceInv'
    BY <1>9 DEF TypeOK, PlaceInv, StopSQL, Stop
  <2>2. SideInv'
    BY <1>9 DEF TypeOK, SideInv, SwitchInv, StopSQL, Stop
  <2>3. SwitchInv'
    BY <1>9 DEF TypeOK, SwitchInv, PlaceInv, SideInv, StopSQL, Stop
  <2>4. SeedInv'
    BY <1>9 DEF TypeOK, SeedInv, PlaceInv, SwitchInv, StopSQL, Stop
  <2>5. MarkInv'
    BY <1>9 DEF TypeOK, MarkInv, PlaceInv, StopSQL, Stop
  <2> QED
    BY <2>0, <2>1, <2>2, <2>3, <2>4, <2>5, TypeStep
<1>10. CASE StopDCS
  <2>0. StartInv'
    BY <1>10 DEF TypeOK, StartInv, StopDCS
  <2>1. PlaceInv'
    BY <1>10 DEF TypeOK, PlaceInv, StopDCS, Stop
  <2>2. SideInv'
    BY <1>10 DEF TypeOK, SideInv, SwitchInv, StopDCS, Stop
  <2>3. SwitchInv'
    BY <1>10 DEF TypeOK, SwitchInv, PlaceInv, SideInv, StopDCS, Stop
  <2>4. SeedInv'
    BY <1>10 DEF TypeOK, SeedInv, PlaceInv, SwitchInv, StopDCS, Stop
  <2>5. MarkInv'
    BY <1>10 DEF TypeOK, MarkInv, PlaceInv, StopDCS, Stop
  <2> QED
    BY <2>0, <2>1, <2>2, <2>3, <2>4, <2>5, TypeStep
<1>11. CASE CheckFence
  <2>0. StartInv'
    BY <1>11 DEF TypeOK, StartInv, CheckFence
  <2>1. PlaceInv'
    BY <1>11 DEF TypeOK, PlaceInv, CheckFence, Fenced, OnNew
  <2>2. SideInv'
    BY <1>11 DEF TypeOK, SideInv, SwitchInv, CheckFence, Fenced, OnNew
  <2>3. SwitchInv'
    BY <1>11 DEF TypeOK, SwitchInv, PlaceInv, SideInv, CheckFence, Fenced, OnNew
  <2>4. SeedInv'
    BY <1>11 DEF TypeOK, SeedInv, PlaceInv, SwitchInv, CheckFence, Fenced, OnNew
  <2>5. MarkInv'
    BY <1>11 DEF TypeOK, MarkInv, PlaceInv, CheckFence, Fenced, OnNew
  <2> QED
    BY <2>0, <2>1, <2>2, <2>3, <2>4, <2>5, TypeStep
<1>12. CASE Activate
  <2>0. StartInv'
    BY <1>12 DEF TypeOK, StartInv, Activate
  <2>1. PlaceInv'
    BY <1>12 DEF TypeOK, PlaceInv, Activate, Fenced, OnNew
  <2>2. SideInv'
    BY <1>12 DEF TypeOK, SideInv, SwitchInv, Activate, Fenced, OnNew
  <2>3. SwitchInv'
    BY <1>12 DEF TypeOK, SwitchInv, PlaceInv, SideInv, Activate, Fenced, OnNew
  <2>4. SeedInv'
    BY <1>12 DEF TypeOK, SeedInv, PlaceInv, SwitchInv, Activate, Fenced, OnNew
  <2>5. MarkInv'
    BY <1>12 DEF TypeOK, MarkInv, PlaceInv, Activate, Fenced, OnNew
  <2> QED
    BY <2>0, <2>1, <2>2, <2>3, <2>4, <2>5, TypeStep
<1>13. CASE Seed
  <2>0. StartInv'
    BY <1>13 DEF TypeOK, StartInv, Seed
  <2>1. PlaceInv'
    BY <1>13 DEF TypeOK, PlaceInv, Seed
  <2>2. SideInv'
    BY <1>13 DEF TypeOK, SideInv, SwitchInv, Seed
  <2>3. SwitchInv'
    BY <1>13 DEF TypeOK, SwitchInv, PlaceInv, SideInv, Seed
  <2>4. SeedInv'
    BY <1>13 DEF TypeOK, SeedInv, PlaceInv, SwitchInv, Seed
  <2>5. MarkInv'
    BY <1>13 DEF TypeOK, MarkInv, PlaceInv, Seed
  <2> QED
    BY <2>0, <2>1, <2>2, <2>3, <2>4, <2>5, TypeStep
<1>14. CASE WriteReceipt
  <2>0. StartInv'
    BY <1>14 DEF TypeOK, StartInv, WriteReceipt
  <2>1. PlaceInv'
    BY <1>14 DEF TypeOK, PlaceInv, WriteReceipt, Written
  <2>2. SideInv'
    BY <1>14 DEF TypeOK, SideInv, SwitchInv, WriteReceipt, Written
  <2>3. SwitchInv'
    BY <1>14 DEF TypeOK, SwitchInv, PlaceInv, SideInv, WriteReceipt, Written
  <2>4. SeedInv'
    BY <1>14 DEF TypeOK, SeedInv, PlaceInv, SwitchInv, WriteReceipt, Written
  <2>5. MarkInv'
    BY <1>14 DEF TypeOK, MarkInv, PlaceInv, WriteReceipt, Written
  <2> QED
    BY <2>0, <2>1, <2>2, <2>3, <2>4, <2>5, TypeStep
<1>15. CASE Stage
  <2>0. StartInv'
    BY <1>15 DEF TypeOK, StartInv, Stage
  <2>1. PlaceInv'
    BY <1>15 DEF TypeOK, PlaceInv, Stage
  <2>2. SideInv'
    BY <1>15 DEF TypeOK, SideInv, SwitchInv, Stage
  <2>3. SwitchInv'
    BY <1>15 DEF TypeOK, SwitchInv, PlaceInv, SideInv, Stage
  <2>4. SeedInv'
    BY <1>15 DEF TypeOK, SeedInv, PlaceInv, SwitchInv, Stage
  <2>5. MarkInv'
    BY <1>15 DEF TypeOK, MarkInv, PlaceInv, Stage
  <2> QED
    BY <2>0, <2>1, <2>2, <2>3, <2>4, <2>5, TypeStep
<1>16. CASE UpDCS
  <2>0. StartInv'
    BY <1>16 DEF TypeOK, StartInv, UpDCS
  <2>1. PlaceInv'
    BY <1>16 DEF TypeOK, PlaceInv, UpDCS, ForceUp, Definition
  <2>2. SideInv'
    BY <1>16 DEF TypeOK, SideInv, SwitchInv, UpDCS, ForceUp, Definition
  <2>3. SwitchInv'
    BY <1>16 DEF TypeOK, SwitchInv, PlaceInv, SideInv, UpDCS, ForceUp, Definition
  <2>4. SeedInv'
    BY <1>16 DEF TypeOK, SeedInv, PlaceInv, SwitchInv, UpDCS, ForceUp, Definition
  <2>5. MarkInv'
    BY <1>16 DEF TypeOK, MarkInv, PlaceInv, UpDCS, ForceUp, Definition
  <2> QED
    BY <2>0, <2>1, <2>2, <2>3, <2>4, <2>5, TypeStep
<1>17. CASE Quorum
  <2>0. StartInv'
    BY <1>17 DEF TypeOK, StartInv, Quorum
  <2>1. PlaceInv'
    BY <1>17 DEF TypeOK, PlaceInv, Quorum
  <2>2. SideInv'
    BY <1>17 DEF TypeOK, SideInv, SwitchInv, Quorum
  <2>3. SwitchInv'
    BY <1>17 DEF TypeOK, SwitchInv, PlaceInv, SideInv, Quorum
  <2>4. SeedInv'
    BY <1>17 DEF TypeOK, SeedInv, PlaceInv, SwitchInv, Quorum
  <2>5. MarkInv'
    BY <1>17 DEF TypeOK, MarkInv, PlaceInv, Quorum
  <2> QED
    BY <2>0, <2>1, <2>2, <2>3, <2>4, <2>5, TypeStep
<1>18. CASE UpLeader
  <2>0. StartInv'
    BY <1>18 DEF TypeOK, StartInv, UpLeader
  <2>1. PlaceInv'
    BY <1>18 DEF TypeOK, PlaceInv, UpLeader, Up, Definition, Fenced, OnNew
  <2>2. SideInv'
    BY <1>18 DEF TypeOK, SideInv, SwitchInv, UpLeader, Up, Definition, Fenced, OnNew
  <2>3. SwitchInv'
    BY <1>18
       DEF TypeOK, SwitchInv, PlaceInv, SideInv, UpLeader, Up, Definition, Fenced, OnNew
  <2>4. SeedInv'
    BY <1>18
       DEF TypeOK, SeedInv, PlaceInv, SwitchInv, UpLeader, Up, Definition, Fenced, OnNew
  <2>5. MarkInv'
    BY <1>18 DEF TypeOK, MarkInv, PlaceInv, UpLeader, Up, Definition, Fenced, OnNew
  <2> QED
    BY <2>0, <2>1, <2>2, <2>3, <2>4, <2>5, TypeStep
<1>19. CASE UpMembers
  <2>0. StartInv'
    BY <1>19 DEF TypeOK, StartInv, UpMembers
  <2>1. PlaceInv'
    BY <1>19 DEF TypeOK, PlaceInv, UpMembers, Up, Definition
  <2>2. SideInv'
    BY <1>19 DEF TypeOK, SideInv, SwitchInv, UpMembers, Up, Definition
  <2>3. SwitchInv'
    BY <1>19 DEF TypeOK, SwitchInv, PlaceInv, SideInv, UpMembers, Up, Definition
  <2>4. SeedInv'
    BY <1>19 DEF TypeOK, SeedInv, PlaceInv, SwitchInv, UpMembers, Up, Definition
  <2>5. MarkInv'
    BY <1>19 DEF TypeOK, MarkInv, PlaceInv, UpMembers, Up, Definition
  <2> QED
    BY <2>0, <2>1, <2>2, <2>3, <2>4, <2>5, TypeStep
<1>20. CASE Settle
  <2>0. StartInv'
    BY <1>20 DEF TypeOK, StartInv, Settle
  <2>1. PlaceInv'
    BY <1>20 DEF TypeOK, PlaceInv, Settle, Fenced, OnNew
  <2>2. SideInv'
    BY <1>20 DEF TypeOK, SideInv, SwitchInv, Settle, Fenced, OnNew
  <2>3. SwitchInv'
    BY <1>20 DEF TypeOK, SwitchInv, PlaceInv, SideInv, Settle, Fenced, OnNew
  <2>4. SeedInv'
    BY <1>20 DEF TypeOK, SeedInv, PlaceInv, SwitchInv, Settle, Fenced, OnNew
  <2>5. MarkInv'
    BY <1>20 DEF TypeOK, MarkInv, PlaceInv, Settle, Fenced, OnNew
  <2> QED
    BY <2>0, <2>1, <2>2, <2>3, <2>4, <2>5, TypeStep
<1>21. CASE Commit
  <2>0. StartInv'
    BY <1>21 DEF TypeOK, StartInv, Commit
  <2>1. PlaceInv'
    BY <1>21 DEF TypeOK, PlaceInv, Commit, Written, Fenced, OnNew
  <2>2. SideInv'
    BY <1>21 DEF TypeOK, SideInv, SwitchInv, Commit, Written, Fenced, OnNew
  <2>3. SwitchInv'
    BY <1>21 DEF TypeOK, SwitchInv, PlaceInv, SideInv, Commit, Written, Fenced, OnNew
  <2>4. SeedInv'
    BY <1>21 DEF TypeOK, SeedInv, PlaceInv, SwitchInv, Commit, Written, Fenced, OnNew
  <2>5. MarkInv'
    BY <1>21 DEF TypeOK, MarkInv, PlaceInv, Commit, Written, Fenced, OnNew
  <2> QED
    BY <2>0, <2>1, <2>2, <2>3, <2>4, <2>5, TypeStep
<1>22. CASE Pin
  <2>0. StartInv'
    BY <1>22 DEF TypeOK, StartInv, Pin
  <2>1. PlaceInv'
    BY <1>22 DEF TypeOK, PlaceInv, Pin
  <2>2. SideInv'
    BY <1>22 DEF TypeOK, SideInv, SwitchInv, Pin
  <2>3. SwitchInv'
    BY <1>22 DEF TypeOK, SwitchInv, PlaceInv, SideInv, Pin
  <2>4. SeedInv'
    BY <1>22 DEF TypeOK, SeedInv, PlaceInv, SwitchInv, Pin
  <2>5. MarkInv'
    BY <1>22 DEF TypeOK, MarkInv, PlaceInv, Pin
  <2> QED
    BY <2>0, <2>1, <2>2, <2>3, <2>4, <2>5, TypeStep
<1>23. CASE Roll
  <2>0. StartInv'
    BY <1>23 DEF TypeOK, StartInv, Roll
  <2>1. PlaceInv'
    BY <1>23 DEF TypeOK, PlaceInv, Roll, ForceUp, Definition, Unrolled
  <2>2. SideInv'
    BY <1>23 DEF TypeOK, SideInv, SwitchInv, Roll, ForceUp, Definition, Unrolled
  <2>3. SwitchInv'
    BY <1>23 DEF TypeOK, SwitchInv, PlaceInv, SideInv, Roll, ForceUp, Definition, Unrolled
  <2>4. SeedInv'
    BY <1>23 DEF TypeOK, SeedInv, PlaceInv, SwitchInv, Roll, ForceUp, Definition, Unrolled
  <2>5. MarkInv'
    BY <1>23 DEF TypeOK, MarkInv, PlaceInv, Roll, ForceUp, Definition, Unrolled
  <2> QED
    BY <2>0, <2>1, <2>2, <2>3, <2>4, <2>5, TypeStep
<1>24. CASE StopCore
  <2>0. StartInv'
    BY <1>24 DEF TypeOK, StartInv, StopCore
  <2>1. PlaceInv'
    BY <1>24 DEF TypeOK, PlaceInv, StopCore, Stop
  <2>2. SideInv'
    BY <1>24 DEF TypeOK, SideInv, SwitchInv, StopCore, Stop
  <2>3. SwitchInv'
    BY <1>24 DEF TypeOK, SwitchInv, PlaceInv, SideInv, StopCore, Stop
  <2>4. SeedInv'
    BY <1>24 DEF TypeOK, SeedInv, PlaceInv, SwitchInv, StopCore, Stop
  <2>5. MarkInv'
    BY <1>24 DEF TypeOK, MarkInv, PlaceInv, StopCore, Stop
  <2> QED
    BY <2>0, <2>1, <2>2, <2>3, <2>4, <2>5, TypeStep
<1>25. CASE StartCore("core")
  <2>0. StartInv'
    BY <1>25 DEF TypeOK, StartInv, StartCore, Up, Definition, Unlocked
  <2>1. PlaceInv'
    BY <1>25 DEF TypeOK, StartInv, PlaceInv, StartCore, Up, Definition, Unlocked
  <2>2. SideInv'
    BY <1>25
       DEF TypeOK, StartInv, SideInv, SwitchInv, SeedInv, StartCore, Up, Definition,
           Unlocked
  <2>3. SwitchInv'
    BY <1>25
       DEF TypeOK, StartInv, SwitchInv, PlaceInv, SideInv, StartCore, Up, Definition,
           Unlocked
  <2>4. SeedInv'
    BY <1>25
       DEF TypeOK, StartInv, SeedInv, PlaceInv, SwitchInv, StartCore, Up, Definition,
           Unlocked
  <2>5. MarkInv'
    BY <1>25 DEF TypeOK, StartInv, MarkInv, PlaceInv, StartCore, Up, Definition, Unlocked
  <2> QED
    BY <2>0, <2>1, <2>2, <2>3, <2>4, <2>5, TypeStep
<1>26. CASE Render
  <2>0. StartInv'
    BY <1>26 DEF TypeOK, StartInv, Render
  <2>1. PlaceInv'
    BY <1>26 DEF TypeOK, StartInv, PlaceInv, Render
  <2>2. SideInv'
    BY <1>26 DEF TypeOK, StartInv, SideInv, SwitchInv, SeedInv, Render
  <2>3. SwitchInv'
    <3>1. CASE compose' = "old" /\ rewritten' = (rewritten \/ compose = "new")
      <4>1. compose = "new" => rewritten'
        BY <3>1, Zenon
      <4>2. rewritten => rewritten'
        BY <3>1, Zenon
      <4>3. ~rewritten /\ compose # "new" => ~rewritten'
        BY <3>1, Zenon
      <4> QED
        BY <1>26, <3>1, <4>1, <4>2, <4>3 DEF TypeOK, StartInv, SwitchInv, Render
    <3>2. CASE UNCHANGED <<compose, rewritten>>
      BY <1>26, <3>2 DEF TypeOK, StartInv, SwitchInv, Render
    <3> QED
      BY <1>26, <3>1, <3>2 DEF Render
  <2>4. SeedInv'
    BY <1>26 DEF TypeOK, StartInv, SeedInv, PlaceInv, SwitchInv, Render
  <2>5. MarkInv'
    BY <1>26 DEF TypeOK, StartInv, MarkInv, PlaceInv, Render
  <2> QED
    BY <2>0, <2>1, <2>2, <2>3, <2>4, <2>5, TypeStep
<1>27. CASE Recreate
  <2>0. StartInv'
    BY <1>27 DEF TypeOK, StartInv, Recreate, Up, Definition
  <2>1. PlaceInv'
    BY <1>27 DEF TypeOK, StartInv, PlaceInv, Recreate, Up, Definition
  <2>2. SideInv'
    BY <1>27 DEF TypeOK, StartInv, SideInv, SwitchInv, SeedInv, Recreate, Up, Definition
  <2>3. SwitchInv'
    BY <1>27 DEF TypeOK, StartInv, SwitchInv, PlaceInv, SideInv, Recreate, Up, Definition
  <2>4. SeedInv'
    BY <1>27 DEF TypeOK, StartInv, SeedInv, PlaceInv, SwitchInv, Recreate, Up, Definition
  <2>5. MarkInv'
    BY <1>27 DEF TypeOK, StartInv, MarkInv, PlaceInv, Recreate, Up, Definition
  <2> QED
    BY <2>0, <2>1, <2>2, <2>3, <2>4, <2>5, TypeStep
<1>28. CASE UNCHANGED vars
  BY <1>28, TypeStep
     DEF vars, TypeOK, StartInv, PlaceInv, SideInv, SwitchInv, SeedInv, MarkInv
<1> QED
  BY <1>1, <1>2, <1>3, <1>4, <1>5, <1>6, <1>7, <1>8, <1>9, <1>10, <1>11, <1>12, <1>13,
     <1>14, <1>15, <1>16, <1>17, <1>18, <1>19, <1>20, <1>21, <1>22, <1>23, <1>24, <1>25,
     <1>26, <1>27, <1>28
     DEF CutoverNext, CutoverStep, UpdateStep

(* The inductive invariant holds of every recovery.                        *)
LEMMA Invariance == CutoverSpec => []IInv
<1>1. Init => IInv
  <2> SUFFICES ASSUME Init PROVE IInv
    OBVIOUS
  <2>1. TypeOK
    <3>1. /\ crashes \in 0..MaxCrashes /\ faults \in 0..MaxFaults /\ stops \in 0..MaxStops
          /\ built \in [Members -> Manifests]
      BY LimitsAssumption DEF Init, Manifests
    <3>2. lock \in BOOLEAN /\ isolated \in BOOLEAN
      BY DEF Init
    <3>3. running \subseteq Members /\ fenced \subseteq Members
      BY DEF Init
    <3> QED
      BY <3>1, <3>2, <3>3 DEF Init, TypeOK, Phases, Manifests, FileStates, Steps
  <2>2. StartInv /\ PlaceInv /\ SideInv /\ SwitchInv /\ SeedInv /\ MarkInv
    BY DEF Init, StartInv, PlaceInv, SideInv, SwitchInv, SeedInv, MarkInv,
           CutoverSteps, UpdateSteps
  <2> QED
    BY <2>1, <2>2 DEF IInv
<1> QED
  BY <1>1, Inductive, PTL DEF CutoverSpec

(* The state of a recovery keeps its types.                                *)
THEOREM TypeCorrect == CutoverSpec => []TypeOK
<1>1. IInv => TypeOK
  BY DEF IInv
<1> QED
  BY <1>1, Invariance, PTL

(* Members on original and on restored data never run together before a    *)
(* `baha up` writes the template over the projected manifest: against all  *)
(* else the check of VerifyFenced before the switch is enough, however     *)
(* attempts, updates, stops and starts follow each other.                  *)
THEOREM SidesApart == CutoverSpec => []OldAndNewApart
<1>1. IInv => OldAndNewApart
  BY DEF IInv, TypeOK, SideInv, OldAndNewApart, OnNew
<1> QED
  BY <1>1, Invariance, PTL

(* After the phase activated a member runs on the original data again only *)
(* if a `baha up` wrote the template over the projected manifest.          *)
THEOREM ActivatedStaysRecovered == CutoverSpec => []RecoveredStays
<1>1. IInv => RecoveredStays
  BY DEF IInv, SideInv, SwitchInv, RecoveredStays, OnNew
<1> QED
  BY <1>1, Invariance, PTL

(* A leader on restored data has a completely seeded volume.               *)
THEOREM LeaderSeeded == CutoverSpec => []LeaderIsSeeded
<1>1. IInv => LeaderIsSeeded
  BY MembersAssumption DEF IInv, SideInv, SeedInv, LeaderIsSeeded, OnNew, Members
<1> QED
  BY <1>1, Invariance, PTL

(* A committed recovery has every file its phases wrote; the manifest, as  *)
(* long as no `baha up` wrote over it.                                     *)
THEOREM CommittedComplete == CutoverSpec => []CommittedIsComplete
<1>1. IInv => CommittedIsComplete
  BY DEF IInv, SwitchInv, SeedInv, MarkInv, CommittedIsComplete
<1> QED
  BY <1>1, Invariance, PTL

(* The isolated project is never booted on directories in active use.      *)
THEOREM BootSparesActive == CutoverSpec => IsolatedBootSparesActive
<1>1. IInv /\ [CutoverNext]_vars
        => [isolated' /\ ~isolated => \A m \in running \cap Etcd : ~OnNew(m)]_vars
  <2> SUFFICES ASSUME IInv, [CutoverNext]_vars, isolated' # isolated
               PROVE  (\A m \in Members : built[m] # "new") \/ ~isolated'
    BY DEF OnNew, Members
  <2>1. CASE Boot
    BY <2>1 DEF Boot, IInv, PlaceInv, SideInv, SwitchInv, UpdateSteps
  <2>2. CASE Down
    BY <2>2 DEF Down, IInv, PlaceInv, SideInv, SwitchInv, UpdateSteps
  <2>3. CASE ~Boot /\ ~Down
    BY <2>3
       DEF CutoverNext, CutoverStep, UpdateStep, vars, BeginRecover, BeginUpdate, Prior,
       Enter, Record, ListContainers, StopSQL, StopDCS, CheckFence, Activate, Seed,
       WriteReceipt, Stage, UpDCS, Quorum, UpLeader, UpMembers, Settle, Commit, Pin, Roll,
       StopCore, StartCore, Render, Recreate
  <2> QED
    BY <2>1, <2>2, <2>3
<1> QED
  BY <1>1, Invariance, PTL DEF CutoverSpec, IsolatedBootSparesActive

(* A recovery stops etcd members only when no PostgreSQL member runs.      *)
THEOREM WritersFirst == CutoverSpec => WritersStopFirst
<1>1. IInv /\ [CutoverNext]_vars
        => [pc # "idle" /\ pc' # pc /\ ~ (running \cap Etcd \subseteq running')
              => running \cap Writers = {}]_vars
  <2> SUFFICES ASSUME IInv, [CutoverNext]_vars, pc # "idle", pc' # pc,
                      running \cap Writers # {}
               PROVE  running \cap Etcd \subseteq running'
    OBVIOUS
  <2>1. CASE StopSQL
    BY <2>1, MembersAssumption DEF StopSQL, Stop
  <2>2. CASE StopDCS
    BY <2>2 DEF StopDCS, Stop, cluster
  <2>3. CASE UpDCS \/ UpLeader \/ UpMembers \/ Roll
    BY <2>3 DEF UpDCS, UpLeader, UpMembers, Roll, Up, ForceUp, cluster
  <2>4. CASE StopCore \/ StartCore("core") \/ Render \/ Recreate
    BY <2>4 DEF StopCore, StartCore, Render, Recreate, Goto
  <2>5. CASE running' = running
    BY <2>5
  <2> QED
    BY <2>1, <2>2, <2>3, <2>4, <2>5
       DEF CutoverNext, CutoverStep, UpdateStep, vars, cluster, BeginRecover, BeginUpdate,
           Prior, Enter, Boot, Down, Record, ListContainers, CheckFence, Activate, Seed,
           WriteReceipt, Stage, Quorum, Settle, Commit, Pin
<1> QED
  BY <1>1, Invariance, PTL DEF CutoverSpec, WritersStopFirst

-----------------------------------------------------------------------------
(* The recovery implements CutoverSides.  The switch of the manifest is    *)
(* the switch of sides and the template that `baha up` writes the change   *)
(* back; every other step leaves the manifest's side alone and starts      *)
(* members only from the manifest.                                         *)

SideNow == IF compose = "new" THEN "new" ELSE "old"
OnNow == [m \in Members |-> IF m \notin running THEN "off"
                            ELSE IF OnNew(m) THEN "new" ELSE "old"]

(* The mapped state is typed.                                              *)
LEMMA OnTyped == OnNow' \in [Members -> Side!Sides \cup {"off"}]
  BY DEF OnNow, Side!Sides

(* Starting and stopping members under an unchanged side.                  *)
LEMMA StartsAndStops ==
  ASSUME TypeOK, SideNow' = SideNow,
         \A m \in Members : \/ m \notin running'
                            \/ m \in running /\ built'[m] = built[m]
                            \/ built'[m] = Definition(m, compose)
  PROVE  Side!Restart
<1>1. \A m \in Members : OnNow'[m] \in {OnNow[m], "off", SideNow}
  BY DEF OnNow, SideNow, OnNew, Definition, TypeOK, Manifests
<1> QED
  BY <1>1, OnTyped DEF Side!Restart, SideNow, OnNow

(* Members are started only on the side the manifest names, and the        *)
(* manifest is switched only while none runs on the original data, also    *)
(* when a `baha up` wrote it back before.                                  *)
THEOREM Refinement == CutoverSpec => SwitchesAtRest
<1>1. Init => Side!Init
  BY DEF Init, Side!Init, OnNew
<1>2. IInv /\ [CutoverNext]_vars => [Side!Restart \/ Side!Switch \/ Side!Rewrite]_<<SideNow, OnNow>>
  <2> SUFFICES ASSUME IInv, [CutoverNext]_vars
               PROVE  Side!Restart \/ Side!Switch \/ Side!Rewrite \/ UNCHANGED <<SideNow, OnNow>>
    OBVIOUS
  <2> USE DEF IInv
  <2>1. CASE Stage
    <3>1. CASE compose' = compose
      BY <2>1, <3>1 DEF Stage, cluster, SideNow, OnNow, OnNew
    <3>2. CASE compose # "new" /\ compose' = "new"
      <4>1. \A m \in running : OnNew(m)
        BY <2>1 DEF Stage, SwitchInv, OnNew
      <4> QED
        BY <2>1, <3>2, <4>1 DEF Stage, cluster, Side!Switch, SideNow, OnNow, OnNew
    <3> QED
      BY <2>1, <3>1, <3>2 DEF Stage
  <2>2. CASE Pin
    BY <2>2 DEF Pin, cluster, SideNow, OnNow, OnNew
  <2>3. CASE UpDCS \/ UpLeader \/ UpMembers \/ Roll \/ StartCore("core") \/ Recreate
    BY <2>3, StartsAndStops
       DEF UpDCS, UpLeader, UpMembers, Roll, StartCore, Recreate, Up, ForceUp, files, cluster,
           SideNow, TypeOK
  <2>4. CASE StopSQL \/ StopDCS \/ StopCore
    BY <2>4, StartsAndStops
       DEF StopSQL, StopDCS, StopCore, Stop, files, cluster, SideNow, TypeOK
  <2>5. CASE UNCHANGED <<compose, built, running>>
    BY <2>5 DEF SideNow, OnNow, OnNew
  <2>6. CASE Render
    BY <2>6 DEF Render, cluster, Side!Rewrite, SideNow, OnNow, OnNew
  <2> QED
    BY <2>1, <2>2, <2>3, <2>4, <2>5, <2>6
       DEF CutoverNext, CutoverStep, UpdateStep, vars, files, cluster, BeginRecover, BeginUpdate,
           Prior, Enter, Boot, Down, Record, ListContainers, CheckFence, Activate, Seed,
           WriteReceipt, Quorum, Settle, Commit
<1> QED
  BY <1>1, <1>2, Invariance, PTL DEF CutoverSpec, SwitchesAtRest, Side!Spec, SideNow, OnNow

-----------------------------------------------------------------------------
(* The rolling update.                                                     *)

(* The steps after the Compose file was replaced.                          *)
Rolling == {"replica", "mark", "recreate", "image", "wait", "record",
              "switch", "switchover", "switched", "former", "final"}

(* What was written by each step: the evidence before the Compose file, the *)
(* Compose file before the roll.                                           *)
EvidenceInv ==
  /\ EvidencePredatesRoll
  /\ at \in {"checkpoint", "compose"} => base = "pre" /\ dcs = "pre"
  /\ at = "compose" => ckpt = "saved"
  /\ at \in {"snapshot"} \cup Rolling => declared = "pinned"

(* An attempt under way has reported nothing.                              *)
JournalInv == JournalAgrees /\ (at # "idle" => outcome = "none")

(* The mode at each step, and what is recorded of the member at hand.      *)
AtInv ==
  /\ at \in {"replica", "switch"} => mode = "replica"
  /\ at = "mark" => mode \in {"replica", "old"} /\ journal[member] = ""
  /\ at \in {"switchover", "switched"} => mode = "old" /\ journal[member] = "applying"
  /\ at = "former" => mode = "resume" /\ journal[member] = "applying"
  /\ at = "recreate" => mode # "replay" /\ journal[member] = "applying"
  /\ at = "image" => mode # "replay" /\ journal[member] # ""
  /\ at = "record" \/ (at = "wait" /\ mode # "replay") =>
       mode # "replay" /\ journal[member] # "" /\ image[member] = "pinned"
  /\ at = "final" \/ (at = "wait" /\ mode = "replay") =>
       \A n \in PatroniMembers : journal[n] = "verified"

(* The order of one attempt.  While replicas are rolled, the leader it     *)
(* expects is unrecorded and the replicas not to do are verified; after    *)
(* that every member but the one at hand is verified.                      *)
OrderInv ==
  /\ mode = "replica" /\ at \in Rolling =>
       /\ journal[lead] = "" /\ lead \notin todo
       /\ \A k \in PatroniMembers \ todo : k # lead => journal[k] = "verified"
       /\ at \in {"mark", "recreate", "image", "wait", "record"} => member \in todo
       /\ at = "switch" => todo = {}
  /\ mode \in {"old", "resume"} /\ at \in Rolling =>
       lead # member /\ \A k \in PatroniMembers \ {member} : journal[k] = "verified"

(* The order over all attempts.  When every member is recorded, one of     *)
(* them was recorded as the primary, which is how a resume finds it; a     *)
(* switchover was asked for only after that.                               *)
MarkedInv ==
  /\ \A n \in PatroniMembers : marked[n] = "none" <=> journal[n] = ""
  /\ ReplicasFirst /\ FormerIsOldPrimary
  /\ (\A n \in PatroniMembers : journal[n] # "") => \E n \in PatroniMembers : marked[n] = "primary"
  /\ switches # 0 => \E n \in PatroniMembers : marked[n] = "primary"
  /\ at = "switchover" => switches = 0

(* What the roll took down is down, and nothing is when the next member is *)
(* about to be recreated, with the expected leader in the last snapshot.   *)
TakenInv ==
  /\ \A n \in taken : ~up[n]
  /\ OneMemberDown
  /\ at = "recreate" \/ (at = "mark" /\ mode = "replica") => taken = {} /\ seen = lead

RollIInv ==
  /\ RollTypeOK /\ EvidenceInv /\ JournalInv /\ AtInv
  /\ OrderInv /\ MarkedInv /\ TakenInv

(* The type invariant in four parts.                                       *)
ClusterType ==
  /\ leader \in PatroniMembers \cup {NoMember}
  /\ up \in [PatroniMembers -> BOOLEAN]
  /\ image \in [PatroniMembers -> Images]
  /\ requested \in (PatroniMembers \X PatroniMembers) \cup {NoRequest}

FileType ==
  /\ declared \in Images
  /\ ckpt \in {"none", "partial", "saved"}
  /\ base \in Artifacts /\ dcs \in Artifacts
  /\ journal \in [PatroniMembers -> {"", "applying", "verified"}]

AttemptType ==
  /\ at \in RollPoints /\ mode \in Modes
  /\ lead \in PatroniMembers /\ member \in PatroniMembers
  /\ todo \in SUBSET PatroniMembers
  /\ outcome \in {"none", "ok", "error"}
  /\ calm \in BOOLEAN

HistoryType ==
  /\ seen \in PatroniMembers \cup {NoMember}
  /\ taken \in SUBSET PatroniMembers
  /\ marked \in [PatroniMembers -> {"none", "replica", "primary"}]
  /\ switches \in 0..2

(* The least member of a set of members is one of them.                    *)
LEMMA FirstIsIn ==
  ASSUME NEW S, S \subseteq PatroniMembers, S # {}
  PROVE  First(S) \in S
<1>1. \E n \in S : \A k \in S : n <= k
  <2>1. CASE 1 \in S
    BY <2>1 DEF PatroniMembers
  <2>2. CASE 1 \notin S /\ 2 \in S
    BY <2>2 DEF PatroniMembers
  <2>3. CASE 1 \notin S /\ 2 \notin S
    <3>1. PICK n \in S : TRUE
      OBVIOUS
    <3>2. \A k \in S : k = 3
      BY <2>3 DEF PatroniMembers
    <3>. QED  BY <3>1, <3>2
  <2>. QED  BY <2>1, <2>2, <2>3
<1>. QED  BY <1>1 DEF First

(* There is another member.                                                *)
LEMMA OthersExist ==
  ASSUME NEW n \in PatroniMembers
  PROVE  First(PatroniMembers \ {n}) \in PatroniMembers \ {n}
<1>1. PatroniMembers \ {n} # {}
  <2>1. 1 \in PatroniMembers /\ 2 \in PatroniMembers
    BY DEF PatroniMembers
  <2>. QED  BY <2>1
<1>. QED  BY <1>1, FirstIsIn

(* The first interrupted member is interrupted.                            *)
LEMMA InterruptedFirst == Interrupted # {} => First(Interrupted) \in Interrupted
<1>1. Interrupted \subseteq PatroniMembers
  BY DEF Interrupted
<1>. QED  BY <1>1, FirstIsIn

(* The type invariant, put together again.                                 *)
LEMMA RollTypeParts == ClusterType' /\ FileType' /\ AttemptType' /\ HistoryType' => RollTypeOK'
  BY DEF RollTypeOK, ClusterType, FileType, AttemptType, HistoryType

(* What Patroni does on its own, beside the roll, concerns only the types  *)
(* and what the roll took down.                                            *)
LEMMA BesideRoll ==
  ASSUME RollIInv, UNCHANGED <<image, rollFiles, at, local, outcome, marked, switches>>
  PROVE  EvidenceInv' /\ JournalInv' /\ AtInv' /\ OrderInv' /\ MarkedInv'
<1>. USE DEF RollIInv, rollFiles, local
<1>1. EvidenceInv'
  BY DEF EvidenceInv, EvidencePredatesRoll, Untouched, Rolling
<1>2. JournalInv'
  BY DEF JournalInv, JournalAgrees, SuccessIsComplete
<1>3. AtInv'
  BY DEF AtInv
<1>4. OrderInv'
  BY DEF OrderInv, Rolling
<1>5. MarkedInv'
  BY DEF MarkedInv, ReplicasFirst, FormerIsOldPrimary
<1>. QED  BY <1>1, <1>2, <1>3, <1>4, <1>5

(* The inventory starts an attempt, or finds the roll complete: an image   *)
(* that is pinned is recorded, so a complete journal is verified           *)
(* throughout.                                                             *)
LEMMA BeginKeeps ==
  ASSUME RollIInv, Begin
  PROVE  RollIInv'
<1>1. RollTypeOK'
  <2>1. ClusterType'
    BY DEF RollIInv, patroniVars, RollTypeOK, Begin, ClusterType
  <2>2. FileType'
    BY DEF RollIInv, rollFiles, RollTypeOK, Begin, FileType
  <2>3. AttemptType'
    BY DEF RollIInv, RollPoints, local, RollTypeOK, RollTo, Refuse, Begin, AttemptType
  <2>4. HistoryType'
    BY DEF RollIInv, history, RollTypeOK, Begin, HistoryType
  <2>. QED  BY <2>1, <2>2, <2>3, <2>4, RollTypeParts
<1>2. EvidenceInv'
  BY DEF patroniVars, rollFiles, Untouched, RollTo, Refuse, Begin, EvidencePredatesRoll,
         Rolling, EvidenceInv, RollIInv
<1>3. JournalInv'
  <2>1. CASE outcome' = "ok"
    <3>1. JournalComplete /\ ~Untouched
      BY <2>1 DEF Begin, Refuse, RollIInv, JournalInv
    <3>2. \A n \in PatroniMembers : journal[n] = "verified"
      BY <3>1
         DEF JournalComplete, Untouched, RollIInv, RollTypeOK, Images, JournalInv,
             JournalAgrees
    <3>. QED
      BY <2>1, <3>2
         DEF Begin, Refuse, RollTo, patroniVars, rollFiles, RollIInv, JournalInv,
             JournalAgrees, SuccessIsComplete
  <2>2. CASE outcome' # "ok"
    BY <2>2
       DEF Begin, Refuse, RollTo, patroniVars, rollFiles, RollIInv, RollTypeOK, JournalInv,
           JournalAgrees, SuccessIsComplete
  <2>. QED  BY <2>1, <2>2
<1>4. AtInv'
  BY DEF patroniVars, rollFiles, local, RollTo, Refuse, Begin, AtInv, RollIInv
<1>5. OrderInv'
  BY DEF rollFiles, local, RollTo, Refuse, Begin, Rolling, OrderInv, RollIInv
<1>6. MarkedInv'
  BY DEF rollFiles, local, history, RollTo, Refuse, Begin, ReplicasFirst,
         FormerIsOldPrimary, MarkedInv, RollIInv
<1>7. TakenInv'
  BY DEF patroniVars, local, history, RollTo, Refuse, Begin, OneMemberDown, TakenInv,
         RollIInv
<1>. QED  BY <1>1, <1>2, <1>3, <1>4, <1>5, <1>6, <1>7 DEF RollIInv

(* The leader is fixed.                                                    *)
LEMMA EvidenceQuorumKeeps ==
  ASSUME RollIInv, EvidenceQuorum
  PROVE  RollIInv'
<1>1. RollTypeOK'
  <2>1. ClusterType'
    BY DEF RollIInv, patroniVars, RollTypeOK, CheckQuorum, EvidenceQuorum, ClusterType
  <2>2. FileType'
    BY DEF RollIInv, rollFiles, RollTypeOK, EvidenceQuorum, FileType
  <2>3. AttemptType'
    BY DEF RollIInv, RollPoints, RollTypeOK, PatroniQuorum, RollTo, Refuse, CheckQuorum,
           EvidenceQuorum, AttemptType
  <2>4. HistoryType'
    BY DEF RollIInv, RollTypeOK, CheckQuorum, EvidenceQuorum, HistoryType
  <2>. QED  BY <2>1, <2>2, <2>3, <2>4, RollTypeParts
<1>2. EvidenceInv'
  BY DEF patroniVars, rollFiles, Untouched, RollTo, Refuse, CheckQuorum, EvidenceQuorum,
         EvidencePredatesRoll, Rolling, EvidenceInv, RollIInv
<1>3. JournalInv'
  BY DEF patroniVars, rollFiles, RollTo, Refuse, CheckQuorum, EvidenceQuorum,
         SuccessIsComplete, JournalAgrees, JournalInv, RollIInv
<1>4. AtInv'
  BY DEF patroniVars, rollFiles, RollTo, Refuse, CheckQuorum, EvidenceQuorum, AtInv,
         RollIInv
<1>5. OrderInv'
  BY DEF rollFiles, RollTo, Refuse, CheckQuorum, EvidenceQuorum, Rolling, OrderInv,
         RollIInv
<1>6. MarkedInv'
  BY DEF rollFiles, RollTo, Refuse, CheckQuorum, EvidenceQuorum, ReplicasFirst,
         FormerIsOldPrimary, MarkedInv, RollIInv
<1>7. TakenInv'
  BY DEF patroniVars, RollTo, Refuse, CheckQuorum, EvidenceQuorum, OneMemberDown,
         TakenInv, RollIInv
<1>. QED  BY <1>1, <1>2, <1>3, <1>4, <1>5, <1>6, <1>7 DEF RollIInv

(* A base backup is kept if there is one, and taken of an untouched        *)
(* cluster otherwise: what was rolled before had evidence.                 *)
LEMMA CaptureBaseKeeps ==
  ASSUME RollIInv, CaptureBase
  PROVE  RollIInv'
<1>1. RollTypeOK'
  <2>1. ClusterType'
    BY DEF RollIInv, patroniVars, RollTypeOK, CaptureBase, ClusterType
  <2>2. FileType'
    BY DEF RollIInv, Artifacts, RollTypeOK, Publish, CaptureBase, FileType
  <2>3. AttemptType'
    BY DEF RollIInv, RollPoints, local, RollTypeOK, RollTo, Refuse, Capture, CaptureBase,
           AttemptType
  <2>4. HistoryType'
    BY DEF RollIInv, history, RollTypeOK, CaptureBase, HistoryType
  <2>. QED  BY <2>1, <2>2, <2>3, <2>4, RollTypeParts
<1>2. EvidenceInv'
  BY DEF patroniVars, Untouched, RollTo, Refuse, Capture, Publish, CaptureBase,
         EvidencePredatesRoll, Rolling, EvidenceInv, RollIInv
<1>3. JournalInv'
  BY DEF patroniVars, RollTo, Refuse, Capture, CaptureBase, SuccessIsComplete,
         JournalAgrees, JournalInv, RollIInv
<1>4. AtInv'
  BY DEF patroniVars, local, RollTo, Refuse, Capture, CaptureBase, AtInv, RollIInv
<1>5. OrderInv'
  BY DEF local, RollTo, Refuse, Capture, CaptureBase, Rolling, OrderInv, RollIInv
<1>6. MarkedInv'
  BY DEF local, history, RollTo, Refuse, Capture, CaptureBase, ReplicasFirst,
         FormerIsOldPrimary, MarkedInv, RollIInv
<1>7. TakenInv'
  BY DEF patroniVars, local, history, RollTo, Refuse, Capture, CaptureBase,
         OneMemberDown, TakenInv, RollIInv
<1>. QED  BY <1>1, <1>2, <1>3, <1>4, <1>5, <1>6, <1>7 DEF RollIInv

(* The same for the DCS receipt.                                           *)
LEMMA CaptureDCSKeeps ==
  ASSUME RollIInv, CaptureDCS
  PROVE  RollIInv'
<1>1. RollTypeOK'
  <2>1. ClusterType'
    BY DEF RollIInv, patroniVars, RollTypeOK, CaptureDCS, ClusterType
  <2>2. FileType'
    BY DEF RollIInv, Artifacts, RollTypeOK, Publish, CaptureDCS, FileType
  <2>3. AttemptType'
    BY DEF RollIInv, RollPoints, local, RollTypeOK, RollTo, Refuse, Capture, CaptureDCS,
           AttemptType
  <2>4. HistoryType'
    BY DEF RollIInv, history, RollTypeOK, CaptureDCS, HistoryType
  <2>. QED  BY <2>1, <2>2, <2>3, <2>4, RollTypeParts
<1>2. EvidenceInv'
  BY DEF patroniVars, Untouched, RollTo, Refuse, Capture, Publish, CaptureDCS,
         EvidencePredatesRoll, Rolling, EvidenceInv, RollIInv
<1>3. JournalInv'
  BY DEF patroniVars, RollTo, Refuse, Capture, CaptureDCS, SuccessIsComplete,
         JournalAgrees, JournalInv, RollIInv
<1>4. AtInv'
  BY DEF patroniVars, local, RollTo, Refuse, Capture, CaptureDCS, AtInv, RollIInv
<1>5. OrderInv'
  BY DEF local, RollTo, Refuse, Capture, CaptureDCS, Rolling, OrderInv, RollIInv
<1>6. MarkedInv'
  BY DEF local, history, RollTo, Refuse, Capture, CaptureDCS, ReplicasFirst,
         FormerIsOldPrimary, MarkedInv, RollIInv
<1>7. TakenInv'
  BY DEF patroniVars, local, history, RollTo, Refuse, Capture, CaptureDCS,
         OneMemberDown, TakenInv, RollIInv
<1>. QED  BY <1>1, <1>2, <1>3, <1>4, <1>5, <1>6, <1>7 DEF RollIInv

(* Cut short, an artifact stays partial, which no later step accepts.      *)
LEMMA CutShortKeeps ==
  ASSUME RollIInv, CutShort
  PROVE  RollIInv'
<1>1. RollTypeOK'
  <2>1. ClusterType'
    BY DEF RollIInv, patroniVars, RollTypeOK, CutShort, ClusterType
  <2>2. FileType'
    BY DEF RollIInv, Artifacts, RollTypeOK, CutShort, FileType
  <2>3. AttemptType'
    BY DEF RollIInv, RollPoints, local, RollTypeOK, RollTo, Refuse, CutShort, AttemptType
  <2>4. HistoryType'
    BY DEF RollIInv, history, RollTypeOK, CutShort, HistoryType
  <2>. QED  BY <2>1, <2>2, <2>3, <2>4, RollTypeParts
<1>2. EvidenceInv'
  BY DEF patroniVars, Untouched, RollTo, Refuse, CutShort, EvidencePredatesRoll,
         Rolling, EvidenceInv, RollIInv
<1>3. JournalInv'
  BY DEF patroniVars, RollTo, Refuse, CutShort, SuccessIsComplete, JournalAgrees,
         JournalInv, RollIInv
<1>4. AtInv'
  BY DEF patroniVars, local, RollTo, Refuse, CutShort, AtInv, RollIInv
<1>5. OrderInv'
  BY DEF local, RollTo, Refuse, CutShort, Rolling, OrderInv, RollIInv
<1>6. MarkedInv'
  BY DEF local, history, RollTo, Refuse, CutShort, ReplicasFirst,
         FormerIsOldPrimary, MarkedInv, RollIInv
<1>7. TakenInv'
  BY DEF patroniVars, local, history, RollTo, Refuse, CutShort, OneMemberDown,
         TakenInv, RollIInv
<1>. QED  BY <1>1, <1>2, <1>3, <1>4, <1>5, <1>6, <1>7 DEF RollIInv

(* The leader is confirmed.                                                *)
LEMMA ConfirmLeaderKeeps ==
  ASSUME RollIInv, ConfirmLeader
  PROVE  RollIInv'
<1>1. RollTypeOK'
  <2>1. ClusterType'
    BY DEF RollIInv, patroniVars, RollTypeOK, CheckQuorum, ConfirmLeader, ClusterType
  <2>2. FileType'
    BY DEF RollIInv, rollFiles, RollTypeOK, ConfirmLeader, FileType
  <2>3. AttemptType'
    BY DEF RollIInv, RollPoints, local, RollTypeOK, RollTo, Refuse, CheckQuorum,
           ConfirmLeader,
           AttemptType
  <2>4. HistoryType'
    BY DEF RollIInv, RollTypeOK, CheckQuorum, ConfirmLeader, HistoryType
  <2>. QED  BY <2>1, <2>2, <2>3, <2>4, RollTypeParts
<1>2. EvidenceInv'
  BY DEF patroniVars, rollFiles, Untouched, RollTo, Refuse, CheckQuorum, ConfirmLeader,
         EvidencePredatesRoll, Rolling, EvidenceInv, RollIInv
<1>3. JournalInv'
  BY DEF patroniVars, rollFiles, RollTo, Refuse, CheckQuorum, ConfirmLeader,
         SuccessIsComplete, JournalAgrees, JournalInv, RollIInv
<1>4. AtInv'
  BY DEF patroniVars, rollFiles, local, RollTo, Refuse, CheckQuorum, ConfirmLeader, AtInv,
         RollIInv
<1>5. OrderInv'
  BY DEF rollFiles, local, RollTo, Refuse, CheckQuorum, ConfirmLeader, Rolling,
         OrderInv, RollIInv
<1>6. MarkedInv'
  BY DEF rollFiles, local, RollTo, Refuse, CheckQuorum, ConfirmLeader, ReplicasFirst,
         FormerIsOldPrimary, MarkedInv, RollIInv
<1>7. TakenInv'
  BY DEF patroniVars, local, RollTo, Refuse, CheckQuorum, ConfirmLeader,
         OneMemberDown, TakenInv, RollIInv
<1>. QED  BY <1>1, <1>2, <1>3, <1>4, <1>5, <1>6, <1>7 DEF RollIInv

(* Past this step both artifacts are sealed.                               *)
LEMMA PreStageKeeps ==
  ASSUME RollIInv, PreStage
  PROVE  RollIInv'
<1>1. RollTypeOK'
  <2>1. ClusterType'
    BY DEF RollIInv, patroniVars, RollTypeOK, CheckQuorum, PreStage, ClusterType
  <2>2. FileType'
    BY DEF RollIInv, rollFiles, RollTypeOK, PreStage, FileType
  <2>3. AttemptType'
    BY DEF RollIInv, RollPoints, local, RollTypeOK, RollTo, Refuse, CheckQuorum, PreStage,
           AttemptType
  <2>4. HistoryType'
    BY DEF RollIInv, RollTypeOK, CheckQuorum, PreStage, HistoryType
  <2>. QED  BY <2>1, <2>2, <2>3, <2>4, RollTypeParts
<1>2. EvidenceInv'
  BY DEF Sealed, patroniVars, rollFiles, Untouched, RollTo, Refuse, CheckQuorum, Evidence,
         PreStage, EvidencePredatesRoll, Rolling, EvidenceInv, RollIInv
<1>3. JournalInv'
  BY DEF patroniVars, rollFiles, RollTo, Refuse, CheckQuorum, PreStage, SuccessIsComplete,
         JournalAgrees, JournalInv, RollIInv
<1>4. AtInv'
  BY DEF patroniVars, rollFiles, local, RollTo, Refuse, CheckQuorum, PreStage, AtInv,
         RollIInv
<1>5. OrderInv'
  BY DEF rollFiles, local, RollTo, Refuse, CheckQuorum, PreStage, Rolling, OrderInv,
         RollIInv
<1>6. MarkedInv'
  BY DEF rollFiles, local, RollTo, Refuse, CheckQuorum, PreStage, ReplicasFirst,
         FormerIsOldPrimary, MarkedInv, RollIInv
<1>7. TakenInv'
  BY DEF patroniVars, local, RollTo, Refuse, CheckQuorum, PreStage, OneMemberDown,
         TakenInv, RollIInv
<1>. QED  BY <1>1, <1>2, <1>3, <1>4, <1>5, <1>6, <1>7 DEF RollIInv

(* The checkpoint is kept, or written.                                     *)
LEMMA SaveCheckpointKeeps ==
  ASSUME RollIInv, SaveCheckpoint
  PROVE  RollIInv'
<1>1. RollTypeOK'
  <2>1. ClusterType'
    BY DEF RollIInv, patroniVars, RollTypeOK, SaveCheckpoint, ClusterType
  <2>2. FileType'
    BY DEF RollIInv, RollTypeOK, SaveCheckpoint, FileType
  <2>3. AttemptType'
    BY DEF RollIInv, RollPoints, local, RollTypeOK, RollTo, Refuse, SaveCheckpoint,
           AttemptType
  <2>4. HistoryType'
    BY DEF RollIInv, history, RollTypeOK, SaveCheckpoint, HistoryType
  <2>. QED  BY <2>1, <2>2, <2>3, <2>4, RollTypeParts
<1>2. EvidenceInv'
  BY DEF patroniVars, RollTypeOK, Untouched, RollTo, Refuse, SaveCheckpoint,
         EvidencePredatesRoll, Rolling, EvidenceInv, RollIInv
<1>3. JournalInv'
  BY DEF patroniVars, RollTo, Refuse, SaveCheckpoint, SuccessIsComplete,
         JournalAgrees, JournalInv, RollIInv
<1>4. AtInv'
  BY DEF patroniVars, local, RollTo, Refuse, SaveCheckpoint, AtInv, RollIInv
<1>5. OrderInv'
  BY DEF local, RollTo, Refuse, SaveCheckpoint, Rolling, OrderInv, RollIInv
<1>6. MarkedInv'
  BY DEF local, history, RollTo, Refuse, SaveCheckpoint, ReplicasFirst,
         FormerIsOldPrimary, MarkedInv, RollIInv
<1>7. TakenInv'
  BY DEF patroniVars, local, history, RollTo, Refuse, SaveCheckpoint, OneMemberDown,
         TakenInv, RollIInv
<1>. QED  BY <1>1, <1>2, <1>3, <1>4, <1>5, <1>6, <1>7 DEF RollIInv

(* The Compose file declares the pinned image, with the evidence complete. *)
LEMMA ReplaceComposeKeeps ==
  ASSUME RollIInv, ReplaceCompose
  PROVE  RollIInv'
<1>1. RollTypeOK'
  <2>1. ClusterType'
    BY DEF RollIInv, patroniVars, RollTypeOK, ReplaceCompose, ClusterType
  <2>2. FileType'
    BY DEF RollIInv, Images, RollTypeOK, ReplaceCompose, FileType
  <2>3. AttemptType'
    BY DEF RollIInv, RollPoints, local, RollTypeOK, RollTo, ReplaceCompose, AttemptType
  <2>4. HistoryType'
    BY DEF RollIInv, history, RollTypeOK, ReplaceCompose, HistoryType
  <2>. QED  BY <2>1, <2>2, <2>3, <2>4, RollTypeParts
<1>2. EvidenceInv'
  BY DEF patroniVars, RollTo, ReplaceCompose, EvidencePredatesRoll, Rolling,
         EvidenceInv, RollIInv
<1>3. JournalInv'
  BY DEF patroniVars, RollTo, ReplaceCompose, SuccessIsComplete, JournalAgrees,
         JournalInv, RollIInv
<1>4. AtInv'
  BY DEF patroniVars, local, RollTo, ReplaceCompose, AtInv, RollIInv
<1>5. OrderInv'
  BY DEF local, RollTo, ReplaceCompose, Rolling, OrderInv, RollIInv
<1>6. MarkedInv'
  BY DEF local, history, RollTo, ReplaceCompose, ReplicasFirst,
         FormerIsOldPrimary, MarkedInv, RollIInv
<1>7. TakenInv'
  BY DEF patroniVars, local, history, RollTo, ReplaceCompose, OneMemberDown, TakenInv,
         RollIInv
<1>. QED  BY <1>1, <1>2, <1>3, <1>4, <1>5, <1>6, <1>7 DEF RollIInv

(* Without a quorum the roll does not start.                               *)
LEMMA NoSnapshotKeeps ==
  ASSUME RollIInv, NoSnapshot
  PROVE  RollIInv'
<1>1. RollTypeOK'
  <2>1. ClusterType'
    BY DEF RollIInv, patroniVars, RollTypeOK, NoSnapshot, ClusterType
  <2>2. FileType'
    BY DEF RollIInv, rollFiles, RollTypeOK, NoSnapshot, FileType
  <2>3. AttemptType'
    BY DEF RollIInv, RollPoints, local, RollTypeOK, RollTo, Refuse, NoSnapshot, AttemptType
  <2>4. HistoryType'
    BY DEF RollIInv, history, RollTypeOK, NoSnapshot, HistoryType
  <2>. QED  BY <2>1, <2>2, <2>3, <2>4, RollTypeParts
<1>2. EvidenceInv'
  BY DEF patroniVars, rollFiles, RollTo, Refuse, NoSnapshot, EvidencePredatesRoll,
         Rolling, EvidenceInv, RollIInv
<1>3. JournalInv'
  BY DEF patroniVars, rollFiles, RollTo, Refuse, NoSnapshot, SuccessIsComplete,
         JournalAgrees, JournalInv, RollIInv
<1>4. AtInv'
  BY DEF patroniVars, rollFiles, local, RollTo, Refuse, NoSnapshot, AtInv, RollIInv
<1>5. OrderInv'
  BY DEF rollFiles, local, RollTo, Refuse, NoSnapshot, Rolling, OrderInv, RollIInv
<1>6. MarkedInv'
  BY DEF rollFiles, local, history, RollTo, Refuse, NoSnapshot, ReplicasFirst,
         FormerIsOldPrimary, MarkedInv, RollIInv
<1>7. TakenInv'
  BY DEF patroniVars, local, history, RollTo, Refuse, NoSnapshot, OneMemberDown,
         TakenInv, RollIInv
<1>. QED  BY <1>1, <1>2, <1>3, <1>4, <1>5, <1>6, <1>7 DEF RollIInv

(* A resume takes up the one interrupted member beside two verified ones.  *)
LEMMA SnapFormer ==
  ASSUME RollIInv, Snapshot, at' = "former"
  PROVE  /\ mode' = "resume" /\ member' \in PatroniMembers /\ journal[member'] = "applying"
         /\ \A k \in PatroniMembers \ {member'} : journal[k] = "verified"
         /\ member' # leader /\ journal[leader] = "verified"
         /\ \A k \in PatroniMembers : journal[k] # ""
<1>1. Interrupted # {} /\ CanResume(leader) /\ mode' = "resume" /\ member' = First(Interrupted)
  BY DEF Snapshot, Refuse, RollTo
<1>2. member' \in Interrupted
  BY <1>1, InterruptedFirst
<1>3. member' \in PatroniMembers /\ journal[member'] = "applying"
  BY <1>2 DEF Interrupted
<1>4. journal[leader] = "verified" /\ \A k \in PatroniMembers : journal[k] # ""
  BY <1>1 DEF CanResume
<1>5. \A k \in PatroniMembers \ {member'} : journal[k] = "verified"
  <2>1. \A k \in PatroniMembers : journal[k] = "applying" => k = member'
    BY <1>1, <1>2 DEF CanResume, Interrupted
  <2>. QED  BY <1>4, <2>1 DEF RollIInv, RollTypeOK
<1>. QED  BY <1>1, <1>3, <1>4, <1>5

(* A replay finds all members verified.                                    *)
LEMMA SnapReplay ==
  ASSUME RollIInv, Snapshot, at' = "wait"
  PROVE  mode' = "replay" /\ \A k \in PatroniMembers : journal[k] = "verified"
<1>1. Interrupted = {} /\ CanResume(leader) /\ mode' = "replay"
  BY DEF Snapshot, Refuse, RollTo
<1>. QED  BY <1>1 DEF CanResume, Interrupted, RollIInv, RollTypeOK

(* A fresh roll has an unrecorded leader.                                  *)
LEMMA SnapStep ==
  ASSUME RollIInv, Snapshot
  PROVE  /\ at' \in {"idle", "replica", "wait", "former"} 
         /\ at' = "replica" => mode' = "replica" /\ journal[leader] = ""
         /\ leader \in PatroniMembers
  BY DEF Snapshot, Refuse, RollTo, PatroniQuorum, RollIInv, RollTypeOK

(* The leader's journal entry decides between the roll, a resume and a     *)
(* replay.                                                                 *)
LEMMA SnapshotKeeps ==
  ASSUME RollIInv, Snapshot
  PROVE  RollIInv'
<1>1. RollTypeOK'
  <2>1. ClusterType'
    BY DEF RollIInv, patroniVars, RollTypeOK, Snapshot, ClusterType
  <2>2. FileType'
    BY DEF RollIInv, rollFiles, RollTypeOK, Snapshot, FileType
  <2>3. AttemptType'
    <3>1. member' \in PatroniMembers
      <4>1. Interrupted # {} => First(Interrupted) \in PatroniMembers
        BY InterruptedFirst DEF Interrupted
      <4>2. member' = member \/ (Interrupted # {} /\ member' = First(Interrupted))
        BY DEF Snapshot
      <4>. QED  BY <4>1, <4>2 DEF RollIInv, RollTypeOK
    <3>2. lead' \in PatroniMembers
      BY DEF RollIInv, RollTypeOK, Snapshot, PatroniQuorum
    <3>3. at' \in RollPoints /\ mode' \in Modes /\ outcome' \in {"none", "ok", "error"}
      BY DEF RollIInv, RollTypeOK, Snapshot, Refuse, RollTo, RollPoints, Modes
    <3>. QED  BY <3>1, <3>2, <3>3 DEF RollIInv, RollTypeOK, Snapshot, AttemptType
  <2>4. HistoryType'
    BY DEF RollIInv, RollTypeOK, Snapshot, HistoryType
  <2>. QED  BY <2>1, <2>2, <2>3, <2>4, RollTypeParts
<1>2. EvidenceInv'
  BY DEF patroniVars, rollFiles, RollTo, Refuse, Snapshot, EvidencePredatesRoll,
         Rolling, EvidenceInv, RollIInv
<1>3. JournalInv'
  BY DEF patroniVars, rollFiles, RollTo, Refuse, Snapshot, SuccessIsComplete,
         JournalAgrees, JournalInv, RollIInv
<1>4. AtInv'
  BY SnapFormer, SnapReplay, SnapStep DEF AtInv, Snapshot, rollFiles, patroniVars
<1>5. OrderInv'
  BY SnapFormer, SnapReplay, SnapStep
     DEF OrderInv, Rolling, Snapshot, rollFiles, patroniVars
<1>6. MarkedInv'
  <2>1. at' = "former" => marked[member'] = "primary"
    BY SnapFormer DEF RollIInv, MarkedInv, ReplicasFirst
  <2>. QED
    BY <2>1, SnapStep
       DEF RollIInv, MarkedInv, ReplicasFirst, FormerIsOldPrimary, Snapshot, rollFiles
<1>7. TakenInv'
  BY DEF patroniVars, RollTo, Refuse, Snapshot, OneMemberDown, TakenInv, RollIInv
<1>. QED  BY <1>1, <1>2, <1>3, <1>4, <1>5, <1>6, <1>7 DEF RollIInv

(* The next replica is taken up as its journal entry says.                 *)
LEMMA ReplicaKeeps ==
  ASSUME RollIInv, Replica
  PROVE  RollIInv'
<1>1. RollTypeOK'
  <2>1. ClusterType'
    BY DEF RollIInv, patroniVars, RollTypeOK, CheckQuorum, Replica, ClusterType
  <2>2. FileType'
    BY DEF RollIInv, rollFiles, RollTypeOK, Replica, FileType
  <2>3. AttemptType'
    <3>1. member' \in todo
      BY FirstIsIn DEF RollIInv, RollTypeOK, Replica
    <3>. QED
      BY <3>1
         DEF RollIInv, RollTypeOK, AttemptType, Replica, RollPoints, Modes, CheckQuorum,
             RollTo, Refuse
  <2>4. HistoryType'
    BY DEF RollIInv, RollTypeOK, CheckQuorum, Replica, HistoryType
  <2>. QED  BY <2>1, <2>2, <2>3, <2>4, RollTypeParts
<1>2. EvidenceInv'
  BY DEF patroniVars, rollFiles, RollTo, Refuse, CheckQuorum, Replica,
         EvidencePredatesRoll, Rolling, EvidenceInv, RollIInv
<1>3. JournalInv'
  BY DEF patroniVars, rollFiles, RollTo, Refuse, CheckQuorum, Replica, SuccessIsComplete,
         JournalAgrees, JournalInv, RollIInv
<1>4. AtInv'
  <2>1. member' \in todo
    BY FirstIsIn DEF RollIInv, RollTypeOK, Replica
  <2>2. mode' = "replica" /\ at' \in {"idle", "wait", "mark"}
    BY DEF RollIInv, AtInv, Replica, CheckQuorum, RollTo, Refuse
  <2>3. at' = "mark" => journal[member'] = ""
    BY DEF RollIInv, AtInv, Replica, CheckQuorum, RollTo, Refuse
  <2>4. at' = "wait" => journal[member'] # "" /\ image[member'] = "pinned"
    BY DEF RollIInv, AtInv, Replica, CheckQuorum, RollTo, Refuse, Recovered
  <2>. QED  BY <2>2, <2>3, <2>4 DEF AtInv, Replica, rollFiles, patroniVars
<1>5. OrderInv'
  <2>1. member' \in todo
    BY FirstIsIn DEF RollIInv, RollTypeOK, Replica
  <2>2. mode' = "replica" /\ at' \in {"idle", "wait", "mark"}
    BY DEF RollIInv, AtInv, Replica, CheckQuorum, RollTo, Refuse
  <2>. QED  BY <2>1, <2>2 DEF RollIInv, AtInv, OrderInv, Rolling, Replica, rollFiles
<1>6. MarkedInv'
  BY DEF rollFiles, RollTo, Refuse, CheckQuorum, Replica, ReplicasFirst,
         FormerIsOldPrimary, MarkedInv, RollIInv
<1>7. TakenInv'
  BY DEF patroniVars, RollTypeOK, Healthy, PatroniQuorum, RollTo, Refuse, CheckQuorum,
         Replica,
         OneMemberDown, TakenInv, RollIInv
<1>. QED  BY <1>1, <1>2, <1>3, <1>4, <1>5, <1>6, <1>7 DEF RollIInv

(* A member is recorded as applying: a replica in the roll, the primary    *)
(* after both others are verified.                                         *)
LEMMA MarkKeeps ==
  ASSUME RollIInv, Mark
  PROVE  RollIInv'
<1>1. RollTypeOK'
  <2>1. ClusterType'
    BY DEF RollIInv, patroniVars, RollTypeOK, Mark, ClusterType
  <2>2. FileType'
    BY DEF RollIInv, RollTypeOK, Mark, FileType
  <2>3. AttemptType'
    BY DEF RollIInv, RollPoints, local, RollTypeOK, RollTo, Mark, AttemptType
  <2>4. HistoryType'
    BY DEF RollIInv, RollTypeOK, Mark, HistoryType
  <2>. QED  BY <2>1, <2>2, <2>3, <2>4, RollTypeParts
<1>2. EvidenceInv'
  BY DEF patroniVars, RollTo, Mark, EvidencePredatesRoll, Rolling, EvidenceInv, RollIInv
<1>3. JournalInv'
  BY DEF patroniVars, RollTypeOK, Mark, SuccessIsComplete, JournalAgrees, JournalInv,
         RollIInv
<1>4. AtInv'
  BY DEF local, RollTypeOK, RollTo, Mark, AtInv, RollIInv
<1>5. OrderInv'
  BY DEF local, RollTypeOK, RollTo, Mark, Rolling, OrderInv, RollIInv
<1>6. MarkedInv'
  <2>1. /\ member \in PatroniMembers /\ journal[member] = "" /\ mode \in {"replica", "old"}
        /\ journal' = [journal EXCEPT ![member] = "applying"]
        /\ marked' = [marked EXCEPT ![member] = IF mode = "old" THEN "primary" ELSE "replica"]
        /\ switches' = switches /\ at' \in {"switchover", "recreate"}
        /\ at' = "switchover" => mode = "old"
    BY DEF RollIInv, RollTypeOK, AtInv, Mark, RollTo
  <2>2. \A n \in PatroniMembers : marked'[n] = "none" <=> journal'[n] = ""
    BY <2>1 DEF RollIInv, RollTypeOK, MarkedInv
  <2>3. ReplicasFirst'
    <3>. SUFFICES ASSUME NEW n \in PatroniMembers, marked'[n] = "primary",
                         NEW k \in PatroniMembers \ {n}
                  PROVE  journal'[k] = "verified"
      BY <2>1 DEF RollIInv, MarkedInv, ReplicasFirst
    <3>1. CASE n = member
      BY <2>1, <3>1 DEF RollIInv, RollTypeOK, OrderInv, Rolling, Mark
    <3>2. CASE n # member
      <4>1. marked[n] = "primary"
        BY <2>1, <3>2 DEF RollIInv, RollTypeOK
      <4>2. journal[member] = "verified"
        BY <2>1, <3>2, <4>1 DEF RollIInv, MarkedInv, ReplicasFirst
      <4>. QED  BY <2>1, <4>2
    <3>. QED  BY <3>1, <3>2
  <2>4. (\A n \in PatroniMembers : journal'[n] # "") =>
          \E n \in PatroniMembers : marked'[n] = "primary"
    <3>1. CASE mode = "old"
      BY <2>1, <3>1 DEF RollIInv, RollTypeOK
    <3>2. CASE mode = "replica"
      BY <2>1, <3>2 DEF RollIInv, RollTypeOK, OrderInv, Rolling, Mark
    <3>. QED  BY <2>1, <3>1, <3>2
  <2>5. switches # 0 => \E n \in PatroniMembers : marked'[n] = "primary"
    BY <2>1 DEF RollIInv, RollTypeOK, MarkedInv
  <2>6. at' = "switchover" => switches = 0
    <3>. SUFFICES ASSUME mode = "old", NEW n \in PatroniMembers, marked[n] = "primary" PROVE FALSE
      BY <2>1 DEF RollIInv, MarkedInv
    <3>. QED
      BY <2>1
         DEF RollIInv, RollTypeOK, MarkedInv, ReplicasFirst, OrderInv, Rolling, Mark
  <2>. QED
    BY <2>1, <2>2, <2>3, <2>4, <2>5, <2>6 DEF MarkedInv, FormerIsOldPrimary
<1>7. TakenInv'
  BY DEF patroniVars, local, RollTo, Mark, OneMemberDown, AtInv, TakenInv, RollIInv
<1>. QED  BY <1>1, <1>2, <1>3, <1>4, <1>5, <1>6, <1>7 DEF RollIInv

(* A member is recreated when all have been healthy together.              *)
LEMMA RecreateMemberKeeps ==
  ASSUME RollIInv, RecreateMember
  PROVE  RollIInv'
<1>1. RollTypeOK'
  <2>1. ClusterType'
    BY DEF RollIInv, RollTypeOK, RecreateMember, ClusterType
  <2>2. FileType'
    BY DEF RollIInv, rollFiles, RollTypeOK, RecreateMember, FileType
  <2>3. AttemptType'
    BY DEF RollIInv, RollPoints, local, RollTypeOK, RollTo, RecreateMember, AttemptType
  <2>4. HistoryType'
    BY DEF RollIInv, RollTypeOK, RecreateMember, HistoryType
  <2>. QED  BY <2>1, <2>2, <2>3, <2>4, RollTypeParts
<1>2. EvidenceInv'
  BY DEF rollFiles, RollTo, RecreateMember, EvidencePredatesRoll, Rolling, EvidenceInv,
         RollIInv
<1>3. JournalInv'
  BY DEF rollFiles, RollTypeOK, RecreateMember, SuccessIsComplete, JournalAgrees,
         JournalInv,
         AtInv, RollIInv
<1>4. AtInv'
  BY DEF rollFiles, local, RollTo, RecreateMember, AtInv, RollIInv
<1>5. OrderInv'
  BY DEF rollFiles, local, RollTo, RecreateMember, Rolling, OrderInv, RollIInv
<1>6. MarkedInv'
  BY DEF rollFiles, local, RollTo, RecreateMember, ReplicasFirst, FormerIsOldPrimary,
         MarkedInv, RollIInv
<1>7. TakenInv'
  BY DEF RollTypeOK, RollTo, RecreateMember, OneMemberDown, TakenInv, RollIInv
<1>. QED  BY <1>1, <1>2, <1>3, <1>4, <1>5, <1>6, <1>7 DEF RollIInv

(* Past this step the member runs the pinned image.                        *)
LEMMA VerifyMemberImageKeeps ==
  ASSUME RollIInv, VerifyMemberImage
  PROVE  RollIInv'
<1>1. RollTypeOK'
  <2>1. ClusterType'
    BY DEF RollIInv, patroniVars, RollTypeOK, VerifyMemberImage, ClusterType
  <2>2. FileType'
    BY DEF RollIInv, rollFiles, RollTypeOK, VerifyMemberImage, FileType
  <2>3. AttemptType'
    BY DEF RollIInv, RollPoints, local, RollTypeOK, RollTo, Refuse, VerifyMemberImage,
           AttemptType
  <2>4. HistoryType'
    BY DEF RollIInv, history, RollTypeOK, VerifyMemberImage, HistoryType
  <2>. QED  BY <2>1, <2>2, <2>3, <2>4, RollTypeParts
<1>2. EvidenceInv'
  BY DEF patroniVars, rollFiles, RollTo, Refuse, VerifyMemberImage, EvidencePredatesRoll,
         Rolling, EvidenceInv, RollIInv
<1>3. JournalInv'
  BY DEF patroniVars, rollFiles, RollTo, Refuse, VerifyMemberImage, SuccessIsComplete,
         JournalAgrees, JournalInv, RollIInv
<1>4. AtInv'
  BY DEF patroniVars, rollFiles, local, RollTo, Refuse, VerifyMemberImage, AtInv, RollIInv
<1>5. OrderInv'
  BY DEF rollFiles, local, RollTo, Refuse, VerifyMemberImage, Rolling, OrderInv,
         RollIInv
<1>6. MarkedInv'
  BY DEF rollFiles, local, history, RollTo, Refuse, VerifyMemberImage, ReplicasFirst,
         FormerIsOldPrimary, MarkedInv, RollIInv
<1>7. TakenInv'
  BY DEF patroniVars, local, history, RollTo, Refuse, VerifyMemberImage,
         OneMemberDown, TakenInv, RollIInv
<1>. QED  BY <1>1, <1>2, <1>3, <1>4, <1>5, <1>6, <1>7 DEF RollIInv

(* The quorum is complete again.                                           *)
LEMMA WaitKeeps ==
  ASSUME RollIInv, Wait
  PROVE  RollIInv'
<1>1. RollTypeOK'
  <2>1. ClusterType'
    BY DEF RollIInv, patroniVars, RollTypeOK, CheckQuorum, AwaitQuorum, Wait, ClusterType
  <2>2. FileType'
    BY DEF RollIInv, rollFiles, RollTypeOK, Wait, FileType
  <2>3. AttemptType'
    BY DEF RollIInv, RollPoints, local, RollTypeOK, RollTo, Refuse, CheckQuorum,
           AwaitQuorum,
           Wait, AttemptType
  <2>4. HistoryType'
    BY DEF RollIInv, RollTypeOK, CheckQuorum, AwaitQuorum, Wait, HistoryType
  <2>. QED  BY <2>1, <2>2, <2>3, <2>4, RollTypeParts
<1>2. EvidenceInv'
  BY DEF patroniVars, rollFiles, RollTo, Refuse, CheckQuorum, AwaitQuorum, Wait,
         EvidencePredatesRoll, Rolling, EvidenceInv, RollIInv
<1>3. JournalInv'
  BY DEF patroniVars, rollFiles, RollTo, Refuse, CheckQuorum, AwaitQuorum, Wait,
         SuccessIsComplete, JournalAgrees, JournalInv, RollIInv
<1>4. AtInv'
  BY DEF patroniVars, rollFiles, local, RollTo, Refuse, CheckQuorum, AwaitQuorum, Wait,
         AtInv, RollIInv
<1>5. OrderInv'
  BY DEF rollFiles, local, RollTo, Refuse, CheckQuorum, AwaitQuorum, Wait, Rolling,
         OrderInv, RollIInv
<1>6. MarkedInv'
  BY DEF rollFiles, local, RollTo, Refuse, CheckQuorum, AwaitQuorum, Wait,
         ReplicasFirst, FormerIsOldPrimary, MarkedInv, RollIInv
<1>7. TakenInv'
  BY DEF patroniVars, local, RollTo, Refuse, CheckQuorum, AwaitQuorum, Wait,
         OneMemberDown, TakenInv, RollIInv
<1>. QED  BY <1>1, <1>2, <1>3, <1>4, <1>5, <1>6, <1>7 DEF RollIInv

(* The member is verified.  In a resume it is the last one.                *)
LEMMA RecordVerifiedKeeps ==
  ASSUME RollIInv, RecordVerified
  PROVE  RollIInv'
<1>1. RollTypeOK'
  <2>1. ClusterType'
    BY DEF RollIInv, patroniVars, RollTypeOK, RecordVerified, ClusterType
  <2>2. FileType'
    BY DEF RollIInv, RollTypeOK, RecordVerified, FileType
  <2>3. AttemptType'
    BY DEF RollIInv, RollPoints, RollTypeOK, RollTo, RecordVerified, AttemptType
  <2>4. HistoryType'
    BY DEF RollIInv, history, RollTypeOK, RecordVerified, HistoryType
  <2>. QED  BY <2>1, <2>2, <2>3, <2>4, RollTypeParts
<1>2. EvidenceInv'
  BY DEF patroniVars, RollTo, RecordVerified, EvidencePredatesRoll, Rolling, EvidenceInv,
         RollIInv
<1>3. JournalInv'
  BY DEF patroniVars, RollTypeOK, RecordVerified, SuccessIsComplete, JournalAgrees,
         JournalInv,
         AtInv, RollIInv
<1>4. AtInv'
  <2>1. /\ member \in PatroniMembers /\ mode # "replay" /\ mode' = mode
        /\ journal' = [journal EXCEPT ![member] = "verified"]
        /\ at' \in {"final", "switch", "replica"}
        /\ at' = "final" <=> mode # "replica"
    BY DEF RollIInv, RollTypeOK, AtInv, RecordVerified, RollTo
  <2>2. at' = "final" => \A n \in PatroniMembers : journal'[n] = "verified"
    BY <2>1 DEF RollIInv, RollTypeOK, Modes, OrderInv, Rolling, RecordVerified
  <2>. QED  BY <2>1, <2>2 DEF AtInv
<1>5. OrderInv'
  BY DEF RollTypeOK, RollTo, RecordVerified, Rolling, OrderInv, RollIInv
<1>6. MarkedInv'
  <2>1. /\ member \in PatroniMembers /\ journal[member] # ""
        /\ marked' = marked /\ switches' = switches
        /\ journal' = [journal EXCEPT ![member] = "verified"]
        /\ at' \in {"final", "switch", "replica"}
    BY DEF RollIInv, RollTypeOK, AtInv, RecordVerified, RollTo, history
  <2>2. \A n \in PatroniMembers : journal'[n] = "" <=> journal[n] = ""
    BY <2>1 DEF RollIInv, RollTypeOK
  <2>3. \A n \in PatroniMembers : journal[n] = "verified" => journal'[n] = "verified"
    BY <2>1 DEF RollIInv, RollTypeOK
  <2>. QED
    BY <2>1, <2>2, <2>3 DEF RollIInv, MarkedInv, ReplicasFirst, FormerIsOldPrimary
<1>7. TakenInv'
  BY DEF patroniVars, history, RollTo, RecordVerified, OneMemberDown, TakenInv, RollIInv
<1>. QED  BY <1>1, <1>2, <1>3, <1>4, <1>5, <1>6, <1>7 DEF RollIInv

(* With both replicas verified the primary becomes the member at hand.     *)
LEMMA SwitchKeeps ==
  ASSUME RollIInv, Switch
  PROVE  RollIInv'
<1>1. RollTypeOK'
  <2>1. ClusterType'
    BY DEF RollIInv, patroniVars, RollTypeOK, Switch, ClusterType
  <2>2. FileType'
    BY DEF RollIInv, rollFiles, RollTypeOK, Switch, FileType
  <2>3. AttemptType'
    <3>1. First(PatroniMembers \ {lead}) \in PatroniMembers
      BY OthersExist DEF RollIInv, RollTypeOK
    <3>. QED
      BY <3>1
         DEF RollIInv, RollTypeOK, AttemptType, Switch, RollPoints, Modes, RollTo, Refuse,
             local
  <2>4. HistoryType'
    BY DEF RollIInv, history, RollTypeOK, Switch, HistoryType
  <2>. QED  BY <2>1, <2>2, <2>3, <2>4, RollTypeParts
<1>2. EvidenceInv'
  BY DEF patroniVars, rollFiles, RollTo, Refuse, Switch, EvidencePredatesRoll, Rolling,
         EvidenceInv, RollIInv
<1>3. JournalInv'
  BY DEF patroniVars, rollFiles, RollTo, Refuse, Switch, SuccessIsComplete, JournalAgrees,
         JournalInv, RollIInv
<1>4. AtInv'
  BY DEF patroniVars, rollFiles, local, RollTo, Refuse, Switch, AtInv, RollIInv
<1>5. OrderInv'
  <2>1. First(PatroniMembers \ {lead}) \in PatroniMembers \ {lead}
    BY OthersExist DEF RollIInv, RollTypeOK
  <2>. QED
    BY <2>1
       DEF RollIInv, RollTypeOK, AtInv, OrderInv, Rolling, Switch, RollTo, Refuse,
           local, rollFiles
<1>6. MarkedInv'
  BY DEF rollFiles, local, history, RollTo, Refuse, Switch, ReplicasFirst,
         FormerIsOldPrimary, MarkedInv, RollIInv
<1>7. TakenInv'
  BY DEF patroniVars, local, history, RollTo, Refuse, Switch, OneMemberDown, TakenInv,
         RollIInv
<1>. QED  BY <1>1, <1>2, <1>3, <1>4, <1>5, <1>6, <1>7 DEF RollIInv

(* It is the first switchover.                                             *)
LEMMA OneSwitch ==
  ASSUME RollIInv, Switchover
  PROVE  switches = 0 /\ switches' = 1
<1>1. switches = 0
  BY DEF RollIInv, MarkedInv, Switchover
<1>2. switches' = switches + 1
  BY Zenon DEF Switchover
<1>. QED  BY <1>1, <1>2

(* Leadership is switched for the first time: no member was recorded as    *)
(* the primary before the one at hand.                                     *)
LEMMA SwitchoverKeeps ==
  ASSUME RollIInv, Switchover
  PROVE  RollIInv'
<1>1. RollTypeOK'
  <2>1. ClusterType'
    <3>1. leader' \in PatroniMembers \cup {NoMember}
      BY DEF RollIInv, RollTypeOK, Switchover
    <3>2. requested' \in (PatroniMembers \X PatroniMembers) \cup {NoRequest}
      <4>1. requested' = requested \/ requested' = <<member, lead>>
        BY DEF Switchover
      <4>2. /\ member \in PatroniMembers /\ lead \in PatroniMembers
            /\ requested \in (PatroniMembers \X PatroniMembers) \cup {NoRequest}
        BY DEF RollIInv, RollTypeOK
      <4>3. <<member, lead>> \in PatroniMembers \X PatroniMembers
        BY <4>2
      <4>. QED  BY <4>1, <4>2, <4>3
    <3>. QED  BY <3>1, <3>2 DEF RollIInv, RollTypeOK, ClusterType, Switchover
  <2>2. FileType'
    BY DEF RollIInv, rollFiles, RollTypeOK, Switchover, FileType
  <2>3. AttemptType'
    BY DEF RollIInv, RollPoints, local, RollTypeOK, RollTo, Refuse, Switchover, AttemptType
  <2>4. HistoryType'
    <3>1. switches' \in 0..2
      BY OneSwitch
    <3>2. UNCHANGED <<seen, taken, marked>>
      BY DEF Switchover
    <3>. QED  BY <3>1, <3>2 DEF RollIInv, RollTypeOK, HistoryType
  <2>. QED  BY <2>1, <2>2, <2>3, <2>4, RollTypeParts
<1>2. EvidenceInv'
  BY DEF rollFiles, RollTo, Refuse, Switchover, EvidencePredatesRoll, Rolling,
         EvidenceInv, RollIInv
<1>3. JournalInv'
  BY DEF rollFiles, RollTo, Refuse, Switchover, SuccessIsComplete, JournalAgrees,
         JournalInv, RollIInv
<1>4. AtInv'
  BY DEF rollFiles, local, RollTo, Refuse, Switchover, AtInv, RollIInv
<1>5. OrderInv'
  BY DEF rollFiles, local, RollTo, Refuse, Switchover, Rolling, OrderInv, RollIInv
<1>6. MarkedInv'
  <2>1. switches' = 1 /\ journal' = journal /\ marked' = marked /\ at' \in {"switched", "idle"}
    BY OneSwitch DEF Switchover, rollFiles, RollTo, Refuse
  <2>2. \E n \in PatroniMembers : marked[n] = "primary"
    <3>1. \A n \in PatroniMembers : journal[n] # ""
      BY DEF RollIInv, RollTypeOK, AtInv, OrderInv, Rolling, Switchover
    <3>. QED  BY <3>1 DEF RollIInv, MarkedInv
  <2>3. FormerIsOldPrimary'
    BY <2>1 DEF FormerIsOldPrimary
  <2>4. ReplicasFirst'
    <3>1. \A n \in PatroniMembers : marked'[n] = "primary" =>
          \A k \in PatroniMembers \ {n} : journal'[k] = "verified"
      BY <2>1 DEF RollIInv, MarkedInv, ReplicasFirst
    <3>2. switches' <= 1
      BY <2>1
    <3>. QED  BY <3>1, <3>2 DEF ReplicasFirst
  <2>. QED  BY <2>1, <2>2, <2>3, <2>4 DEF RollIInv, MarkedInv
<1>7. TakenInv'
  BY DEF local, RollTo, Refuse, Switchover, OneMemberDown, TakenInv, RollIInv
<1>. QED  BY <1>1, <1>2, <1>3, <1>4, <1>5, <1>6, <1>7 DEF RollIInv

(* Leadership is where the roll wants it, and all members are healthy.     *)
LEMMA SwitchedKeeps ==
  ASSUME RollIInv, Switched
  PROVE  RollIInv'
<1>1. RollTypeOK'
  <2>1. ClusterType'
    BY DEF RollIInv, patroniVars, RollTypeOK, CheckQuorum, AwaitQuorum, Switched,
           ClusterType
  <2>2. FileType'
    BY DEF RollIInv, rollFiles, RollTypeOK, Switched, FileType
  <2>3. AttemptType'
    BY DEF RollIInv, RollPoints, local, RollTypeOK, RollTo, Refuse, CheckQuorum,
           AwaitQuorum,
           Switched, AttemptType
  <2>4. HistoryType'
    BY DEF RollIInv, RollTypeOK, CheckQuorum, AwaitQuorum, Switched, HistoryType
  <2>. QED  BY <2>1, <2>2, <2>3, <2>4, RollTypeParts
<1>2. EvidenceInv'
  BY DEF patroniVars, rollFiles, RollTo, Refuse, CheckQuorum, AwaitQuorum, Switched,
         EvidencePredatesRoll, Rolling, EvidenceInv, RollIInv
<1>3. JournalInv'
  BY DEF patroniVars, rollFiles, RollTo, Refuse, CheckQuorum, AwaitQuorum, Switched,
         SuccessIsComplete, JournalAgrees, JournalInv, RollIInv
<1>4. AtInv'
  BY DEF patroniVars, rollFiles, local, RollTo, Refuse, CheckQuorum, AwaitQuorum,
         Switched, AtInv, RollIInv
<1>5. OrderInv'
  BY DEF rollFiles, local, Switched, Rolling, AtInv, OrderInv, RollIInv
<1>6. MarkedInv'
  BY DEF rollFiles, local, RollTo, Refuse, CheckQuorum, AwaitQuorum, Switched,
         ReplicasFirst, FormerIsOldPrimary, MarkedInv, RollIInv
<1>7. TakenInv'
  BY DEF local, RollTypeOK, Healthy, PatroniQuorum, RollTo, Refuse, CheckQuorum,
         AwaitQuorum,
         Switched, OneMemberDown, TakenInv, RollIInv
<1>. QED  BY <1>1, <1>2, <1>3, <1>4, <1>5, <1>6, <1>7 DEF RollIInv

(* The interrupted old primary is taken up.                                *)
LEMMA FormerKeeps ==
  ASSUME RollIInv, Former
  PROVE  RollIInv'
<1>1. RollTypeOK'
  <2>1. ClusterType'
    BY DEF RollIInv, patroniVars, RollTypeOK, CheckQuorum, AwaitQuorum, Former, ClusterType
  <2>2. FileType'
    BY DEF RollIInv, rollFiles, RollTypeOK, Former, FileType
  <2>3. AttemptType'
    BY DEF RollIInv, RollPoints, local, RollTypeOK, RollTo, Refuse, CheckQuorum,
           AwaitQuorum,
           Former, AttemptType
  <2>4. HistoryType'
    BY DEF RollIInv, RollTypeOK, CheckQuorum, AwaitQuorum, Former, HistoryType
  <2>. QED  BY <2>1, <2>2, <2>3, <2>4, RollTypeParts
<1>2. EvidenceInv'
  BY DEF patroniVars, rollFiles, RollTo, Refuse, CheckQuorum, AwaitQuorum, Former,
         EvidencePredatesRoll, Rolling, EvidenceInv, RollIInv
<1>3. JournalInv'
  BY DEF patroniVars, rollFiles, RollTo, Refuse, CheckQuorum, AwaitQuorum, Former,
         SuccessIsComplete, JournalAgrees, JournalInv, RollIInv
<1>4. AtInv'
  BY DEF patroniVars, rollFiles, local, RollTo, Refuse, CheckQuorum, AwaitQuorum, Former,
         AtInv, RollIInv
<1>5. OrderInv'
  BY DEF rollFiles, local, Former, Rolling, AtInv, OrderInv, RollIInv
<1>6. MarkedInv'
  BY DEF rollFiles, local, RollTo, Refuse, CheckQuorum, AwaitQuorum, Former,
         ReplicasFirst, FormerIsOldPrimary, MarkedInv, RollIInv
<1>7. TakenInv'
  BY DEF patroniVars, local, RollTypeOK, Healthy, PatroniQuorum, RollTo, Refuse,
         CheckQuorum,
         AwaitQuorum, Former, OneMemberDown, TakenInv, RollIInv
<1>. QED  BY <1>1, <1>2, <1>3, <1>4, <1>5, <1>6, <1>7 DEF RollIInv

(* Success is reported of a complete roll.                                 *)
LEMMA FinalKeeps ==
  ASSUME RollIInv, Final
  PROVE  RollIInv'
<1>1. RollTypeOK'
  <2>1. ClusterType'
    BY DEF RollIInv, patroniVars, RollTypeOK, Final, ClusterType
  <2>2. FileType'
    BY DEF RollIInv, rollFiles, RollTypeOK, Final, FileType
  <2>3. AttemptType'
    BY DEF RollIInv, RollPoints, local, RollTypeOK, RollTo, Refuse, Final, AttemptType
  <2>4. HistoryType'
    BY DEF RollIInv, RollTypeOK, Final, HistoryType
  <2>. QED  BY <2>1, <2>2, <2>3, <2>4, RollTypeParts
<1>2. EvidenceInv'
  BY DEF patroniVars, rollFiles, RollTo, Refuse, Final, EvidencePredatesRoll, Rolling,
         EvidenceInv, RollIInv
<1>3. JournalInv'
  BY DEF patroniVars, rollFiles, RollTo, Refuse, Final, SuccessIsComplete, JournalAgrees,
         JournalInv, AtInv, RollIInv
<1>4. AtInv'
  BY DEF patroniVars, rollFiles, local, RollTo, Refuse, Final, AtInv, RollIInv
<1>5. OrderInv'
  BY DEF rollFiles, local, RollTo, Refuse, Final, Rolling, OrderInv, RollIInv
<1>6. MarkedInv'
  BY DEF rollFiles, local, RollTo, Refuse, Final, ReplicasFirst, FormerIsOldPrimary,
         MarkedInv, RollIInv
<1>7. TakenInv'
  BY DEF patroniVars, local, RollTo, Refuse, Final, OneMemberDown, TakenInv, RollIInv
<1>. QED  BY <1>1, <1>2, <1>3, <1>4, <1>5, <1>6, <1>7 DEF RollIInv

(* An attempt that ends leaves what it wrote.                              *)
LEMMA StopRollKeeps ==
  ASSUME RollIInv, StopRoll
  PROVE  RollIInv'
<1>1. RollTypeOK'
  <2>1. ClusterType'
    BY DEF RollIInv, patroniVars, RollTypeOK, StopRoll, ClusterType
  <2>2. FileType'
    BY DEF RollIInv, rollFiles, RollTypeOK, StopRoll, FileType
  <2>3. AttemptType'
    BY DEF RollIInv, RollPoints, local, RollTypeOK, RollTo, Refuse, StopRoll, AttemptType
  <2>4. HistoryType'
    BY DEF RollIInv, history, RollTypeOK, StopRoll, HistoryType
  <2>. QED  BY <2>1, <2>2, <2>3, <2>4, RollTypeParts
<1>2. EvidenceInv'
  BY DEF patroniVars, rollFiles, Untouched, RollTo, Refuse, StopRoll, EvidencePredatesRoll,
         Rolling, EvidenceInv, RollIInv
<1>3. JournalInv'
  BY DEF patroniVars, rollFiles, RollTo, Refuse, StopRoll, SuccessIsComplete, JournalAgrees,
         JournalInv, RollIInv
<1>4. AtInv'
  BY DEF patroniVars, rollFiles, local, RollTo, Refuse, StopRoll, AtInv, RollIInv
<1>5. OrderInv'
  BY DEF rollFiles, local, RollTo, Refuse, StopRoll, Rolling, OrderInv, RollIInv
<1>6. MarkedInv'
  BY DEF rollFiles, local, history, RollTo, Refuse, StopRoll, ReplicasFirst,
         FormerIsOldPrimary, MarkedInv, RollIInv
<1>7. TakenInv'
  BY DEF patroniVars, local, history, RollTo, Refuse, StopRoll, OneMemberDown, TakenInv,
         RollIInv
<1>. QED  BY <1>1, <1>2, <1>3, <1>4, <1>5, <1>6, <1>7 DEF RollIInv

(* A leader is elected.                                                    *)
LEMMA ElectKeeps ==
  ASSUME RollIInv, Elect
  PROVE  RollIInv'
<1>1. RollTypeOK'
  <2>1. ClusterType'
    BY DEF RollIInv, RollTypeOK, Elect, ClusterType
  <2>2. FileType'
    BY DEF RollIInv, rollFiles, RollTypeOK, Elect, FileType
  <2>3. AttemptType'
    BY DEF RollIInv, local, RollTypeOK, Elect, AttemptType
  <2>4. HistoryType'
    BY DEF RollIInv, history, RollTypeOK, Elect, HistoryType
  <2>. QED  BY <2>1, <2>2, <2>3, <2>4, RollTypeParts
<1>2. UNCHANGED <<image, rollFiles, at, local, outcome, marked, switches>>
  BY DEF Elect, history
<1>3. TakenInv'
  BY DEF RollIInv, TakenInv, OneMemberDown, local, history, Elect
<1>. QED  BY <1>1, <1>2, <1>3, BesideRoll DEF RollIInv

(* A member that rejoins is not down any more.                             *)
LEMMA RejoinKeeps ==
  ASSUME RollIInv, Rejoin
  PROVE  RollIInv'
<1>1. RollTypeOK'
  <2>1. ClusterType'
    BY DEF RollIInv, RollTypeOK, Rejoin, ClusterType
  <2>2. FileType'
    BY DEF RollIInv, rollFiles, RollTypeOK, Rejoin, FileType
  <2>3. AttemptType'
    BY DEF RollIInv, local, RollTypeOK, Rejoin, AttemptType
  <2>4. HistoryType'
    BY DEF RollIInv, RollTypeOK, Rejoin, HistoryType
  <2>. QED  BY <2>1, <2>2, <2>3, <2>4, RollTypeParts
<1>2. UNCHANGED <<image, rollFiles, at, local, outcome, marked, switches>>
  BY DEF Rejoin
<1>3. TakenInv'
  BY DEF local, Rejoin, OneMemberDown, TakenInv, RollIInv
<1>. QED  BY <1>1, <1>2, <1>3, BesideRoll DEF RollIInv

(* An accepted switchover is carried out late.                             *)
LEMMA CarryOutKeeps ==
  ASSUME RollIInv, CarryOut
  PROVE  RollIInv'
<1>1. RollTypeOK'
  <2>1. ClusterType'
    BY DEF RollIInv, RollTypeOK, CarryOut, ClusterType
  <2>2. FileType'
    BY DEF RollIInv, rollFiles, RollTypeOK, CarryOut, FileType
  <2>3. AttemptType'
    BY DEF RollIInv, local, RollTypeOK, CarryOut, AttemptType
  <2>4. HistoryType'
    BY DEF RollIInv, history, RollTypeOK, CarryOut, HistoryType
  <2>. QED  BY <2>1, <2>2, <2>3, <2>4, RollTypeParts
<1>2. UNCHANGED <<image, rollFiles, at, local, outcome, marked, switches>>
  BY DEF CarryOut, history
<1>3. TakenInv'
  BY DEF RollIInv, TakenInv, OneMemberDown, local, history, CarryOut
<1>. QED  BY <1>1, <1>2, <1>3, BesideRoll DEF RollIInv

(* Another member takes over.                                              *)
LEMMA FailoverKeeps ==
  ASSUME RollIInv, Failover
  PROVE  RollIInv'
<1>1. RollTypeOK'
  <2>1. ClusterType'
    BY DEF RollIInv, RollTypeOK, Failover, ClusterType
  <2>2. FileType'
    BY DEF RollIInv, rollFiles, RollTypeOK, Failover, FileType
  <2>3. AttemptType'
    BY DEF RollIInv, local, RollTypeOK, Failover, AttemptType
  <2>4. HistoryType'
    BY DEF RollIInv, history, RollTypeOK, Failover, HistoryType
  <2>. QED  BY <2>1, <2>2, <2>3, <2>4, RollTypeParts
<1>2. UNCHANGED <<image, rollFiles, at, local, outcome, marked, switches>>
  BY DEF Failover, history
<1>3. TakenInv'
  BY DEF RollIInv, TakenInv, OneMemberDown, local, history, Failover
<1>. QED  BY <1>1, <1>2, <1>3, BesideRoll DEF RollIInv

(* A member that fails on its own was not taken down by the roll.          *)
LEMMA FlapKeeps ==
  ASSUME RollIInv, Flap
  PROVE  RollIInv'
<1>1. RollTypeOK'
  <2>1. ClusterType'
    BY DEF RollIInv, RollTypeOK, Flap, ClusterType
  <2>2. FileType'
    BY DEF RollIInv, rollFiles, RollTypeOK, Flap, FileType
  <2>3. AttemptType'
    BY DEF RollIInv, local, RollTypeOK, Flap, AttemptType
  <2>4. HistoryType'
    BY DEF RollIInv, history, RollTypeOK, Flap, HistoryType
  <2>. QED  BY <2>1, <2>2, <2>3, <2>4, RollTypeParts
<1>2. UNCHANGED <<image, rollFiles, at, local, outcome, marked, switches>>
  BY DEF Flap, history
<1>3. TakenInv'
  BY DEF local, history, Flap, OneMemberDown, TakenInv, RollIInv
<1>. QED  BY <1>1, <1>2, <1>3, BesideRoll DEF RollIInv

(* Faults cease.                                                           *)
LEMMA FaultsCeaseKeeps ==
  ASSUME RollIInv, FaultsCease
  PROVE  RollIInv'
<1>1. RollTypeOK'
  <2>1. ClusterType'
    BY DEF RollIInv, patroniVars, RollTypeOK, FaultsCease, ClusterType
  <2>2. FileType'
    BY DEF RollIInv, rollFiles, RollTypeOK, FaultsCease, FileType
  <2>3. AttemptType'
    BY DEF RollIInv, local, RollTypeOK, FaultsCease, AttemptType
  <2>4. HistoryType'
    BY DEF RollIInv, history, RollTypeOK, FaultsCease, HistoryType
  <2>. QED  BY <2>1, <2>2, <2>3, <2>4, RollTypeParts
<1>2. UNCHANGED <<image, rollFiles, at, local, outcome, marked, switches>>
  BY DEF FaultsCease, patroniVars, history
<1>3. TakenInv'
  BY DEF RollIInv, TakenInv, OneMemberDown, local, history, patroniVars, FaultsCease
<1>. QED  BY <1>1, <1>2, <1>3, BesideRoll DEF RollIInv

(* The initial state.                                                      *)
LEMMA RollInitKeeps == RollInit => RollIInv
<1>. SUFFICES ASSUME RollInit PROVE RollIInv
  OBVIOUS
<1>0. switches = 0
  BY Zenon DEF RollInit
<1>1. RollTypeOK
  <2>1. NoRequest \in (PatroniMembers \X PatroniMembers) \cup {NoRequest}
    OBVIOUS
  <2>2. 1 \in PatroniMembers
    BY DEF PatroniMembers
  <2>3. ClusterType
    BY <2>1 DEF RollInit, ClusterType, Images
  <2>4. FileType
    BY DEF RollInit, FileType, Images, Artifacts
  <2>5. AttemptType
    BY <2>2 DEF RollInit, AttemptType, RollPoints, Modes
  <2>6. HistoryType
    <3>1. switches \in 0..2
      BY <1>0
    <3>. QED  BY <3>1 DEF RollInit, HistoryType
  <2>. QED
    BY <2>3, <2>4, <2>5, <2>6
       DEF RollTypeOK, ClusterType, FileType, AttemptType, HistoryType
<1>2. EvidenceInv
  BY DEF RollInit, EvidenceInv, EvidencePredatesRoll, Untouched, Rolling
<1>3. JournalInv
  BY DEF RollInit, JournalInv, JournalAgrees, SuccessIsComplete
<1>4. AtInv
  BY DEF RollInit, AtInv
<1>5. OrderInv
  BY DEF RollInit, OrderInv, Rolling
<1>6. MarkedInv
  <2>1. \E n \in PatroniMembers : journal[n] = ""
    BY DEF RollInit, PatroniMembers
  <2>2. \A n \in PatroniMembers : marked[n] = "none" /\ journal[n] = ""
    BY DEF RollInit
  <2>3. at = "idle"
    BY DEF RollInit
  <2>4. ReplicasFirst /\ FormerIsOldPrimary
    <3>1. switches <= 1
      BY <1>0
    <3>. QED  BY <2>2, <2>3, <3>1 DEF ReplicasFirst, FormerIsOldPrimary
  <2>. QED  BY <1>0, <2>1, <2>2, <2>3, <2>4 DEF MarkedInv
<1>7. TakenInv
  BY DEF RollInit, TakenInv, OneMemberDown
<1>. QED  BY <1>1, <1>2, <1>3, <1>4, <1>5, <1>6, <1>7 DEF RollIInv

(* A step that changes nothing.                                            *)
LEMMA RollStutterKeeps ==
  ASSUME RollIInv, UNCHANGED rollVars
  PROVE  RollIInv'
<1>1. RollTypeOK'
  BY DEF RollIInv, RollTypeOK, rollVars, patroniVars, rollFiles, local, history
<1>2. UNCHANGED <<image, rollFiles, at, local, outcome, marked, switches>>
  BY DEF rollVars, patroniVars, history
<1>3. TakenInv'
  BY DEF RollIInv, TakenInv, OneMemberDown, rollVars, patroniVars, local, history
<1>. QED  BY <1>1, <1>2, <1>3, BesideRoll DEF RollIInv

(* The inductive invariant.                                                *)
LEMMA RollInvariance == RollSpec => []RollIInv
<1>1. RollIInv /\ [RollNext]_rollVars => RollIInv'
  <2>. SUFFICES ASSUME RollIInv, [RollNext]_rollVars PROVE RollIInv'
    OBVIOUS
  <2>1. CASE Attempt
    BY <2>1, BeginKeeps, EvidenceQuorumKeeps, CaptureBaseKeeps, CaptureDCSKeeps,
       ConfirmLeaderKeeps, PreStageKeeps, SaveCheckpointKeeps,
       ReplaceComposeKeeps, NoSnapshotKeeps, SnapshotKeeps, ReplicaKeeps,
       MarkKeeps, RecreateMemberKeeps, VerifyMemberImageKeeps, WaitKeeps,
       RecordVerifiedKeeps, SwitchKeeps, SwitchoverKeeps, SwitchedKeeps, FormerKeeps,
       FinalKeeps
       DEF Attempt
  <2>2. CASE Patroni
    BY <2>2, ElectKeeps, RejoinKeeps, CarryOutKeeps DEF Patroni
  <2>3. CASE CutShort \/ StopRoll \/ Failover \/ Flap \/ FaultsCease
    BY <2>3, CutShortKeeps, StopRollKeeps, FailoverKeeps, FlapKeeps, FaultsCeaseKeeps
  <2>4. CASE UNCHANGED rollVars
    BY <2>4, RollStutterKeeps
  <2>. QED  BY <2>1, <2>2, <2>3, <2>4 DEF RollNext
<1>. QED  BY <1>1, RollInitKeeps, PTL DEF RollSpec

(* Every variable of the roll keeps its type: the snapshots it acts on     *)
(* name a leader (CheckQuorum), whatever Patroni does between them.        *)
THEOREM RollTypeCorrect == RollSpec => []RollTypeOK
<1>1. RollIInv => RollTypeOK
  BY DEF RollIInv
<1>. QED  BY <1>1, RollInvariance, PTL

(* The recovery evidence of every roll, however often it was interrupted,  *)
(* is complete before the first change and of the untouched cluster        *)
(* (StreamRecoveryPoint.Capture, DCSCheckpoint.Acquire).                   *)
THEOREM EvidenceFirst == RollSpec => []EvidencePredatesRoll
<1>1. RollIInv => EvidencePredatesRoll
  BY DEF RollIInv, EvidenceInv
<1>. QED  BY <1>1, RollInvariance, PTL

(* The member journal and the member images agree across interruptions,    *)
(* and success is reported of a complete roll only (RollPatroniCluster,    *)
(* classifyOwnedHAPostgresRollingInventory).                               *)
THEOREM JournalTrue == RollSpec => []JournalAgrees
<1>1. RollIInv => JournalAgrees
  BY DEF RollIInv, JournalInv
<1>. QED  BY <1>1, RollInvariance, PTL

(* Over all attempts: one member down at a time, the primary last, one     *)
(* switchover, and a resume recreates the old primary                      *)
(* (RollPatroniCluster, resumePatroniAfterSwitchover).                     *)
THEOREM InOrder == RollSpec => []RollInOrder
<1>1. RollIInv => RollInOrder
  <2>. SUFFICES ASSUME RollIInv PROVE RollInOrder
    OBVIOUS
  <2>1. OneMemberDown /\ ReplicasFirst /\ FormerIsOldPrimary
    BY DEF RollIInv, TakenInv, MarkedInv
  <2>2. RecreatesReplica
    <3>. SUFFICES ASSUME at = "recreate"
                  PROVE  seen \notin {NoMember, member} /\ journal[member] = "applying"
      BY DEF RecreatesReplica
    <3>1. seen = lead /\ journal[member] = "applying" /\ mode # "replay"
      BY DEF RollIInv, TakenInv, AtInv
    <3>2. lead # member
      BY <3>1 DEF RollIInv, RollTypeOK, Modes, AtInv, OrderInv, Rolling
    <3>3. lead # NoMember
      <4>1. lead \in 1..3
        BY DEF RollIInv, RollTypeOK, PatroniMembers
      <4>. QED  BY <4>1 DEF NoMember
    <3>. QED  BY <3>1, <3>2, <3>3
  <2>. QED  BY <2>1, <2>2 DEF RollInOrder
<1>. QED  BY <1>1, RollInvariance, PTL

==============================================================================
