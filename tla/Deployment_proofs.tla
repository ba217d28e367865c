-------------------------- MODULE Deployment_proofs --------------------------
(***************************************************************************)
(* Proofs about what is deployed to a Target; the two specifications share *)
(* no state.                                                               *)
(*                                                                         *)
(* The Target file, for every set of names, definitions and concurrent     *)
(* commands.  What each command relies on minutes after it read the file   *)
(* is carried by four facts: who is past the lock holds it, a command that *)
(* compared still has the file it planned on, a detach past its copy has   *)
(* the copy, and past its selection has it blocked.                        *)
(*                                                                         *)
(* Backup and restore of an application, for every number of backups, of   *)
(* selections, of writes and of failures.  An undisturbed backup and an    *)
(* undisturbed restore both rest on the workload being stopped and on      *)
(* nothing it asked for being still to come but an operation on buckets    *)
(* that is noted; a restore besides on nothing being left of what is not   *)
(* registered; and the service returns because whoever stopped a part has  *)
(* the step that starts it still ahead.                                    *)
(***************************************************************************)
EXTENDS TargetConfig, ApplicationRecovery, TLAPS

(* TargetConfig *)

Kinds == {"create", "update", "detach", "restore", "save", "rollback"}
Steps == {"idle", "consent", "lock", "compare", "preserve", "select", "replace"}
CommandRecord ==
  [step : Steps, kind : Kinds,
   name : Names, def : Definitions \cup {None}, plan : Config, selected : Selection]

(* Only the holder of the lock is past it.                                 *)
LockInv ==
  \A c \in Commands : command[c].step \in {"compare", "preserve", "select", "replace"} => lock = c

(* What the plan found in the file it read.                                *)
PlanInv ==
  \A c \in Commands : command[c].step # "idle" =>
    /\ command[c].kind = "detach" =>
         command[c].def # None /\ command[c].def = command[c].plan.targets[command[c].name]
    /\ command[c].kind \in {"create", "restore"} =>
         command[c].plan.targets[command[c].name] = None

(* A command that compared writes over the very file it planned on.        *)
CompareInv ==
  \A c \in Commands :
    /\ command[c].step \in {"preserve", "select"} => command[c].kind = "detach"
    /\ command[c].step \in {"preserve", "select", "replace"}
       /\ command[c].kind \notin {"save", "rollback"} => config = command[c].plan

(* A detach goes on only with its recovery copy made,                      *)
CopyInv ==
  \A c \in Commands : command[c].kind = "detach" /\ command[c].step \in {"select", "replace"}
    => <<command[c].name, command[c].def>> \in recovery

(* ... and writes only with the selection that meant its Target blocked.   *)
SelectInv ==
  \A c \in Commands : command[c].kind = "detach" /\ command[c].step = "replace" =>
    \/ selection = <<Detached, command[c].name>>
    \/ /\ selection = command[c].selected
       /\ ~SelectionBlocked(command[c].plan, command[c].selected, command[c].name)

IInv ==
  /\ TypeOK /\ LockInv /\ PlanInv /\ CompareInv /\ CopyInv /\ SelectInv
  /\ DetachedIsRecoverable

-----------------------------------------------------------------------------
(* A command at rest is one: the record every command returns to.          *)
LEMMA IdleTyped == Idle \in CommandRecord /\ Idle.step = "idle"
BY NamingAssumption DEF Idle, CommandRecord, Steps, Kinds, Config, Selection

(* The type invariant speaks of that record.                               *)
LEMMA Typed ==
  ASSUME TypeOK
  PROVE  command \in [Commands -> CommandRecord]
BY DEF TypeOK, CommandRecord, Steps, Kinds

(* Planning reads the file and the selection.                              *)
LEMMA PlanKeeps ==
  ASSUME IInv, NEW c \in Commands, NEW kind \in Kinds, NEW n \in Names,
         NEW d \in Definitions \cup {None}, Plan(c, kind, n, d)
  PROVE  IInv'
<1>0. TypeOK /\ LockInv /\ PlanInv /\ CompareInv /\ CopyInv /\ SelectInv
      /\ DetachedIsRecoverable
  BY DEF IInv
<1>. USE IdleTyped
<1>1. command \in [Commands -> CommandRecord] /\ command[c] \in CommandRecord
  BY <1>0, Typed
<1>2. TypeOK'
  BY <1>0, <1>1, BoundAssumption
  DEF Plan, Plannable, TypeOK, CommandRecord, Steps, Kinds, Config, Selection
<1>3. LockInv'
  BY <1>0, <1>1, NamingAssumption DEF Plan, Plannable, CommandRecord, LockInv
<1>4. PlanInv'
  BY <1>0, <1>1 DEF Plan, Plannable, CommandRecord, PlanInv, Config, Selection
<1>5. CompareInv'
  BY <1>0, <1>1, NamingAssumption
  DEF Plan, Plannable, CommandRecord, CompareInv, LockInv, Config, Selection
<1>6. CopyInv'
  BY <1>0, <1>1 DEF Plan, Plannable, CommandRecord, CopyInv, CompareInv
<1>7. SelectInv'
  BY <1>0, <1>1, NamingAssumption
  DEF Plan, Plannable, CommandRecord, SelectInv, LockInv, CompareInv
<1>8. DetachedIsRecoverable'
  BY <1>0, <1>1 DEF Plan, Plannable, DetachedIsRecoverable
<1>. QED  BY <1>2, <1>3, <1>4, <1>5, <1>6, <1>7, <1>8 DEF IInv

(* The second look after the consent.                                      *)
LEMMA ConfirmKeeps ==
  ASSUME IInv, NEW c \in Commands, Confirm(c)
  PROVE  IInv'
<1>0. TypeOK /\ LockInv /\ PlanInv /\ CompareInv /\ CopyInv /\ SelectInv
      /\ DetachedIsRecoverable
  BY DEF IInv
<1>. USE IdleTyped
<1>1. command \in [Commands -> CommandRecord] /\ command[c] \in CommandRecord
  BY <1>0, Typed
<1>2. TypeOK'
  BY <1>0, <1>1 DEF Confirm, Step, TypeOK, CommandRecord, Steps, Kinds
<1>3. LockInv'
  BY <1>0, <1>1, NamingAssumption DEF Confirm, Step, CommandRecord, LockInv
<1>4. PlanInv'
  BY <1>0, <1>1 DEF Confirm, Step, CommandRecord, PlanInv
<1>5. CompareInv'
  BY <1>0, <1>1, NamingAssumption DEF Confirm, Step, CommandRecord, CompareInv, LockInv
<1>6. CopyInv'
  BY <1>0, <1>1 DEF Confirm, Step, CommandRecord, CopyInv, CompareInv
<1>7. SelectInv'
  BY <1>0, <1>1, NamingAssumption DEF Confirm, Step, CommandRecord, SelectInv, LockInv, CompareInv
<1>8. DetachedIsRecoverable'
  BY <1>0, <1>1 DEF Confirm, Step, DetachedIsRecoverable
<1>. QED  BY <1>2, <1>3, <1>4, <1>5, <1>6, <1>7, <1>8 DEF IInv

(* The lock, taken or not.                                                 *)
LEMMA LockKeeps ==
  ASSUME IInv, NEW c \in Commands, Lock(c)
  PROVE  IInv'
<1>0. TypeOK /\ LockInv /\ PlanInv /\ CompareInv /\ CopyInv /\ SelectInv
      /\ DetachedIsRecoverable
  BY DEF IInv
<1>. USE IdleTyped
<1>1. command \in [Commands -> CommandRecord] /\ command[c] \in CommandRecord
  BY <1>0, Typed
<1>2. TypeOK'
  BY <1>0, <1>1 DEF Lock, Step, TypeOK, CommandRecord, Steps, Kinds
<1>3. LockInv'
  BY <1>0, <1>1, NamingAssumption DEF Lock, Step, CommandRecord, LockInv
<1>4. PlanInv'
  BY <1>0, <1>1 DEF Lock, Step, CommandRecord, PlanInv
<1>5. CompareInv'
  BY <1>0, <1>1, NamingAssumption DEF Lock, Step, CommandRecord, CompareInv, LockInv
<1>6. CopyInv'
  BY <1>0, <1>1 DEF Lock, Step, CommandRecord, CopyInv, CompareInv
<1>7. SelectInv'
  BY <1>0, <1>1, NamingAssumption DEF Lock, Step, CommandRecord, SelectInv, LockInv, CompareInv
<1>8. DetachedIsRecoverable'
  BY <1>0, <1>1 DEF Lock, Step, DetachedIsRecoverable
<1>. QED  BY <1>2, <1>3, <1>4, <1>5, <1>6, <1>7, <1>8 DEF IInv

(* SaveExpected looks at the bytes; Save does not.                         *)
LEMMA CompareKeeps ==
  ASSUME IInv, NEW c \in Commands, Compare(c)
  PROVE  IInv'
<1>0. TypeOK /\ LockInv /\ PlanInv /\ CompareInv /\ CopyInv /\ SelectInv
      /\ DetachedIsRecoverable
  BY DEF IInv
<1>. USE IdleTyped
<1>1. command \in [Commands -> CommandRecord] /\ command[c] \in CommandRecord
  BY <1>0, Typed
<1>2. TypeOK'
  BY <1>0, <1>1 DEF Compare, Step, Leave, ExpectedBytes, TypeOK, CommandRecord, Steps, Kinds
<1>3. LockInv'
  BY <1>0, <1>1, NamingAssumption DEF Compare, Step, Leave, ExpectedBytes, CommandRecord, LockInv
<1>4. PlanInv'
  BY <1>0, <1>1 DEF Compare, Step, Leave, ExpectedBytes, CommandRecord, PlanInv
<1>5. CompareInv'
  BY <1>0, <1>1, NamingAssumption
  DEF Compare, Step, Leave, ExpectedBytes, CommandRecord, CompareInv, LockInv
<1>6. CopyInv'
  BY <1>0, <1>1 DEF Compare, Step, Leave, ExpectedBytes, CommandRecord, CopyInv, CompareInv
<1>7. SelectInv'
  BY <1>0, <1>1, NamingAssumption
  DEF Compare, Step, Leave, ExpectedBytes, CommandRecord, SelectInv, LockInv, CompareInv
<1>8. DetachedIsRecoverable'
  BY <1>0, <1>1 DEF Compare, Step, Leave, ExpectedBytes, DetachedIsRecoverable
<1>. QED  BY <1>2, <1>3, <1>4, <1>5, <1>6, <1>7, <1>8 DEF IInv

(* The recovery copy of a detach.                                          *)
LEMMA PreserveKeeps ==
  ASSUME IInv, NEW c \in Commands, Preserve(c)
  PROVE  IInv'
<1>0. TypeOK /\ LockInv /\ PlanInv /\ CompareInv /\ CopyInv /\ SelectInv
      /\ DetachedIsRecoverable
  BY DEF IInv
<1>. USE IdleTyped
<1>1. command \in [Commands -> CommandRecord] /\ command[c] \in CommandRecord
  BY <1>0, Typed
<1>2. TypeOK'
  <2>1. <<command[c].name, command[c].def>> \in Copy
    BY <1>0, <1>1 DEF Preserve, CommandRecord, Copy, PlanInv, CompareInv
  <2>. QED
    BY <1>0, <1>1, <2>1 DEF Preserve, Step, TypeOK, CommandRecord, Steps, Kinds
<1>3. LockInv'
  BY <1>0, <1>1, NamingAssumption DEF Preserve, Step, CommandRecord, LockInv
<1>4. PlanInv'
  BY <1>0, <1>1 DEF Preserve, Step, CommandRecord, PlanInv
<1>5. CompareInv'
  BY <1>0, <1>1, NamingAssumption DEF Preserve, Step, CommandRecord, CompareInv, LockInv
<1>6. CopyInv'
  BY <1>0, <1>1 DEF Preserve, Step, CommandRecord, CopyInv, CompareInv
<1>7. SelectInv'
  BY <1>0, <1>1, NamingAssumption
  DEF Preserve, Step, CommandRecord, SelectInv, LockInv, CompareInv
<1>8. DetachedIsRecoverable'
  BY <1>0, <1>1 DEF Preserve, Step, DetachedIsRecoverable
<1>. QED  BY <1>2, <1>3, <1>4, <1>5, <1>6, <1>7, <1>8 DEF IInv

(* The selection of a detach.                                              *)
LEMMA SelectKeeps ==
  ASSUME IInv, NEW c \in Commands, Select(c)
  PROVE  IInv'
<1>0. TypeOK /\ LockInv /\ PlanInv /\ CompareInv /\ CopyInv /\ SelectInv
      /\ DetachedIsRecoverable
  BY DEF IInv
<1>. USE IdleTyped
<1>1. command \in [Commands -> CommandRecord] /\ command[c] \in CommandRecord
  BY <1>0, Typed
<1>2. TypeOK'
  <2>1. selection' \in Selection
    BY <1>0, <1>1 DEF Select, Leave, TypeOK, CommandRecord, Selection
  <2>2. command' \in [Commands -> CommandRecord]
    BY <1>1 DEF Select, Leave, Step, CommandRecord, Steps
  <2>. QED
    BY <1>0, <2>1, <2>2 DEF Select, Leave, TypeOK, CommandRecord, Steps, Kinds
<1>3. LockInv'
  BY <1>0, <1>1, NamingAssumption DEF Select, Step, Leave, SameSelection, CommandRecord, LockInv
<1>4. PlanInv'
  BY <1>0, <1>1 DEF Select, Step, Leave, SameSelection, CommandRecord, PlanInv
<1>5. CompareInv'
  BY <1>0, <1>1, NamingAssumption
  DEF Select, Step, Leave, SameSelection, CommandRecord, CompareInv, LockInv
<1>6. CopyInv'
  BY <1>0, <1>1 DEF Select, Step, Leave, SameSelection, CommandRecord, CopyInv, CompareInv
<1>7. SelectInv'
  BY <1>0, <1>1, NamingAssumption
  DEF Select, Step, Leave, SameSelection, CommandRecord, SelectInv, LockInv, CompareInv
<1>8. DetachedIsRecoverable'
  BY <1>0, <1>1 DEF Select, Step, Leave, SameSelection, DetachedIsRecoverable
<1>. QED  BY <1>2, <1>3, <1>4, <1>5, <1>6, <1>7, <1>8 DEF IInv

(* The file is replaced.                                                   *)
LEMMA ReplaceKeeps ==
  ASSUME IInv, NEW c \in Commands, Replace(c)
  PROVE  IInv'
<1>0. TypeOK /\ LockInv /\ PlanInv /\ CompareInv /\ CopyInv /\ SelectInv
      /\ DetachedIsRecoverable
  BY DEF IInv
<1>. USE IdleTyped
<1>1. command \in [Commands -> CommandRecord] /\ command[c] \in CommandRecord
  BY <1>0, Typed
<1>2. TypeOK'
  <2>1. config' \in Config
    BY <1>1 DEF Replace, Desired, CommandRecord, Config
  <2>2. removed' \subseteq Copy
    BY <1>0, <1>1 DEF Replace, TypeOK, PlanInv, CompareInv, CommandRecord, Copy
  <2>3. command' \in [Commands -> CommandRecord]
    BY <1>1 DEF Replace, Leave
  <2>. QED
    BY <1>0, <2>1, <2>2, <2>3 DEF Replace, Leave, TypeOK, CommandRecord, Steps, Kinds
<1>3. LockInv'
  BY <1>0, <1>1, NamingAssumption DEF Replace, Desired, Leave, CommandRecord, LockInv
<1>4. PlanInv'
  BY <1>0, <1>1 DEF Replace, Desired, Leave, CommandRecord, PlanInv
<1>5. CompareInv'
  BY <1>0, <1>1, NamingAssumption DEF Replace, Desired, Leave, CommandRecord, CompareInv, LockInv
<1>6. CopyInv'
  BY <1>0, <1>1 DEF Replace, Desired, Leave, CommandRecord, CopyInv, CompareInv
<1>7. SelectInv'
  BY <1>0, <1>1, NamingAssumption
  DEF Replace, Desired, Leave, CommandRecord, SelectInv, LockInv, CompareInv
<1>8. DetachedIsRecoverable'
  BY <1>0, <1>1
  DEF Replace, Desired, Leave, DetachedIsRecoverable, CopyInv, PlanInv, CompareInv, CommandRecord
<1>. QED  BY <1>2, <1>3, <1>4, <1>5, <1>6, <1>7, <1>8 DEF IInv

(* A command ends early, or its process dies.                              *)
LEMMA StopKeeps ==
  ASSUME IInv, NEW c \in Commands, Stop(c)
  PROVE  IInv'
<1>0. TypeOK /\ LockInv /\ PlanInv /\ CompareInv /\ CopyInv /\ SelectInv
      /\ DetachedIsRecoverable
  BY DEF IInv
<1>. USE IdleTyped
<1>1. command \in [Commands -> CommandRecord] /\ command[c] \in CommandRecord
  BY <1>0, Typed
<1>2. TypeOK'
  BY <1>0, <1>1 DEF Stop, Leave, TypeOK, CommandRecord, Steps, Kinds
<1>3. LockInv'
  BY <1>0, <1>1, NamingAssumption DEF Stop, Leave, CommandRecord, LockInv
<1>4. PlanInv'
  BY <1>0, <1>1 DEF Stop, Leave, CommandRecord, PlanInv
<1>5. CompareInv'
  BY <1>0, <1>1, NamingAssumption DEF Stop, Leave, CommandRecord, CompareInv, LockInv
<1>6. CopyInv'
  BY <1>0, <1>1 DEF Stop, Leave, CommandRecord, CopyInv, CompareInv
<1>7. SelectInv'
  BY <1>0, <1>1, NamingAssumption DEF Stop, Leave, CommandRecord, SelectInv, LockInv, CompareInv
<1>8. DetachedIsRecoverable'
  BY <1>0, <1>1 DEF Stop, Leave, DetachedIsRecoverable
<1>. QED  BY <1>2, <1>3, <1>4, <1>5, <1>6, <1>7, <1>8 DEF IInv

(* Activating a Target needs the lock to be free.                          *)
LEMMA ActivateKeeps ==
  ASSUME IInv, NEW n \in Names \cup {None}, Activate(n)
  PROVE  IInv'
<1>1. command \in [Commands -> CommandRecord]
  BY Typed DEF IInv
<1>2. TypeOK'
  BY BoundAssumption DEF IInv, Activate, TypeOK, Selection
<1>3. LockInv' /\ PlanInv' /\ CompareInv' /\ CopyInv' /\ DetachedIsRecoverable'
  BY DEF IInv, Activate, LockInv, PlanInv, CompareInv, CopyInv, DetachedIsRecoverable
<1>4. SelectInv'
  BY <1>1, NamingAssumption DEF IInv, Activate, LockInv, SelectInv
<1>. QED  BY <1>2, <1>3, <1>4 DEF IInv

-----------------------------------------------------------------------------
(* The initial state has no command, no copy and no Target.                *)
LEMMA InitIInv == Init => IInv
<1>. SUFFICES ASSUME Init PROVE IInv
  OBVIOUS
<1>1. command \in [Commands -> CommandRecord] /\ \A c \in Commands : command[c].step = "idle"
  BY IdleTyped DEF Init
<1>2. TypeOK
  BY <1>1, BoundAssumption DEF Init, TypeOK, Config, Selection, CommandRecord, Steps, Kinds
<1>3. LockInv /\ PlanInv /\ CompareInv /\ CopyInv /\ SelectInv
  BY <1>1 DEF LockInv, PlanInv, CompareInv, CopyInv, SelectInv
<1>4. DetachedIsRecoverable
  BY DEF Init, DetachedIsRecoverable
<1>. QED  BY <1>2, <1>3, <1>4 DEF IInv

(* Every step of every command keeps the inductive invariant.              *)
LEMMA NextIInv == IInv /\ [Next]_vars => IInv'
<1>. SUFFICES ASSUME IInv, [Next]_vars PROVE IInv'
  OBVIOUS
<1>1. ASSUME NEW c \in Commands, Work(c) PROVE IInv'
  BY <1>1, ConfirmKeeps, LockKeeps, CompareKeeps, PreserveKeeps, SelectKeeps, ReplaceKeeps,
     StopKeeps
  DEF Work
<1>2. ASSUME NEW c \in Commands, NEW kind \in Kinds, NEW n \in Names,
             NEW d \in Definitions \cup {None}, Plan(c, kind, n, d)
      PROVE  IInv'
  BY <1>2, PlanKeeps
<1>3. ASSUME NEW n \in Names \cup {None}, Activate(n) PROVE IInv'
  BY <1>3, ActivateKeeps
<1>4. CASE UNCHANGED vars
  BY <1>4 DEF vars, IInv, TypeOK, LockInv, PlanInv, CompareInv, CopyInv, SelectInv,
     DetachedIsRecoverable
<1>. QED  BY <1>1, <1>2, <1>3, <1>4 DEF Next, Kinds

(* The inductive invariant holds of every state of every behaviour.        *)
THEOREM Invariance == Spec => []IInv
<1>. QED  BY InitIInv, NextIInv, PTL DEF Spec

(* The file, the selection, the recovery copies and the commands keep      *)
(* their types.                                                            *)
THEOREM TypeCorrect == Spec => []TypeOK
<1>1. IInv => TypeOK
  BY DEF IInv
<1>. QED  BY <1>1, Invariance, PTL

(* Whatever a detach takes out of the Target file has its recovery copy,   *)
(* for every number of commands planning, writing and dying beside it      *)
(* (writeTargetRecoveryOwner before saveAt).                               *)
THEOREM Recoverable == Spec => []DetachedIsRecoverable
<1>1. IInv => DetachedIsRecoverable
  BY DEF IInv
<1>. QED  BY <1>1, Invariance, PTL

-----------------------------------------------------------------------------
(* A command that is past its plan changes its step only by its own work.  *)
LEMMA OwnStep ==
  ASSUME IInv, [Next]_vars, NEW c \in Commands,
         command[c].step # "idle", command'[c].step # command[c].step
  PROVE  Work(c)
<1>1. command \in [Commands -> CommandRecord]
  BY Typed DEF IInv
<1>2. ASSUME NEW o \in Commands, Work(o), o # c PROVE FALSE
  BY <1>1, <1>2 DEF Work, Confirm, Lock, Compare, Preserve, Select, Replace, Stop, Step, Leave
<1>3. ASSUME NEW o \in Commands, NEW kind \in Kinds, NEW n \in Names,
             NEW d \in Definitions \cup {None}, Plan(o, kind, n, d)
      PROVE  FALSE
  BY <1>1, <1>3 DEF Plan
<1>4. ASSUME NEW n \in Names \cup {None}, Activate(n) PROVE FALSE
  BY <1>4 DEF Activate
<1>. QED  BY <1>2, <1>3, <1>4 DEF Next, Kinds, vars

(* Replacing the file of a command that compared leaves every other        *)
(* Target's entry alone and never overwrites a definition by creating.     *)
LEMMA ReplaceOwn ==
  ASSUME IInv, NEW c \in Commands, Replace(c), command[c].kind \notin {"save", "rollback"}
  PROVE  /\ \A o \in Names \ {command[c].name} : config'.targets[o] = config.targets[o]
         /\ command[c].kind \in {"create", "restore"} => config.targets[command[c].name] = None
<1>1. command[c] \in CommandRecord /\ config \in Config
  BY Typed DEF IInv, TypeOK
<1>2. config = command[c].plan
  BY DEF IInv, CompareInv, Replace
<1>3. \A o \in Names \ {command[c].name} : config'.targets[o] = config.targets[o]
  BY <1>1, <1>2 DEF Replace, Desired, CommandRecord, Config
<1>4. command[c].kind \in {"create", "restore"} => config.targets[command[c].name] = None
  BY <1>2 DEF IInv, PlanInv, Replace
<1>. QED  BY <1>3, <1>4

(* A command that compares changes its own Target's entry and nothing      *)
(* else, though it writes the whole file from a copy read minutes earlier  *)
(* (SaveExpected), whatever the commands that compare nothing do.          *)
THEOREM Preserved == Spec => OthersPreserved
<1>1. ASSUME IInv, [Next]_vars, NEW c \in Commands,
             command[c].step = "replace", command'[c].step = "idle",
             command[c].kind \notin {"save", "rollback"}
      PROVE  /\ \A o \in Names \ {command[c].name} : config'.targets[o] = config.targets[o]
             /\ command[c].kind \in {"create", "restore"} /\ config' # config
                  => config.targets[command[c].name] = None
  <2>1. Work(c)
    BY <1>1, OwnStep
  <2>2. CASE Replace(c)
    BY <1>1, <2>2, ReplaceOwn
  <2>3. CASE ~Replace(c)
    BY <1>1, <2>1, <2>3 DEF Work, Confirm, Lock, Compare, Preserve, Select, Stop
  <2>. QED  BY <2>2, <2>3
<1>2. IInv /\ [Next]_vars =>
        [\A c \in Commands :
           LET n == command[c].name
               k == command[c].kind IN
           /\ command[c].step = "replace" /\ command'[c].step = "idle"
           /\ k \notin {"save", "rollback"}
           => /\ \A o \in Names \ {n} : config'.targets[o] = config.targets[o]
              /\ k \in {"create", "restore"} /\ config' # config => config.targets[n] = None]_vars
  BY <1>1
<1>. QED  BY <1>2, Invariance, PTL DEF Spec, OthersPreserved

-----------------------------------------------------------------------------
(* A blocked selection resolves to a failure.                              *)
LEMMA BlockedFails ==
  ASSUME NEW cfg \in Config, NEW n \in Names
  PROVE  selectedTargetName(cfg, <<Detached, n>>) = Failure
BY NamingAssumption DEF selectedTargetName

(* Taking a Target out of the file changes nothing for a selection that    *)
(* did not mean it.                                                        *)
LEMMA UnblockedStays ==
  ASSUME NEW cfg \in Config, NEW new \in Config, NEW sel \in Selection, NEW n \in Names,
         ~SelectionBlocked(cfg, sel, n),
         \A o \in Names \ {n} : new.targets[o] = cfg.targets[o],
         new.default = IF cfg.default = n THEN None ELSE cfg.default
  PROVE  selectedTargetName(new, sel) = selectedTargetName(cfg, sel)
<1>1. CASE sel \in Names
  <2>1. sel # n /\ sel # None
    BY <1>1, NamingAssumption DEF SelectionBlocked
  <2>. QED  BY <1>1, <2>1 DEF selectedTargetName
<1>2. CASE sel = None
  <2>1. cfg.default # None /\ new.default = cfg.default
    BY <1>2 DEF SelectionBlocked
  <2>. QED  BY <1>2, <2>1, NamingAssumption DEF selectedTargetName
<1>3. CASE sel \notin Names /\ sel # None
  BY <1>3 DEF selectedTargetName
<1>. QED  BY <1>1, <1>2, <1>3

(* Detaching never moves commands on to another Target: at each of its     *)
(* steps (prepareSelection before saveAt) what they resolve to stays or    *)
(* becomes a failure, whatever else is planned, activated or dies.         *)
THEOREM NoHandoff == Spec => NoSilentHandoff
<1>1. ASSUME IInv, [Next]_vars, NEW c \in Commands, command[c].kind = "detach",
             command[c].step \in {"select", "replace"}, command'[c].step # command[c].step
      PROVE  selectedTargetName(config', selection')
               \in {selectedTargetName(config, selection), Failure}
  <2>1. Work(c)
    BY <1>1, OwnStep
  <2>2. /\ command[c] \in CommandRecord /\ config \in Config /\ selection \in Selection
        /\ config' \in Config /\ command[c].name \in Names
    BY <1>1, Typed, NextIInv DEF IInv, TypeOK, CommandRecord
  <2>3. CASE Select(c)
    <3>1. config' = config
          /\ (selection' = selection \/ selection' = <<Detached, command[c].name>>)
      BY <2>3 DEF Select
    <3>. QED  BY <2>2, <3>1, BlockedFails
  <2>4. CASE Replace(c)
    <3>1. selection' = selection /\ config = command[c].plan
      BY <1>1, <2>4 DEF Replace, IInv, CompareInv
    <3>2. CASE selection = <<Detached, command[c].name>>
      BY <2>2, <3>1, <3>2, BlockedFails
    <3>3. CASE ~SelectionBlocked(config, selection, command[c].name)
      <4>1. \A o \in Names \ {command[c].name} : config'.targets[o] = config.targets[o]
        BY <1>1, <2>4, ReplaceOwn
      <4>2. config'.default = IF config.default = command[c].name THEN None ELSE config.default
        BY <1>1, <2>4, <3>1 DEF Replace, Desired
      <4>. QED  BY <2>2, <3>1, <3>3, <4>1, <4>2, UnblockedStays
    <3>. QED  BY <1>1, <2>4, <3>1, <3>2, <3>3 DEF IInv, SelectInv, Replace
  <2>5. CASE ~Select(c) /\ ~Replace(c)
    BY <2>1, <2>5 DEF Work, Confirm, Lock, Compare, Preserve, Stop
  <2>. QED  BY <2>3, <2>4, <2>5
<1>2. IInv /\ [Next]_vars =>
        [\A c \in Commands :
           command[c].kind = "detach" /\ command[c].step \in {"select", "replace"}
           /\ command'[c].step # command[c].step
           => selectedTargetName(config', selection')
                \in {selectedTargetName(config, selection), Failure}]_vars
  BY <1>1
<1>. QED  BY <1>2, Invariance, PTL DEF Spec, NoSilentHandoff

-----------------------------------------------------------------------------
(* ApplicationRecovery *)

Contents == UNION {[D -> Stamps] : D \in SUBSET Declared}

BackupType ==
  [pc : BackupSteps \cup {"idle", "end", "dead"}, sel : SUBSET Declared, got : Contents,
   before : Contents, stopped : SUBSET Parts, calm : BOOLEAN,
   flight : BOOLEAN]

CmdType ==
  [kind : {"none", "restore", "apply"}, pc : RestoreSteps \cup {"end"}, of : Backups \cup {"none"},
   done : SUBSET Declared, calm : BOOLEAN, flight : BOOLEAN]

TypeInv ==
  /\ up \subseteq Parts /\ operation \in {"none", "journaled", "sent"}
  /\ data \in [Declared -> Stamps] /\ clock \in 1..MaxWrites
  /\ {files, brokerFiles, registered, scope} \subseteq BOOLEAN
  /\ backup \in [Backups -> BackupType]
  /\ archive \in [Backups -> {"none", "torn", "whole"}]
  /\ cmd \in CmdType /\ interrupted \in Backups \cup {"none"} /\ breaks \in Nat

(* A backup: unless it is disturbed, only an operation the executor had in *)
(* hand changes anything, and only buckets, between its stop of the broker *)
(* and its last capture; and only a complete capture is archived.          *)
BackupAt(b) ==
  /\ DOMAIN backup[b].got \subseteq backup[b].sel
  /\ backup[b].pc \in {"idle"} \cup StopSteps => backup[b].got = <<>>
  /\ backup[b].calm /\ backup[b].pc \in {"stop broker", "capture"} => "workload" \notin up
  /\ backup[b].calm /\ backup[b].pc = "capture" =>
       /\ "broker" \notin up /\ (operation = "sent" => backup[b].flight)
       /\ \A c \in Declared : \/ backup[b].before[c] = data[c]
                              \/ c = "objects" /\ backup[b].flight
  /\ backup[b].calm /\ backup[b].pc \in {"capture", "write"} =>
       \A c \in DOMAIN backup[b].got : \/ backup[b].got[c] = backup[b].before[c]
                                       \/ c = "objects" /\ backup[b].flight
  /\ backup[b].pc = "write" \/ archive[b] = "whole" =>
       DOMAIN backup[b].got = backup[b].sel /\ backup[b].sel # {}
  /\ archive[b] = "whole" => backup[b].pc \in StartSteps \cup {"end", "dead"}

(* The command that holds the lock, and the archive it restores.           *)
CmdInv ==
  /\ cmd.kind = "none" => cmd = NoCommand
  /\ cmd.kind = "apply" => cmd.pc \in ApplySteps
  /\ cmd.kind = "restore" => /\ cmd.pc # "end" /\ cmd.of \in Backups
                             /\ archive[cmd.of] = "whole"
                             /\ cmd.done \subseteq backup[cmd.of].sel
                             /\ cmd.done # backup[cmd.of].sel
  /\ cmd.pc # "data" => cmd.done = {}

(* Without an entry there is no database and without a scope no secret; a  *)
(* deployment is taken apart and built in order.                           *)
DeploymentInv ==
  /\ ~registered => data["sql"] = Gone
  /\ ~scope => data["secrets"] = Empty
  /\ ~files => ~registered /\ ~scope
  /\ cmd.pc \in {"register", "scope", "data", "verify"} \cup StartSteps => files
  /\ cmd.pc \in {"unscope", "delete"} => ~registered
  /\ cmd.pc = "delete" => ~scope
  /\ cmd.kind = "restore" /\ cmd.pc = "files" => ~files
  /\ operation # "none" => "objects" \in Declared

(* A restore nobody disturbs: the workload is stopped, no operation is left*)
(* to be carried out unless the broker found one, and what the reset erased*)
(* is empty until it is written.                                           *)
RestoreInv ==
  cmd.kind = "restore" /\ cmd.calm =>
    /\ cmd.pc \notin {"stop exposure", "stop workload", "start exposure", "verify"}
          => "workload" \notin up
    /\ cmd.pc \in BuildSteps \cup {"start broker"} => data["secrets"] = Empty
    /\ cmd.pc \in {"files", "register"} => data["sql"] = Gone
    /\ cmd.pc \in {"scope", "start broker"} => data["sql"] = Empty
    /\ cmd.pc \in {"data", "start workload"} /\ operation # "none" => cmd.flight
    /\ cmd.pc = "data" =>
          /\ \A c \in cmd.done : data[c] = Content[c] \/ (c = "objects" /\ cmd.flight)
          /\ \A c \in Erased \ cmd.done : data[c] = Empty
    /\ cmd.pc = "start workload" =>
          /\ \A c \in Selected : data[c] = Content[c] \/ (c = "objects" /\ cmd.flight)
          /\ \A c \in Erased \ Selected : data[c] = Empty

(* The steps up to the one that starts a part.                             *)
Ahead(p) ==
  (RestoreSteps \cup BackupSteps) \
    ({"verify"} \cup (IF p = "exposure" THEN {} ELSE {"start exposure"})
                \cup (IF p = "broker" THEN {"data", "start workload"} ELSE {}))

(* While nothing failed, whoever stopped a part is going to start it.      *)
ServiceInv ==
  breaks = 0 /\ interrupted = "none" =>
    /\ \A p \in Parts \ up :
         \/ cmd.pc \in Ahead(p)
         \/ \E b \in Backups : p \in backup[b].stopped /\ backup[b].pc \in Ahead(p)
    /\ ~files => cmd.kind = "restore" /\ cmd.pc = "files"

AppIInv ==
  /\ TypeInv /\ (\A b \in Backups : BackupAt(b))
  /\ CmdInv /\ DeploymentInv /\ RestoreInv /\ ServiceInv

-----------------------------------------------------------------------------
(* Constants and records *)

(* An archive that holds nothing yet.                                      *)
LEMMA EmptyContent == <<>> \in Contents /\ DOMAIN <<>> = {}
<1>1. <<>> \in [{} -> Stamps]
  OBVIOUS
<1>. QED  BY <1>1 DEF Contents

(* The declared classes, the database and the secrets among them.          *)
LEMMA ClassesDeclared ==
  /\ Declared \subseteq {"sql", "secrets", "objects", "storage"}
  /\ "sql" \in Declared /\ "secrets" \in Declared /\ Erased \subseteq Declared
<1>1. Classes = [i \in 1..4 |-> CASE i = 1 -> "sql" [] i = 2 -> "secrets"
                                  [] i = 3 -> "objects" [] i = 4 -> "storage"]
  BY DEF Classes
<1>2. Range(Classes) = {"sql", "secrets", "objects", "storage"}
  BY <1>1 DEF Range
<1>. QED  BY <1>2, ConstantsOK DEF Erased

(* The class that is captured or restored next is one of those left.       *)
LEMMA NextIsLeft ==
  ASSUME NEW S, S \subseteq Declared, S # {}
  PROVE  Classes[NextClass(S)] \in S
<1>1. /\ Len(Classes) = 4 /\ Classes[1] = "sql" /\ Classes[2] = "secrets"
      /\ Classes[3] = "objects" /\ Classes[4] = "storage"
  BY DEF Classes
<1>. DEFINE I == {i \in 1..4 : Classes[i] \in S}
<1>2. 1 \in I \/ 2 \in I \/ 3 \in I \/ 4 \in I
  <2>1. "sql" \in S \/ "secrets" \in S \/ "objects" \in S \/ "storage" \in S
    BY ClassesDeclared
  <2>. QED  BY <1>1, <2>1
<1>3. \E x \in I : \A y \in I : x =< y
  <2>1. CASE 1 \in I
    BY <2>1
  <2>2. CASE 1 \notin I /\ 2 \in I
    BY <2>2
  <2>3. CASE 1 \notin I /\ 2 \notin I /\ 3 \in I
    BY <2>3
  <2>4. CASE 1 \notin I /\ 2 \notin I /\ 3 \notin I
    BY <2>4, <1>2
  <2>. QED  BY <2>1, <2>2, <2>3, <2>4
<1>4. NextClass(S) = Min(I)
  BY <1>1, <1>2 DEF NextClass, SelectInSeq
<1>. QED  BY <1>3, <1>4 DEF Min

(* The command of a free lock.                                             *)
LEMMA NoCommandType ==
  /\ NoCommand \in CmdType
  /\ NoCommand.kind = "none" /\ NoCommand.pc = "end" /\ NoCommand.done = {} /\ NoCommand.calm
  /\ NoCommand.of = "none" /\ ~NoCommand.flight
BY DEF NoCommand, CmdType

(* Nothing is started before the broker.                                   *)
LEMMA AllAhead ==
  ASSUME NEW p \in Parts
  PROVE  ResetSteps \cup BuildSteps \cup {"capture", "write", "start broker"} \subseteq Ahead(p)
BY DEF Ahead, RestoreSteps, BackupSteps, ResetSteps, ApplySteps, StopSteps, StartSteps, BuildSteps

(* The types of one backup's state.                                        *)
LEMMA BackupTypes ==
  ASSUME TypeInv, NEW b \in Backups
  PROVE  /\ backup[b] \in BackupType /\ backup[b].pc \in BackupSteps \cup {"idle", "end", "dead"}
         /\ backup[b].sel \subseteq Declared /\ backup[b].got \in Contents
         /\ backup[b].before \in Contents /\ backup[b].stopped \subseteq Parts
         /\ backup[b].calm \in BOOLEAN /\ backup[b].flight \in BOOLEAN
BY DEF TypeInv, BackupType

(* The types of the command's state.                                       *)
LEMMA CmdTypes ==
  ASSUME TypeInv
  PROVE  /\ cmd.kind \in {"none", "restore", "apply"} /\ cmd.pc \in RestoreSteps \cup {"end"}
         /\ cmd.of \in Backups \cup {"none"} /\ cmd.done \subseteq Declared /\ cmd.calm \in BOOLEAN
         /\ cmd.flight \in BOOLEAN
BY DEF TypeInv, CmdType

(* Disturbing a backup is noted, and keeps what it holds.                  *)
LEMMA DisturbedSame ==
  ASSUME TypeInv, NEW S
  PROVE  /\ Disturbed(S) \in [Backups -> BackupType]
         /\ \A b \in Backups :
              /\ Disturbed(S)[b].pc = backup[b].pc /\ Disturbed(S)[b].sel = backup[b].sel
              /\ Disturbed(S)[b].got = backup[b].got
              /\ Disturbed(S)[b].stopped = backup[b].stopped
              /\ Disturbed(S)[b].calm => /\ backup[b].calm /\ (b \in S => ~Quiet(b))
                                        /\ Disturbed(S)[b] = backup[b]
<1>1. ASSUME NEW b \in Backups
      PROVE  /\ Disturbed(S)[b] \in BackupType
             /\ Disturbed(S)[b].pc = backup[b].pc /\ Disturbed(S)[b].sel = backup[b].sel
             /\ Disturbed(S)[b].got = backup[b].got
             /\ Disturbed(S)[b].stopped = backup[b].stopped
             /\ Disturbed(S)[b].calm => /\ backup[b].calm /\ (b \in S => ~Quiet(b))
                                       /\ Disturbed(S)[b] = backup[b]
  <2>1. backup[b] \in BackupType
    BY BackupTypes
  <2>2. Disturbed(S)[b] = IF b \in S /\ Quiet(b)
                          THEN [backup[b] EXCEPT !.calm = FALSE, !.before = <<>>, !.flight = FALSE]
                          ELSE backup[b]
    BY DEF Disturbed
  <2>3. CASE b \in S /\ Quiet(b)
    <3>. DEFINE d == [backup[b] EXCEPT !.calm = FALSE, !.before = <<>>, !.flight = FALSE]
    <3>1. d \in BackupType
      BY <2>1, EmptyContent DEF BackupType
    <3>2. /\ d.pc = backup[b].pc /\ d.sel = backup[b].sel /\ d.got = backup[b].got
          /\ d.stopped = backup[b].stopped /\ ~d.calm
      BY <2>1 DEF BackupType
    <3>. QED  BY <2>2, <2>3, <3>1, <3>2
  <2>4. CASE ~(b \in S /\ Quiet(b))
    BY <2>1, <2>2, <2>4
  <2>. QED  BY <2>3, <2>4
<1>. QED  BY <1>1 DEF Disturbed

(* A backup that is over keeps what a whole archive holds.                 *)
LEMMA Forgotten ==
  ASSUME TypeInv, NEW b \in Backups, NEW whole \in BOOLEAN,
         NEW pc \in BackupSteps \cup {"idle", "end", "dead"}
  PROVE  /\ Forget(b, whole, pc) \in BackupType
         /\ Forget(b, whole, pc).pc = pc /\ Forget(b, whole, pc).calm
         /\ Forget(b, whole, pc).sel = IF whole THEN backup[b].sel ELSE {}
         /\ Forget(b, whole, pc).got = IF whole THEN backup[b].got ELSE <<>>
         /\ Forget(b, whole, pc).stopped = IF pc = "start broker" THEN backup[b].stopped ELSE {}
BY BackupTypes, EmptyContent DEF Forget, BackupType

-----------------------------------------------------------------------------
(* What a step leaves alone *)

(* A step starts no part, and where the workload is stopped changes at most*)
(* what the executor has in hand; a stopped broker hands it nothing more.  *)
Steady ==
  /\ up' \subseteq up
  /\ "workload" \in up \/ \A c \in Declared : \/ data'[c] = data[c]
                                              \/ c = "objects" /\ operation = "sent"
  /\ operation' # "none" => operation # "none" \/ "workload" \in up
  /\ operation' = "sent" => operation = "sent" \/ "broker" \in up

(* A backup that does not move keeps its invariant while nobody starts the *)
(* workload or writes behind a stopped one.                                *)
LEMMA BackupFrame ==
  ASSUME NEW b \in Backups, BackupAt(b), Steady,
         backup'[b] = backup[b], archive'[b] = archive[b]
  PROVE  BackupAt(b)'
BY DEF BackupAt, Steady

(* A disturbed backup keeps what is promised of it.                        *)
LEMMA DisturbedFrame ==
  ASSUME TypeInv, NEW b \in Backups, BackupAt(b), NEW S, b \in S,
         backup'[b] = Disturbed(S)[b], archive'[b] = archive[b]
  PROVE  BackupAt(b)'
<1>1. /\ backup'[b].pc = backup[b].pc /\ backup'[b].sel = backup[b].sel
      /\ backup'[b].got = backup[b].got
      /\ backup'[b].calm => backup[b].calm /\ ~Quiet(b) /\ backup'[b] = backup[b]
  BY DisturbedSame
<1>. QED  BY <1>1 DEF BackupAt, Quiet, StopSteps

(* So does a restore whose archive stays as it is.                         *)
LEMMA RestoreFrame ==
  ASSUME AppIInv, Steady, cmd' = cmd,
         \A b \in Backups : archive[b] = "whole" =>
            backup'[b].sel = backup[b].sel /\ backup'[b].got = backup[b].got
  PROVE  RestoreInv'
<1>1. ASSUME cmd.kind = "restore" PROVE Selected' = Selected /\ Content' = Content
  BY <1>1 DEF AppIInv, CmdInv, Selected, Content
<1>. SUFFICES ASSUME cmd.kind = "restore", cmd.calm PROVE RestoreInv'
  BY DEF RestoreInv
<1>2. /\ "sql" \in Declared /\ "secrets" \in Declared /\ Erased = {"sql", "secrets"}
      /\ Selected \subseteq Declared /\ cmd.done \subseteq Declared
  BY ClassesDeclared, BackupTypes, CmdTypes DEF AppIInv, CmdInv, Selected, Erased
<1>3. CASE cmd.pc \in {"stop exposure", "stop workload", "start exposure", "verify"}
  BY <1>3 DEF RestoreInv, BuildSteps
<1>4. CASE cmd.pc \notin {"stop exposure", "stop workload", "start exposure", "verify"}
  <2>1. /\ "workload" \notin up /\ "workload" \notin up'
        /\ \A c \in Declared : data'[c] = data[c] \/ (c = "objects" /\ operation = "sent")
        /\ operation' # "none" => operation # "none"
    BY <1>4 DEF AppIInv, RestoreInv, Steady
  <2>2. data'["sql"] = data["sql"] /\ data'["secrets"] = data["secrets"]
    BY <1>2, <2>1
  <2>3. RestoreInv
    BY DEF AppIInv
  <2>4. CASE cmd.pc = "data"
    BY <1>1, <1>2, <2>1, <2>2, <2>3, <2>4 DEF RestoreInv, BuildSteps
  <2>5. CASE cmd.pc = "start workload"
    BY <1>1, <1>2, <2>1, <2>2, <2>3, <2>5 DEF RestoreInv, BuildSteps
  <2>6. CASE cmd.pc \notin {"data", "start workload"}
    BY <2>1, <2>2, <2>3, <2>6 DEF RestoreInv
  <2>. QED  BY <2>4, <2>5, <2>6
<1>. QED  BY <1>3, <1>4


-----------------------------------------------------------------------------
(* The application at work *)

(* A write needs a running workload, so no undisturbed capture or restore  *)
(* is under way.                                                           *)
LEMMA WriteKeeps ==
  ASSUME AppIInv, NEW c \in Declared, Write(c)
  PROVE  AppIInv'
<1>1. /\ UNCHANGED <<up, operation, files, brokerFiles, registered, scope, backup, archive, cmd,
                     interrupted, breaks>>
      /\ "workload" \in up /\ (c = "sql" => registered) /\ (c = "secrets" => scope)
      /\ clock < MaxWrites /\ clock' = clock + 1 /\ data' = [data EXCEPT ![c] = clock + 1]
  BY DEF Write, Available, deployment
<1>2. TypeInv'
  BY <1>1, ConstantsOK DEF AppIInv, TypeInv, Stamps
<1>3. Steady
  BY <1>1 DEF Steady
<1>4. \A b \in Backups : BackupAt(b)'
  BY <1>1, <1>3, BackupFrame DEF AppIInv
<1>5. CmdInv' /\ ServiceInv'
  BY <1>1 DEF AppIInv, CmdInv, ServiceInv
<1>6. DeploymentInv'
  BY <1>1, ClassesDeclared DEF AppIInv, TypeInv, DeploymentInv
<1>7. RestoreInv'
  BY <1>1, <1>3, RestoreFrame
<1>. QED  BY <1>2, <1>4, <1>5, <1>6, <1>7 DEF AppIInv

(* The broker journals an operation of a running workload only, and hands  *)
(* it over only while it runs itself.                                      *)
LEMMA SubmitKeeps ==
  ASSUME AppIInv, Submit \/ Dispatch
  PROVE  AppIInv'
<1>1. /\ UNCHANGED <<up, data, clock, files, brokerFiles, registered, scope, backup, archive, cmd,
                     interrupted, breaks>>
      /\ operation' \in {"journaled", "sent"} /\ "broker" \in up
      /\ operation = "none" => "workload" \in up /\ "objects" \in Declared
  BY DEF Submit, Dispatch, deployment
<1>2. TypeInv'
  BY <1>1 DEF AppIInv, TypeInv
<1>3. Steady
  BY <1>1 DEF Steady
<1>4. \A b \in Backups : BackupAt(b)'
  BY <1>1, <1>3, BackupFrame DEF AppIInv
<1>5. CmdInv' /\ ServiceInv' /\ DeploymentInv'
  BY <1>1 DEF AppIInv, CmdInv, ServiceInv, DeploymentInv
<1>6. RestoreInv'
  BY <1>1, <1>3, RestoreFrame
<1>. QED  BY <1>2, <1>4, <1>5, <1>6 DEF AppIInv

(* The executor changes the buckets alone, and only while it has an        *)
(* operation in hand.                                                      *)
LEMMA ExecuteKeeps ==
  ASSUME AppIInv, Execute
  PROVE  AppIInv'
<1>1. /\ UNCHANGED <<up, files, brokerFiles, registered, scope, backup, archive, cmd,
                     interrupted, breaks>>
      /\ operation = "sent" /\ operation' \in {"none", "journaled"}
  BY DEF Execute, deployment
<1>2. "objects" \in Declared
  BY <1>1 DEF AppIInv, DeploymentInv
<1>3. /\ data' \in [Declared -> Stamps] /\ clock' \in 1..MaxWrites
      /\ \A c \in Declared : data'[c] = data[c] \/ c = "objects"
  <2>1. data \in [Declared -> Stamps] /\ clock \in 1..MaxWrites
    BY DEF AppIInv, TypeInv
  <2>2. CASE clock < MaxWrites /\ clock' = clock + 1 /\ data' = [data EXCEPT !["objects"] = clock + 1]
    <3>1. clock + 1 \in Stamps /\ clock + 1 \in 1..MaxWrites
      BY <2>1, <2>2, ConstantsOK DEF Stamps
    <3>. QED  BY <1>2, <2>1, <2>2, <3>1
  <2>3. CASE UNCHANGED <<data, clock>>
    BY <2>1, <2>3
  <2>. QED  BY <2>2, <2>3 DEF Execute
<1>4. TypeInv'
  BY <1>1, <1>3 DEF AppIInv, TypeInv
<1>5. Steady
  BY <1>1, <1>3 DEF Steady
<1>6. \A b \in Backups : BackupAt(b)'
  BY <1>1, <1>5, BackupFrame DEF AppIInv
<1>7. CmdInv' /\ ServiceInv'
  BY <1>1 DEF AppIInv, CmdInv, ServiceInv
<1>8. DeploymentInv'
  BY <1>1, <1>2, <1>3, ClassesDeclared DEF AppIInv, DeploymentInv
<1>9. RestoreInv'
  BY <1>1, <1>5, RestoreFrame
<1>. QED  BY <1>4, <1>6, <1>7, <1>8, <1>9 DEF AppIInv

-----------------------------------------------------------------------------
(* Backups *)

(* A step of one backup that starts nothing and writes no data.            *)
LEMMA BackupOnly ==
  ASSUME AppIInv, NEW b \in Backups,
         UNCHANGED <<data, clock, files, registered, scope, interrupted, brokerFiles, cmd>>,
         up' \subseteq up, operation' = operation,
         NEW r \in BackupType, backup' = [backup EXCEPT ![b] = r],
         archive' \in [Backups -> {"none", "torn", "whole"}],
         \A j \in Backups \ {b} : archive'[j] = archive[j],
         archive[b] = "whole" =>
            archive'[b] = "whole" /\ r.sel = backup[b].sel /\ r.got = backup[b].got,
         BackupAt(b)', breaks' \in Nat, ServiceInv'
  PROVE  AppIInv'
<1>1. TypeInv'
  BY DEF AppIInv, TypeInv
<1>2. Steady
  BY DEF Steady
<1>3. \A j \in Backups : BackupAt(j)'
  <2>1. ASSUME NEW j \in Backups, j # b PROVE BackupAt(j)'
    <3>1. backup'[j] = backup[j] /\ archive'[j] = archive[j] /\ BackupAt(j)
      BY <2>1 DEF AppIInv, TypeInv
    <3>. QED  BY <1>2, <3>1, BackupFrame
  <2>. QED  BY <2>1
<1>4. \A j \in Backups : archive[j] = "whole" =>
        /\ archive'[j] = "whole"
        /\ backup'[j].sel = backup[j].sel /\ backup'[j].got = backup[j].got
  BY DEF AppIInv, TypeInv
<1>5. CmdInv'
  BY <1>4 DEF AppIInv, CmdInv
<1>6. DeploymentInv'
  BY DEF AppIInv, DeploymentInv
<1>7. RestoreInv'
  BY <1>2, <1>4, RestoreFrame
<1>. QED  BY <1>1, <1>3, <1>5, <1>6, <1>7 DEF AppIInv

(* Whoever is to start a part goes on being there.                         *)
LEMMA StillOwed ==
  ASSUME TypeInv, ServiceInv, NEW b \in Backups, NEW r, backup' = [backup EXCEPT ![b] = r],
         UNCHANGED <<files, cmd, interrupted>>, breaks' = 0 => breaks = 0,
         \A p \in Parts \ up' : p \in up => p \in r.stopped /\ r.pc \in Ahead(p),
         \A p \in Parts \ up' : p \in backup[b].stopped /\ backup[b].pc \in Ahead(p)
                                  => p \in r.stopped /\ r.pc \in Ahead(p)
  PROVE  ServiceInv'
<1>. SUFFICES ASSUME breaks' = 0, interrupted = "none", NEW p \in Parts, p \notin up'
              PROVE  \/ cmd.pc \in Ahead(p)
                     \/ \E j \in Backups : p \in backup'[j].stopped /\ backup'[j].pc \in Ahead(p)
  BY DEF ServiceInv, Ahead
<1>1. CASE p \in up
  BY <1>1 DEF TypeInv
<1>2. CASE p \notin up
  <2>1. \/ cmd.pc \in Ahead(p)
        \/ \E j \in Backups : p \in backup[j].stopped /\ backup[j].pc \in Ahead(p)
    BY <1>2 DEF ServiceInv
  <2>2. ASSUME NEW j \in Backups, p \in backup[j].stopped, backup[j].pc \in Ahead(p)
        PROVE  p \in backup'[j].stopped /\ backup'[j].pc \in Ahead(p)
    BY <2>2 DEF TypeInv
  <2>. QED  BY <2>1, <2>2
<1>. QED  BY <1>1, <1>2

(* A backup begins with every part ahead of it.                            *)
LEMMA BeginBackupKeeps ==
  ASSUME AppIInv, NEW b \in Backups, NEW S \in Selections[b], BeginBackup(b, S)
  PROVE  AppIInv'
<1>. DEFINE r == [backup[b] EXCEPT !.pc = "stop exposure", !.sel = S]
<1>1. /\ UNCHANGED <<up, operation, data, clock, files, brokerFiles, registered, scope, archive,
                     cmd,
                     interrupted, breaks>>
      /\ backup[b].pc = "idle" /\ backup' = [backup EXCEPT ![b] = r]
  BY DEF BeginBackup, BackupIdle, Stays
<1>2. S \subseteq Declared
  BY ConstantsOK
<1>3. TypeInv /\ backup[b] \in BackupType /\ BackupAt(b)
  BY BackupTypes DEF AppIInv
<1>4. /\ r \in BackupType /\ r.pc = "stop exposure" /\ r.sel = S /\ r.got = backup[b].got
      /\ r.stopped = backup[b].stopped
  BY <1>2, <1>3 DEF BackupType, BackupSteps, StopSteps
<1>. HIDE DEF r
<1>5. backup'[b] = r
  BY <1>1, <1>3 DEF TypeInv
<1>6. archive[b] # "whole" /\ r.got = <<>>
  BY <1>1, <1>3, <1>4 DEF BackupAt, StartSteps
<1>7. BackupAt(b)'
  BY <1>1, <1>4, <1>5, <1>6, EmptyContent DEF BackupAt
<1>8. ServiceInv'
  <2>1. \A p \in Parts : r.pc \in Ahead(p)
    BY <1>4, AllAhead DEF ResetSteps, StopSteps
  <2>. QED  BY <1>1, <1>3, <1>4, <2>1, StillOwed DEF AppIInv
<1>. QED  BY <1>1, <1>3, <1>4, <1>6, <1>7, <1>8, BackupOnly DEF AppIInv, TypeInv, DeploymentInv


(* A part that a backup stops is noted, and its start is ahead; the        *)
(* workload goes before the broker and its operations.                     *)
LEMMA StopWriterKeeps ==
  ASSUME AppIInv, NEW b \in Backups, StopWriter(b)
  PROVE  AppIInv'
<1>. DEFINE p == PartOf(backup[b].pc)
            last == p = "broker" /\ backup[b].calm
<1>1. /\ UNCHANGED <<data, clock, files, brokerFiles, registered, scope, archive, cmd,
                     interrupted,
                     breaks>>
      /\ backup[b].pc \in StopSteps /\ up' = up \ {p} /\ operation' = operation
  BY DEF StopWriter, BackupIdle, Halt
<1>2. PICK noted \in Noted(p) :
        backup' = [backup EXCEPT ![b] =
            [backup[b] EXCEPT !.pc = After("backup", backup[b].pc),
                              !.stopped = backup[b].stopped \cup noted,
                              !.before = IF last THEN data ELSE <<>>,
                              !.flight = last /\ operation = "sent"]]
  BY DEF StopWriter
<1>. DEFINE r == [backup[b] EXCEPT !.pc = After("backup", backup[b].pc),
                                   !.stopped = backup[b].stopped \cup noted,
                                   !.before = IF last THEN data ELSE <<>>,
                                   !.flight = last /\ operation = "sent"]
<1>3. TypeInv /\ backup[b] \in BackupType /\ BackupAt(b)
  BY BackupTypes DEF AppIInv
<1>4. /\ backup[b].pc = "stop exposure" => p = "exposure" /\ After("backup", backup[b].pc) = "stop workload"
      /\ backup[b].pc = "stop workload" => p = "workload" /\ After("backup", backup[b].pc) = "stop broker"
      /\ backup[b].pc = "stop broker" => p = "broker" /\ After("backup", backup[b].pc) = "capture"
  BY DEF PartOf, After
<1>5. p \in Parts /\ noted \subseteq {p} /\ (p \in up => noted = {p})
  BY <1>1, <1>2, <1>4 DEF Parts, StopSteps, Noted
<1>6. data \in Contents
  BY <1>3 DEF TypeInv, Contents
<1>7. /\ r \in BackupType /\ r.sel = backup[b].sel /\ r.got = backup[b].got /\ r.calm = backup[b].calm
      /\ r.pc = After("backup", backup[b].pc) /\ r.stopped = backup[b].stopped \cup noted
      /\ r.before = (IF last THEN data ELSE <<>>)
      /\ r.flight = (last /\ operation = "sent")
  BY <1>1, <1>3, <1>4, <1>5, <1>6, EmptyContent DEF BackupType, BackupSteps, StopSteps, StartSteps
<1>8. backup' = [backup EXCEPT ![b] = r]
  BY <1>2
<1>. HIDE DEF r, p
<1>13. backup'[b] = r
  BY <1>3, <1>8 DEF TypeInv
<1>9. archive[b] # "whole" /\ r.got = <<>>
  BY <1>1, <1>3, <1>7 DEF BackupAt, StopSteps, StartSteps
<1>10. BackupAt(b)'
  BY <1>1, <1>3, <1>4, <1>7, <1>13, <1>9, EmptyContent DEF BackupAt, StopSteps, StartSteps
<1>11. ServiceInv'
  <2>1. \A q \in Parts : r.pc \in Ahead(q)
    BY <1>1, <1>4, <1>7, AllAhead DEF ResetSteps, StopSteps
  <2>2. \A q \in Parts \ up' : q \in up => q \in r.stopped
    BY <1>1, <1>5, <1>7
  <2>3. UNCHANGED <<files, cmd, interrupted>> /\ (breaks' = 0 => breaks = 0) /\ ServiceInv
    BY <1>1 DEF AppIInv
  <2>. QED  BY <1>3, <1>7, <1>8, <2>1, <2>2, <2>3, StillOwed
<1>. QED  BY <1>1, <1>3, <1>7, <1>8, <1>9, <1>10, <1>11, BackupOnly DEF AppIInv, TypeInv

(* A stop that fails is noted, too, and the backup goes on to its starts.  *)
LEMMA StopWriterFailsKeeps ==
  ASSUME AppIInv, NEW b \in Backups, StopWriterFails(b)
  PROVE  AppIInv'
<1>. DEFINE p == PartOf(backup[b].pc)
<1>. DEFINE f == Forget(b, FALSE, "start broker")
<1>. DEFINE r == [f EXCEPT !.stopped = backup[b].stopped \cup
                     IF p = "workload" /\ up' = up THEN {} ELSE {p}]
<1>1. /\ UNCHANGED <<data, clock, files, brokerFiles, registered, scope, archive, cmd,
                     interrupted>>
      /\ backup[b].pc \in StopSteps /\ backup' = [backup EXCEPT ![b] = r]
      /\ breaks' = breaks + 1 \/ breaks' = breaks
      /\ up' = up \ {p} \/ up' = up
      /\ operation' = operation
  BY DEF StopWriterFails, BackupIdle, Halt, Stays, Break
<1>20. breaks' \in Nat /\ (breaks' = 0 => breaks = 0)
  <2>1. breaks \in Nat
    BY DEF AppIInv, TypeInv
  <2>2. breaks' = breaks + 1 \/ breaks' = breaks
    BY DEF StopWriterFails, Break
  <2>. QED  BY <2>1, <2>2
<1>2. TypeInv /\ backup[b] \in BackupType /\ BackupAt(b)
  BY BackupTypes DEF AppIInv
<1>3. p \in Parts
  BY DEF PartOf, Parts
<1>4. /\ f \in BackupType /\ f.sel = {} /\ f.got = <<>> /\ f.pc = "start broker" /\ f.calm
      /\ f.stopped = backup[b].stopped
  BY <1>2, Forgotten DEF BackupSteps, StartSteps
<1>5. /\ r \in BackupType /\ r.sel = {} /\ r.got = <<>> /\ r.pc = "start broker"
      /\ backup[b].stopped \subseteq r.stopped /\ (up' # up => p \in r.stopped)
  BY <1>3, <1>4 DEF BackupType
<1>. HIDE DEF r
<1>6. backup'[b] = r
  BY <1>1, <1>2 DEF TypeInv
<1>7. archive[b] # "whole"
  BY <1>1, <1>2 DEF BackupAt, StopSteps, StartSteps
<1>8. BackupAt(b)'
  BY <1>1, <1>5, <1>6, <1>7, EmptyContent DEF BackupAt, StopSteps
<1>9. ServiceInv'
  <2>1. \A q \in Parts : r.pc \in Ahead(q)
    BY <1>5, AllAhead DEF ResetSteps, StopSteps
  <2>2. \A q \in Parts \ up' : q \in up => q \in r.stopped
    <3>1. up' = up \ {p} \/ up' = up
      BY DEF StopWriterFails, Halt, Stays
    <3>. HIDE DEF p
    <3>. QED  BY <1>5, <3>1
  <2>3. UNCHANGED <<files, cmd, interrupted>> /\ backup' = [backup EXCEPT ![b] = r]
    BY <1>1
  <2>. QED  BY <1>2, <1>5, <1>20, <2>1, <2>2, <2>3, StillOwed DEF AppIInv
<1>. QED  BY <1>1, <1>2, <1>5, <1>7, <1>8, <1>9, <1>20, BackupOnly DEF AppIInv, TypeInv

(* What an archive holds of a class.                                       *)
LEMMA ContentTypes ==
  ASSUME NEW x \in Contents
  PROVE  DOMAIN x \subseteq Declared /\ \A c \in DOMAIN x : x[c] \in Stamps
BY DEF Contents

(* A class is captured as it was when the broker stopped; after the last   *)
(* the archive is complete.                                                *)
LEMMA CaptureKeeps ==
  ASSUME AppIInv, NEW b \in Backups, Capture(b)
  PROVE  AppIInv'
<1>. DEFINE c == Classes[NextClass(Left(b))]
<1>. DEFINE got == [x \in DOMAIN backup[b].got \cup {c} |-> IF x = c THEN data[c] ELSE backup[b].got[x]]
<1>. DEFINE r == [backup[b] EXCEPT !.got = got,
                                   !.pc = IF Left(b) = {c} THEN "write" ELSE "capture"]
<1>1. /\ UNCHANGED <<up, operation, data, clock, files, brokerFiles, registered, scope, archive,
                     cmd,
                     interrupted, breaks>>
      /\ backup[b].pc = "capture" /\ Left(b) # {}
  BY DEF Capture, BackupIdle, Stays
<1>11. backup' = [backup EXCEPT ![b] = r]
  BY DEF Capture
<1>2. TypeInv /\ backup[b] \in BackupType /\ BackupAt(b)
  BY BackupTypes DEF AppIInv
<1>3. backup[b].sel \subseteq Declared /\ Left(b) = backup[b].sel \ DOMAIN backup[b].got
  BY <1>2, BackupTypes DEF Left
<1>4. c \in Left(b)
  BY <1>1, <1>3, NextIsLeft
<1>5. got \in Contents /\ DOMAIN got = DOMAIN backup[b].got \cup {c}
  <2>1. backup[b].got \in Contents
    BY <1>2, BackupTypes
  <2>2. data[c] \in Stamps /\ DOMAIN got \subseteq Declared
    BY <1>2, <1>3, <1>4, <2>1, ContentTypes DEF TypeInv
  <2>3. got \in [DOMAIN got -> Stamps]
    BY <2>1, <2>2, ContentTypes
  <2>. QED  BY <2>2, <2>3 DEF Contents
<1>6. /\ r \in BackupType /\ r.sel = backup[b].sel /\ r.got = got /\ r.calm = backup[b].calm
      /\ r.pc = (IF Left(b) = {c} THEN "write" ELSE "capture") /\ r.stopped = backup[b].stopped
      /\ r.before = backup[b].before /\ r.flight = backup[b].flight
  BY <1>1, <1>2, <1>5 DEF BackupType, BackupSteps
<1>. HIDE DEF r, got, c
<1>7. backup'[b] = r
  BY <1>11, <1>2 DEF TypeInv
<1>8. archive[b] # "whole"
  BY <1>1, <1>2 DEF BackupAt, StartSteps
<1>9. BackupAt(b)'
  <2>1. DOMAIN got \subseteq backup[b].sel /\ (Left(b) = {c} => DOMAIN got = backup[b].sel)
    BY <1>2, <1>3, <1>4, <1>5 DEF BackupAt
  <2>2. backup[b].calm => \A x \in DOMAIN got : \/ got[x] = backup[b].before[x]
                                                \/ x = "objects" /\ backup[b].flight
    <3>1. backup[b].calm => \A x \in DOMAIN backup[b].got : \/ backup[b].got[x] = backup[b].before[x]
                                                            \/ x = "objects" /\ backup[b].flight
      BY <1>1, <1>2 DEF BackupAt
    <3>2. backup[b].calm => \/ backup[b].before[c] = data[c]
                            \/ c = "objects" /\ backup[b].flight
      BY <1>1, <1>2, <1>3, <1>4 DEF BackupAt
    <3>. QED  BY <1>5, <3>1, <3>2 DEF got
  <2>. QED  BY <1>1, <1>2, <1>3, <1>4, <1>6, <1>7, <1>8, <2>1, <2>2 DEF BackupAt, StopSteps
<1>10. ServiceInv'
  <2>1. \A q \in Parts : r.pc \in Ahead(q)
    BY <1>6, AllAhead DEF ResetSteps, StopSteps
  <2>. QED  BY <1>1, <1>11, <1>2, <1>6, <2>1, StillOwed DEF AppIInv
<1>. QED  BY <1>1, <1>11, <1>2, <1>6, <1>8, <1>9, <1>10, BackupOnly
          DEF AppIInv, TypeInv, DeploymentInv

(* A capture that fails leaves no content and goes on to the starts.       *)
LEMMA CaptureFailsKeeps ==
  ASSUME AppIInv, NEW b \in Backups, CaptureFails(b)
  PROVE  AppIInv'
<1>. DEFINE r == Forget(b, FALSE, "start broker")
<1>1. /\ UNCHANGED <<up, operation, data, clock, files, brokerFiles, registered, scope, archive,
                     cmd,
                     interrupted>>
      /\ backup[b].pc = "capture" /\ backup' = [backup EXCEPT ![b] = r]
      /\ breaks' = breaks + 1 \/ breaks' = breaks
  BY DEF CaptureFails, BackupIdle, Stays, Break
<1>20. breaks' \in Nat /\ (breaks' = 0 => breaks = 0)
  <2>1. breaks \in Nat
    BY DEF AppIInv, TypeInv
  <2>2. breaks' = breaks + 1 \/ breaks' = breaks
    BY DEF CaptureFails, Break
  <2>. QED  BY <2>1, <2>2
<1>2. TypeInv /\ backup[b] \in BackupType /\ BackupAt(b)
  BY BackupTypes DEF AppIInv
<1>3. /\ r \in BackupType /\ r.sel = {} /\ r.got = <<>> /\ r.pc = "start broker"
      /\ r.stopped = backup[b].stopped
  BY <1>2, Forgotten DEF BackupSteps, StartSteps
<1>. HIDE DEF r
<1>4. backup'[b] = r
  BY <1>1, <1>2 DEF TypeInv
<1>5. archive[b] # "whole"
  BY <1>1, <1>2 DEF BackupAt, StartSteps
<1>6. BackupAt(b)'
  BY <1>1, <1>3, <1>4, <1>5, EmptyContent DEF BackupAt, StopSteps
<1>7. ServiceInv'
  <2>1. \A q \in Parts : r.pc \in Ahead(q)
    BY <1>3, AllAhead DEF ResetSteps, StopSteps
  <2>. QED  BY <1>1, <1>2, <1>3, <2>1, <1>20, StillOwed DEF AppIInv
<1>. QED  BY <1>1, <1>2, <1>3, <1>5, <1>6, <1>7, <1>20, BackupOnly
          DEF AppIInv, TypeInv, DeploymentInv

(* Only a complete capture becomes a whole archive.                        *)
LEMMA WriteArchiveKeeps ==
  ASSUME AppIInv, NEW b \in Backups, WriteArchive(b)
  PROVE  AppIInv'
<1>. DEFINE whole == archive'[b] = "whole"
<1>. DEFINE r == Forget(b, whole, "start broker")
<1>1. /\ UNCHANGED <<up, operation, data, clock, files, brokerFiles, registered, scope, cmd,
                     interrupted>>
      /\ backup[b].pc = "write" /\ backup' = [backup EXCEPT ![b] = r]
      /\ breaks' = breaks + 1 \/ breaks' = breaks
      /\ archive' = archive \/ archive' = [archive EXCEPT ![b] = IF b \in Kept THEN "whole" ELSE @]
  BY DEF WriteArchive, BackupIdle, Stays, Break
<1>20. breaks' \in Nat /\ (breaks' = 0 => breaks = 0)
  <2>1. breaks \in Nat
    BY DEF AppIInv, TypeInv
  <2>2. breaks' = breaks + 1 \/ breaks' = breaks
    BY DEF WriteArchive, Break
  <2>. QED  BY <2>1, <2>2
<1>2. TypeInv /\ backup[b] \in BackupType /\ BackupAt(b)
  BY BackupTypes DEF AppIInv
<1>3. /\ r \in BackupType /\ r.pc = "start broker" /\ r.stopped = backup[b].stopped
      /\ r.sel = (IF whole THEN backup[b].sel ELSE {})
      /\ r.got = (IF whole THEN backup[b].got ELSE <<>>)
  BY <1>2, Forgotten DEF BackupSteps, StartSteps
<1>. HIDE DEF r
<1>4. backup'[b] = r
  BY <1>1, <1>2 DEF TypeInv
<1>5. archive[b] # "whole"
  BY <1>1, <1>2 DEF BackupAt, StartSteps
<1>6. BackupAt(b)'
  BY <1>1, <1>2, <1>3, <1>4, EmptyContent DEF BackupAt, StopSteps, StartSteps
<1>7. ServiceInv'
  <2>1. \A q \in Parts : r.pc \in Ahead(q)
    BY <1>3, AllAhead DEF ResetSteps, StopSteps
  <2>. QED  BY <1>1, <1>2, <1>3, <2>1, <1>20, StillOwed DEF AppIInv
<1>8. archive' \in [Backups -> {"none", "torn", "whole"}] /\ \A j \in Backups \ {b} : archive'[j] = archive[j]
  BY <1>1, <1>2 DEF TypeInv
<1>. QED  BY <1>1, <1>2, <1>3, <1>5, <1>6, <1>7, <1>8, <1>20, BackupOnly
          DEF AppIInv, TypeInv, DeploymentInv

(* A backup that dies counts as a break, and leaves a whole archive alone. *)
LEMMA BackupDiesKeeps ==
  ASSUME AppIInv, NEW b \in Backups, BackupDies(b)
  PROVE  AppIInv'
<1>. DEFINE whole == archive[b] = "whole"
<1>. DEFINE r == Forget(b, whole, "dead")
<1>1. /\ UNCHANGED <<up, operation, data, clock, files, brokerFiles, registered, scope, cmd,
                     interrupted>>
      /\ backup' = [backup EXCEPT ![b] = r] /\ breaks' = breaks + 1
      /\ \/ archive' = archive
         \/ backup[b].pc = "write" /\ archive' = [archive EXCEPT ![b] = "torn"]
  BY DEF BackupDies, BackupIdle, Stays, Break
<1>2. TypeInv /\ backup[b] \in BackupType /\ BackupAt(b)
  BY BackupTypes DEF AppIInv
<1>3. /\ r \in BackupType /\ r.pc = "dead"
      /\ r.sel = (IF whole THEN backup[b].sel ELSE {})
      /\ r.got = (IF whole THEN backup[b].got ELSE <<>>)
  BY ZenonT(60), <1>2, Forgotten
<1>. HIDE DEF r
<1>4. backup'[b] = r
  BY <1>1, <1>2 DEF TypeInv
<1>5. whole => archive' = archive
  BY <1>1, <1>2 DEF BackupAt, StartSteps
<1>6. archive' \in [Backups -> {"none", "torn", "whole"}] /\ \A j \in Backups \ {b} : archive'[j] = archive[j]
  BY <1>1, <1>2 DEF TypeInv
<1>7. archive'[b] = "whole" => whole
  BY <1>1, <1>2 DEF TypeInv
<1>8. BackupAt(b)'
  BY <1>2, <1>3, <1>4, <1>5, <1>7, EmptyContent DEF BackupAt, StopSteps
<1>9. breaks' \in Nat /\ breaks' # 0
  BY <1>1, <1>2 DEF TypeInv
<1>10. ServiceInv'
  BY <1>9 DEF ServiceInv
<1>. QED  BY <1>1, <1>2, <1>3, <1>5, <1>6, <1>8, <1>9, <1>10, BackupOnly
          DEF AppIInv, TypeInv, DeploymentInv


(* A backup starts what it had stopped, beside the other commands.         *)
LEMMA RestartKeeps ==
  ASSUME AppIInv, NEW b \in Backups, Restart(b)
  PROVE  AppIInv'
<1>. DEFINE p == PartOf(backup[b].pc)
<1>. DEFINE next == After("backup", backup[b].pc)
<1>. DEFINE whole == archive[b] = "whole"
<1>. DEFINE f == Forget(b, whole, "end")
<1>. DEFINE r == IF next = "end" THEN f ELSE [backup[b] EXCEPT !.pc = next]
<1>1. TypeInv /\ backup[b] \in BackupType /\ BackupAt(b) /\ ServiceInv
  BY BackupTypes DEF AppIInv
<1>2. /\ UNCHANGED <<operation, data, clock, files, registered, scope, archive, interrupted>>
      /\ backup[b].pc \in StartSteps
  BY DEF Restart, BackupIdle
<1>3. /\ backup[b].pc = "start broker" => p = "broker" /\ next = "start workload"
      /\ backup[b].pc = "start workload" => p = "workload" /\ next = "start exposure"
      /\ backup[b].pc = "start exposure" => p = "exposure" /\ next = "end"
  BY DEF PartOf, After
<1>4. p \in Parts /\ next \in {"start workload", "start exposure", "end"}
  BY <1>2, <1>3 DEF Parts, StartSteps
<1>5. /\ f \in BackupType /\ f.pc = "end" /\ f.stopped = {}
      /\ f.sel = (IF whole THEN backup[b].sel ELSE {})
      /\ f.got = (IF whole THEN backup[b].got ELSE <<>>)
  BY ZenonT(60), <1>1, Forgotten
<1>6. /\ r \in BackupType /\ r.pc = next
      /\ whole => r.sel = backup[b].sel /\ r.got = backup[b].got
      /\ next = "end" \/ (r.stopped = backup[b].stopped /\ r.sel = backup[b].sel /\ r.got = backup[b].got)
      /\ DOMAIN r.got \subseteq r.sel
  <2>1. CASE next = "end"
    BY <1>1, <1>5, <2>1, EmptyContent DEF BackupAt
  <2>2. CASE next # "end"
    BY <1>1, <1>4, <2>2 DEF BackupAt, BackupType, BackupSteps, StartSteps
  <2>. QED  BY <2>1, <2>2
<1>. HIDE DEF r, f, next, p
<1>7. \A q \in Parts : q # p /\ q \in backup[b].stopped /\ backup[b].pc \in Ahead(q)
                       => q \in r.stopped /\ r.pc \in Ahead(q)
  <2>1. CASE backup[b].pc = "start broker"
    BY <1>3, <1>6, <2>1 DEF Ahead, Parts, RestoreSteps, ApplySteps, StartSteps
  <2>2. CASE backup[b].pc = "start workload"
    BY <1>3, <1>6, <2>2 DEF Ahead, Parts, RestoreSteps, ApplySteps, StartSteps
  <2>3. CASE backup[b].pc = "start exposure"
    BY <1>3, <2>3 DEF Ahead, Parts
  <2>. QED  BY <1>2, <2>1, <2>2, <2>3 DEF StartSteps
<1>8. breaks \in Nat
  BY DEF AppIInv, TypeInv
<1>9. ASSUME NEW g \in BackupType, g.pc \in {"start workload", "start exposure", "end"},
             whole => g.sel = backup[b].sel /\ g.got = backup[b].got, DOMAIN g.got \subseteq g.sel,
             backup'[b] = g
      PROVE  BackupAt(b)'
  BY <1>1, <1>2, <1>9 DEF BackupAt, StopSteps, StartSteps
<1>10. CASE /\ p \notin backup[b].stopped /\ backup' = [backup EXCEPT ![b] = r]
            /\ UNCHANGED <<up, brokerFiles, cmd, breaks>>
  <2>1. backup'[b] = r
    BY <1>1, <1>10 DEF TypeInv
  <2>2. BackupAt(b)'
    BY <1>4, <1>6, <1>9, <2>1
  <2>3. \A q \in Parts \ up' : q \in backup[b].stopped /\ backup[b].pc \in Ahead(q)
                                 => q \in r.stopped /\ r.pc \in Ahead(q)
    BY <1>7, <1>10
  <2>4. ServiceInv'
    BY <1>1, <1>2, <1>10, <2>3, StillOwed
  <2>. QED  BY <1>1, <1>2, <1>6, <1>8, <1>10, <2>2, <2>4, BackupOnly DEF TypeInv
<1>11. CASE /\ up' \in {up, up \ ({p} \cap {"workload"})} /\ backup' = [backup EXCEPT ![b] = f]
            /\ UNCHANGED <<brokerFiles, cmd>>
            /\ breaks' = breaks + 1 \/ (~files /\ breaks' = breaks)
  <2>1. backup'[b] = f
    BY <1>1, <1>11 DEF TypeInv
  <2>2. BackupAt(b)'
    BY <1>1, <1>5, <1>9, <2>1, EmptyContent DEF BackupAt
  <2>3. breaks' \in Nat /\ (breaks' = 0 => ~files /\ breaks = 0)
    BY <1>8, <1>11
  <2>4. ServiceInv'
    <3>. SUFFICES ASSUME breaks' = 0, interrupted = "none" PROVE ServiceInv'
      BY <1>2 DEF ServiceInv
    <3>1. cmd.kind = "restore" /\ cmd.pc = "files"
      BY <1>1, <2>3 DEF ServiceInv
    <3>2. \A q \in Parts : cmd'.pc \in Ahead(q)
      BY <1>11, <3>1, AllAhead DEF BuildSteps
    <3>. QED  BY <1>11, <3>1, <3>2 DEF ServiceInv, Ahead
  <2>5. up' \subseteq up
    BY <1>11
  <2>. QED  BY <1>1, <1>2, <1>5, <1>8, <1>11, <2>2, <2>3, <2>4, <2>5, BackupOnly DEF TypeInv
<1>12. CASE /\ p \in backup[b].stopped /\ files /\ up' = up \cup {p}
            /\ brokerFiles' = (brokerFiles \/ p = "broker")
            /\ backup' = [Disturbed(Backups \ {b}) EXCEPT ![b] = r]
            /\ cmd' = (IF Rebuilding THEN [cmd EXCEPT !.calm = FALSE] ELSE cmd)
            /\ breaks' = breaks
  <2>. DEFINE S == Backups \ {b}
  <2>1. /\ Disturbed(S) \in [Backups -> BackupType] /\ backup' \in [Backups -> BackupType]
        /\ backup'[b] = r /\ \A j \in S : backup'[j] = Disturbed(S)[j]
    BY <1>1, <1>6, <1>12, DisturbedSame
  <2>2. /\ cmd' \in CmdType /\ cmd'.kind = cmd.kind /\ cmd'.pc = cmd.pc /\ cmd'.of = cmd.of
        /\ cmd'.done = cmd.done /\ (cmd'.calm => cmd.calm /\ ~Rebuilding)
    <3>1. cmd \in CmdType
      BY <1>1 DEF TypeInv
    <3>2. CASE Rebuilding
      <4>. DEFINE d == [cmd EXCEPT !.calm = FALSE]
      <4>1. /\ d \in CmdType /\ d.kind = cmd.kind /\ d.pc = cmd.pc /\ d.of = cmd.of
            /\ d.done = cmd.done /\ ~d.calm
        BY <3>1 DEF CmdType
      <4>. QED  BY <1>12, <3>2, <4>1
    <3>3. CASE ~Rebuilding
      BY <1>12, <3>1, <3>3
    <3>. QED  BY <3>2, <3>3
  <2>3. TypeInv'
    BY <1>1, <1>2, <1>4, <1>12, <2>1, <2>2 DEF TypeInv
  <2>4. \A j \in Backups : BackupAt(j)'
    <3>1. BackupAt(b)'
      BY <1>4, <1>6, <1>9, <2>1
    <3>2. ASSUME NEW j \in S PROVE BackupAt(j)'
      BY <1>1, <1>2, <2>1, DisturbedFrame DEF AppIInv
    <3>. QED  BY <3>1, <3>2
  <2>5. \A j \in Backups : archive[j] = "whole" =>
          backup'[j].sel = backup[j].sel /\ backup'[j].got = backup[j].got
    BY <1>1, <1>6, <2>1, DisturbedSame
  <2>6. CmdInv'
    <3>1. cmd.kind = "none" => cmd' = cmd
      BY <1>12 DEF Rebuilding
    <3>. QED  BY <1>2, <2>2, <2>5, <3>1 DEF AppIInv, CmdInv
  <2>7. DeploymentInv'
    BY <1>2, <1>12, <2>2 DEF AppIInv, DeploymentInv
  <2>8. RestoreInv'
    BY <2>2, CmdTypes, <1>1 DEF RestoreInv, Rebuilding, BuildSteps, AppIInv, CmdInv
  <2>9. ServiceInv'
    <3>. SUFFICES ASSUME breaks = 0, interrupted = "none", NEW q \in Parts, q \notin up, q # p
                  PROVE  \/ cmd.pc \in Ahead(q)
                         \/ \E j \in Backups : q \in backup'[j].stopped /\ backup'[j].pc \in Ahead(q)
      BY <1>2, <1>12, <2>2 DEF ServiceInv, Ahead
    <3>1. ASSUME NEW j \in Backups, q \in backup[j].stopped, backup[j].pc \in Ahead(q)
          PROVE  q \in backup'[j].stopped /\ backup'[j].pc \in Ahead(q)
      BY <1>1, <1>7, <2>1, <3>1, DisturbedSame
    <3>2. \/ cmd.pc \in Ahead(q)
          \/ \E j \in Backups : q \in backup[j].stopped /\ backup[j].pc \in Ahead(q)
      BY <1>1 DEF ServiceInv
    <3>. QED  BY <3>1, <3>2
  <2>. QED  BY <2>3, <2>4, <2>6, <2>7, <2>8, <2>9 DEF AppIInv
<1>13. Disturbed(Backups \ {b})[b] = backup[b]
  BY DEF Disturbed
<1>. QED  BY <1>10, <1>11, <1>12, <1>13 DEF Restart, Break, r, f, next, p, Forget


-----------------------------------------------------------------------------
(* Commands under the lock *)

(* A command disturbs every backup, or starts and writes nothing.          *)
LEMMA CmdBackups ==
  ASSUME AppIInv, archive' = archive, (backup' = backup /\ Steady) \/ backup' = Disturbed(Backups)
  PROVE  /\ backup' \in [Backups -> BackupType] /\ \A b \in Backups : BackupAt(b)'
         /\ \A b \in Backups : /\ backup'[b].pc = backup[b].pc /\ backup'[b].sel = backup[b].sel
                               /\ backup'[b].got = backup[b].got
                               /\ backup'[b].stopped = backup[b].stopped
<1>1. TypeInv /\ \A b \in Backups : BackupAt(b)
  BY DEF AppIInv
<1>2. CASE backup' = backup /\ Steady
  BY <1>1, <1>2, BackupFrame DEF TypeInv
<1>3. CASE backup' = Disturbed(Backups)
  <2>1. \A b \in Backups : BackupAt(b)'
    BY <1>1, <1>3, DisturbedFrame
  <2>. QED  BY <1>1, <1>3, <2>1, DisturbedSame
<1>. QED  BY <1>2, <1>3

(* A command that moves on still has ahead of it whatever it had.          *)
LEMMA CmdOwed ==
  ASSUME TypeInv, ServiceInv,
         \A b \in Backups : backup'[b].pc = backup[b].pc /\ backup'[b].stopped = backup[b].stopped,
         UNCHANGED <<interrupted, breaks>>,
         \A p \in Parts \ up' : p \in up \/ cmd.pc \in Ahead(p) => cmd'.pc \in Ahead(p),
         breaks = 0 /\ interrupted = "none" /\ ~files' => cmd'.kind = "restore" /\ cmd'.pc = "files"
  PROVE  ServiceInv'
<1>. SUFFICES ASSUME breaks = 0, interrupted = "none", NEW p \in Parts, p \notin up', cmd'.pc \notin Ahead(p)
              PROVE  \E b \in Backups : p \in backup'[b].stopped /\ backup'[b].pc \in Ahead(p)
  BY DEF ServiceInv, Ahead
<1>1. p \notin up /\ cmd.pc \notin Ahead(p)
  OBVIOUS
<1>2. \E b \in Backups : p \in backup[b].stopped /\ backup[b].pc \in Ahead(p)
  BY <1>1 DEF ServiceInv
<1>. QED  BY <1>2

(* The next step of a command, or its end.                                 *)
LEMMA Proceeds ==
  ASSUME TypeInv, CmdInv, Proceed, cmd.pc \in RestoreSteps, cmd.pc # "data"
  PROVE  /\ cmd' \in CmdType /\ cmd'.pc = After(cmd.kind, cmd.pc) /\ cmd'.done = {}
         /\ cmd.kind \in {"restore", "apply"}
         /\ cmd'.pc = "end" => cmd' = NoCommand
         /\ cmd'.pc # "end" => /\ cmd'.kind = cmd.kind /\ cmd'.of = cmd.of
                               /\ cmd'.calm = (cmd.calm \/ cmd.pc = "start workload")
                               /\ cmd.kind = "restore" /\ cmd.pc = "start broker"
                                    /\ cmd.calm /\ operation # "none" => cmd'.flight
<1>. DEFINE n == After(cmd.kind, cmd.pc)
            fl == /\ cmd.kind = "restore" /\ cmd.pc = "start broker"
                  /\ cmd.calm /\ operation # "none"
<1>1. cmd \in CmdType /\ cmd.kind \in {"restore", "apply"} /\ cmd.done = {}
  BY NoCommandType
  DEF TypeInv, CmdType, CmdInv, RestoreSteps, ResetSteps, ApplySteps, StopSteps, StartSteps,
     BuildSteps
<1>2. n \in RestoreSteps \cup {"end"}
  BY <1>1 DEF After, RestoreSteps, ResetSteps, ApplySteps, StopSteps, StartSteps, BuildSteps
<1>. HIDE DEF n
<1>3. cmd' = IF n = "end" THEN NoCommand
             ELSE [cmd EXCEPT !.pc = n, !.calm = cmd.calm \/ cmd.pc = "start workload",
                              !.flight = fl]
  BY DEF Proceed, n
<1>4. CASE n = "end"
  BY <1>1, <1>3, <1>4, NoCommandType DEF n
<1>5. CASE n # "end"
  <2>. DEFINE d == [cmd EXCEPT !.pc = n, !.calm = cmd.calm \/ cmd.pc = "start workload",
                               !.flight = fl]
  <2>1. /\ d \in CmdType /\ d.pc = n /\ d.kind = cmd.kind /\ d.of = cmd.of /\ d.done = cmd.done
        /\ d.calm = (cmd.calm \/ cmd.pc = "start workload") /\ d.flight = fl
    BY <1>1, <1>2 DEF CmdType
  <2>. QED  BY <1>1, <1>3, <1>5, <2>1 DEF n
<1>. QED  BY <1>4, <1>5

(* A command that proceeds holds the archive it held.                      *)
LEMMA CmdProceeds ==
  ASSUME TypeInv, CmdInv, Proceed, cmd.pc \in RestoreSteps, cmd.pc # "data", archive' = archive,
         \A b \in Backups : backup'[b].sel = backup[b].sel
  PROVE  CmdInv'
<1>1. /\ cmd'.pc = After(cmd.kind, cmd.pc) /\ cmd'.done = {} /\ cmd.kind \in {"restore", "apply"}
      /\ cmd'.pc = "end" => cmd' = NoCommand
      /\ cmd'.pc # "end" => cmd'.kind = cmd.kind /\ cmd'.of = cmd.of
  BY Proceeds
<1>2. cmd.kind = "apply" => cmd'.pc \in ApplySteps \cup {"end"}
  BY <1>1 DEF CmdInv, After, ApplySteps, StartSteps, BuildSteps
<1>3. cmd.done = {}
  BY DEF CmdInv
<1>. QED  BY <1>1, <1>2, <1>3, NoCommandType DEF CmdInv

(* A restore begins with every part ahead; without files there is nothing  *)
(* registered, so it begins on empty classes.                              *)
LEMMA BeginRestoreKeeps ==
  ASSUME AppIInv, NEW b \in Backups, BeginRestore(b)
  PROVE  AppIInv'
<1>1. /\ UNCHANGED <<up, operation, data, clock, files, brokerFiles, registered, scope, backup,
                     archive,
                     interrupted, breaks>>
      /\ cmd = NoCommand /\ archive[b] = "whole"
  BY DEF BeginRestore, Stays, deployment
<1>2. /\ cmd' \in CmdType /\ cmd'.kind = "restore" /\ cmd'.of = b /\ cmd'.done = {}
      /\ cmd'.calm = (files \/ up = {}) /\ cmd'.pc = IF files THEN "stop exposure" ELSE "files"
  <2>1. NoCommand \in CmdType
    BY NoCommandType
  <2>. QED  BY <2>1, NoCommandType
            DEF BeginRestore, CmdType, RestoreSteps, ResetSteps, ApplySteps, StopSteps, BuildSteps
<1>3. TypeInv'
  BY <1>1, <1>2 DEF AppIInv, TypeInv
<1>4. \A j \in Backups : BackupAt(j)'
  BY <1>1, BackupFrame DEF AppIInv, Steady
<1>5. CmdInv'
  <2>1. backup[b].sel # {}
    BY <1>1 DEF AppIInv, BackupAt
  <2>. QED  BY <1>1, <1>2, <2>1 DEF CmdInv
<1>6. DeploymentInv'
  BY <1>1, <1>2 DEF AppIInv, DeploymentInv, StartSteps
<1>7. RestoreInv'
  BY <1>1, <1>2 DEF AppIInv, DeploymentInv, RestoreInv, Erased, BuildSteps
<1>8. ServiceInv'
  <2>1. \A p \in Parts : cmd'.pc \in Ahead(p)
    BY <1>2, AllAhead DEF ResetSteps, BuildSteps, StopSteps
  <2>. QED  BY <1>1, <1>2, <2>1 DEF ServiceInv, Ahead
<1>. QED  BY <1>3, <1>4, <1>5, <1>6, <1>7, <1>8 DEF AppIInv

(* An apply, or a start, begins with every part ahead.                     *)
LEMMA BeginApplyKeeps ==
  ASSUME AppIInv, BeginApply \/ BeginUp
  PROVE  AppIInv'
<1>1. /\ UNCHANGED <<up, operation, data, clock, files, brokerFiles, registered, scope, backup,
                     archive,
                     interrupted, breaks>>
      /\ cmd = NoCommand
  BY DEF BeginApply, BeginUp, Stays, deployment
<1>2. /\ cmd' \in CmdType /\ cmd'.kind = "apply" /\ cmd'.done = {}
      /\ cmd'.pc = "files" \/ (files /\ cmd'.pc = "start broker")
  <2>1. NoCommand \in CmdType
    BY NoCommandType
  <2>. QED  BY <2>1, NoCommandType
            DEF BeginApply, BeginUp, Available, CmdType, RestoreSteps, ApplySteps, StartSteps, BuildSteps
<1>3. TypeInv'
  BY <1>1, <1>2 DEF AppIInv, TypeInv
<1>4. \A j \in Backups : BackupAt(j)'
  BY <1>1, BackupFrame DEF AppIInv, Steady
<1>5. CmdInv'
  BY <1>2 DEF CmdInv, ApplySteps, BuildSteps, StartSteps
<1>6. DeploymentInv'
  BY <1>1, <1>2 DEF AppIInv, DeploymentInv, StartSteps
<1>7. RestoreInv'
  BY <1>2 DEF RestoreInv
<1>8. ServiceInv'
  <2>1. \A p \in Parts : cmd'.pc \in Ahead(p)
    BY <1>2, AllAhead DEF BuildSteps
  <2>2. breaks = 0 /\ interrupted = "none" => files
    BY <1>1, NoCommandType DEF AppIInv, ServiceInv
  <2>. QED  BY <1>1, <2>1, <2>2 DEF ServiceInv, Ahead
<1>. QED  BY <1>3, <1>4, <1>5, <1>6, <1>7, <1>8 DEF AppIInv

(* A reset stops the workload, then the broker.                            *)
LEMMA StopForResetKeeps ==
  ASSUME AppIInv, StopForReset
  PROVE  AppIInv'
<1>. DEFINE p == PartOf(cmd.pc)
<1>1. /\ UNCHANGED <<data, clock, files, brokerFiles, registered, scope, backup, archive,
                     interrupted,
                     breaks>>
      /\ cmd.pc \in StopSteps /\ up' = up \ {p} /\ operation' = operation /\ Proceed
  BY DEF StopForReset, CmdIdle, deployment, Halt
<1>2. TypeInv /\ CmdInv /\ RestoreInv /\ ServiceInv /\ DeploymentInv
  BY DEF AppIInv
<1>3. /\ cmd.pc \in RestoreSteps /\ cmd.pc # "data" /\ cmd.kind = "restore"
  BY <1>1, <1>2, CmdTypes, NoCommandType
  DEF CmdInv, RestoreSteps, ResetSteps, ApplySteps, StartSteps, BuildSteps, StopSteps
<1>4. /\ cmd.pc = "stop exposure" => p = "exposure" /\ After(cmd.kind, cmd.pc) = "stop workload"
      /\ cmd.pc = "stop workload" => p = "workload" /\ After(cmd.kind, cmd.pc) = "stop broker"
      /\ cmd.pc = "stop broker" => p = "broker" /\ After(cmd.kind, cmd.pc) = "release"
  BY <1>3 DEF PartOf, After
<1>. HIDE DEF p
<1>5. /\ cmd' \in CmdType /\ cmd'.pc = After(cmd.kind, cmd.pc) /\ cmd'.pc \in {"stop workload", "stop broker", "release"}
      /\ cmd'.kind = "restore" /\ (cmd'.calm => cmd.calm)
  BY <1>1, <1>2, <1>3, <1>4, Proceeds DEF StopSteps
<1>6. Steady
  BY <1>1 DEF Steady
<1>7. backup' \in [Backups -> BackupType] /\ \A b \in Backups : BackupAt(b)'
  BY <1>1, <1>6, CmdBackups
<1>8. TypeInv'
  BY <1>1, <1>2, <1>5, <1>7 DEF TypeInv
<1>9. CmdInv'
  BY <1>1, <1>2, <1>3, CmdProceeds
<1>10. DeploymentInv'
  BY <1>1, <1>2, <1>5 DEF DeploymentInv, StartSteps
<1>11. RestoreInv'
  <2>1. CASE cmd.pc = "stop exposure"
    BY <1>4, <1>5, <2>1 DEF RestoreInv, BuildSteps
  <2>2. CASE cmd.pc = "stop workload"
    BY <1>1, <1>4, <1>5, <2>2 DEF RestoreInv, BuildSteps
  <2>3. CASE cmd.pc = "stop broker"
    BY <1>1, <1>2, <1>3, <1>4, <1>5, <2>3 DEF RestoreInv, BuildSteps
  <2>. QED  BY <1>1, <2>1, <2>2, <2>3 DEF StopSteps
<1>12. ServiceInv'
  <2>1. \A q \in Parts : cmd'.pc \in Ahead(q)
    BY <1>5, AllAhead DEF ResetSteps, StopSteps
  <2>2. breaks = 0 /\ interrupted = "none" => files
    BY <1>1, <1>2 DEF ServiceInv, StopSteps
  <2>. QED  BY <1>1, <1>2, <2>1, <2>2, CmdOwed
<1>. QED  BY <1>7, <1>8, <1>9, <1>10, <1>11, <1>12 DEF AppIInv

(* Building makes a database where there is none, and for an apply secrets.*)
LEMMA ProvidedTypes ==
  ASSUME data \in [Declared -> Stamps]
  PROVE  /\ Provided \in [Declared -> Stamps]
         /\ cmd.pc # "register" => Provided["sql"] = data["sql"]
         /\ cmd.pc = "register" /\ data["sql"] = Gone => Provided["sql"] = Empty
         /\ cmd.pc # "scope" \/ cmd.kind = "restore" => Provided["secrets"] = data["secrets"]
<1>1. "sql" \in Declared /\ "secrets" \in Declared /\ {Empty, Generated} \subseteq Stamps
  BY ClassesDeclared DEF Stamps
<1>2. CASE cmd.pc = "register" /\ data["sql"] = Gone
  <2>1. Provided = [data EXCEPT !["sql"] = Empty]
    BY <1>2 DEF Provided
  <2>. QED  BY <1>1, <1>2, <2>1
<1>3. CASE cmd.kind = "apply" /\ cmd.pc = "scope" /\ data["secrets"] = Empty
  <2>1. Provided = [data EXCEPT !["secrets"] = Generated]
    BY <1>3 DEF Provided
  <2>. QED  BY <1>1, <1>3, <2>1
<1>4. CASE /\ ~(cmd.pc = "register" /\ data["sql"] = Gone)
           /\ ~(cmd.kind = "apply" /\ cmd.pc = "scope" /\ data["secrets"] = Empty)
  BY <1>4 DEF Provided
<1>. QED  BY <1>2, <1>3, <1>4

(* What a reset unregisters it erases, and what it builds is empty.        *)
LEMMA ResetKeeps ==
  ASSUME AppIInv, Reset
  PROVE  AppIInv'
<1>1. /\ UNCHANGED <<up, operation, clock, archive, interrupted, breaks>> /\ Proceed
      /\ backup' = IF data' = data THEN backup ELSE Disturbed(Backups)
      /\ \/ Released
         \/ Descoped /\ scope' = FALSE
         \/ Deleted
         \/ Built
  BY DEF Reset, CmdIdle, Stays
<1>2. TypeInv /\ CmdInv /\ RestoreInv /\ ServiceInv /\ DeploymentInv
  BY DEF AppIInv
<1>3. cmd.pc \in {"release", "unscope", "delete", "files", "register", "scope"}
  BY <1>1 DEF Released, Descoped, Deleted, Built, BuildSteps
<1>4. /\ cmd.pc \in RestoreSteps /\ cmd.pc # "data"
      /\ cmd.pc \in {"release", "unscope", "delete"} => cmd.kind = "restore"
  BY <1>2, <1>3, CmdTypes, NoCommandType
  DEF CmdInv, RestoreSteps, ResetSteps, ApplySteps, StartSteps, BuildSteps
<1>5. /\ cmd.pc = "release" => After(cmd.kind, cmd.pc) = "unscope"
      /\ cmd.pc = "unscope" => After(cmd.kind, cmd.pc) = "delete"
      /\ cmd.pc = "delete" => After(cmd.kind, cmd.pc) = "files"
      /\ cmd.pc = "files" => After(cmd.kind, cmd.pc) = "register"
      /\ cmd.pc = "register" => After(cmd.kind, cmd.pc) = "scope"
      /\ cmd.pc = "scope" => After(cmd.kind, cmd.pc) = "start broker"
  BY DEF After
<1>6. /\ cmd' \in CmdType /\ cmd'.pc = After(cmd.kind, cmd.pc) /\ cmd'.kind = cmd.kind
      /\ cmd'.pc \in {"unscope", "delete", "files", "register", "scope", "start broker"}
      /\ cmd'.calm => cmd.calm
  BY <1>1, <1>2, <1>3, <1>4, <1>5, Proceeds
<1>7. /\ backup' \in [Backups -> BackupType] /\ \A b \in Backups : BackupAt(b)'
      /\ \A b \in Backups : /\ backup'[b].pc = backup[b].pc /\ backup'[b].sel = backup[b].sel
                            /\ backup'[b].stopped = backup[b].stopped
  <2>1. data' = data => Steady
    BY <1>1 DEF Steady
  <2>. QED  BY <1>1, <2>1, CmdBackups
<1>8. CmdInv'
  BY <1>1, <1>2, <1>4, <1>7, CmdProceeds
<1>9. /\ {files, brokerFiles, registered, scope} \subseteq BOOLEAN
      /\ data \in [Declared -> Stamps] /\ {Empty, Gone, Generated} \subseteq Stamps
      /\ "sql" \in Declared /\ "secrets" \in Declared
  BY <1>2, ClassesDeclared DEF TypeInv, Stamps
<1>10. /\ {files', brokerFiles', registered', scope'} \subseteq BOOLEAN
       /\ data' \in [Declared -> Stamps]
       /\ ~registered' => data'["sql"] = Gone
       /\ ~scope' => data'["secrets"] = Empty
       /\ ~files' => ~registered' /\ ~scope'
       /\ cmd'.pc \in {"register", "scope", "start broker"} => files'
       /\ cmd'.pc \in {"unscope", "delete"} => ~registered'
       /\ cmd'.pc = "delete" => ~scope'
       /\ cmd'.kind = "restore" /\ cmd'.pc = "files" => ~files'
       /\ cmd.pc # "delete" /\ ~files' => ~files /\ cmd.pc # "files"
       /\ cmd.pc \in BuildSteps => data' = Provided
  <2>1. CASE Released
    <3>1. /\ cmd.pc = "release" /\ cmd'.pc = "unscope" /\ registered' = FALSE
          /\ data' = [data EXCEPT !["sql"] = Gone]
          /\ files' = files /\ brokerFiles' = brokerFiles /\ scope' = scope
      BY <1>5, <1>6, <2>1 DEF Released
    <3>. QED  BY <1>2, <1>9, <3>1 DEF DeploymentInv, BuildSteps
  <2>2. CASE Descoped /\ scope' = FALSE
    <3>1. /\ cmd.pc = "unscope" /\ cmd'.pc = "delete" /\ scope' = FALSE
          /\ data' = [data EXCEPT !["secrets"] = Empty]
          /\ files' = files /\ brokerFiles' = brokerFiles /\ registered' = registered
      BY <1>5, <1>6, <2>2 DEF Descoped
    <3>. QED  BY <1>2, <1>9, <3>1 DEF DeploymentInv, BuildSteps
  <2>3. CASE Deleted
    <3>1. /\ cmd.pc = "delete" /\ cmd'.pc = "files" /\ files' = FALSE /\ brokerFiles' = FALSE
          /\ data' = data /\ registered' = registered /\ scope' = scope
      BY <1>5, <1>6, <2>3 DEF Deleted
    <3>. QED  BY <1>2, <1>9, <3>1 DEF DeploymentInv, BuildSteps
  <2>4. CASE Built
    <3>1. /\ cmd.pc \in {"files", "register", "scope"} /\ files' = (files \/ cmd.pc = "files")
          /\ registered' = (registered \/ cmd.pc = "register") /\ scope' = (scope \/ cmd.pc = "scope")
          /\ data' = Provided /\ brokerFiles' = brokerFiles
      BY <2>4 DEF Built, BuildSteps
    <3>2. files' /\ cmd'.pc \in {"register", "scope", "start broker"}
      BY <1>2, <1>5, <1>6, <3>1 DEF DeploymentInv
    <3>3. /\ data' \in [Declared -> Stamps]
          /\ ~registered' => data'["sql"] = data["sql"]
          /\ ~scope' => data'["secrets"] = data["secrets"]
      BY <1>9, <3>1, ProvidedTypes
    <3>. QED  BY <1>2, <1>9, <3>1, <3>2, <3>3 DEF DeploymentInv
  <2>. QED  BY <1>1, <2>1, <2>2, <2>3, <2>4
<1>11. TypeInv'
  BY <1>1, <1>2, <1>6, <1>7, <1>10 DEF TypeInv
<1>12. DeploymentInv'
  BY <1>1, <1>2, <1>6, <1>10 DEF DeploymentInv, StartSteps
<1>13. RestoreInv'
  <2>. SUFFICES ASSUME cmd.kind = "restore", cmd.calm PROVE RestoreInv'
    BY <1>6 DEF RestoreInv
  <2>1. /\ cmd'.pc \in BuildSteps \cup {"start broker"} => data'["secrets"] = Empty
        /\ cmd'.pc \in {"files", "register"} => data'["sql"] = Gone
        /\ cmd'.pc \in {"scope", "start broker"} => data'["sql"] = Empty
    <3>1. CASE cmd.pc \in {"release", "unscope"}
      BY <1>5, <1>6, <3>1 DEF BuildSteps
    <3>2. CASE cmd.pc = "delete"
      BY <1>2, <1>5, <1>6, <1>10, <3>2 DEF DeploymentInv
    <3>3. CASE cmd.pc \in BuildSteps
      <4>1. data' = Provided /\ data["secrets"] = Empty
        BY <1>2, <1>10, <3>3 DEF RestoreInv
      <4>2. /\ cmd.pc = "register" /\ data["sql"] = Gone => data'["sql"] = Empty
            /\ data'["secrets"] = data["secrets"]
            /\ cmd.pc # "register" => data'["sql"] = data["sql"]
        BY <1>9, <4>1, ProvidedTypes
      <4>. QED  BY <1>2, <1>5, <1>6, <3>3, <4>1, <4>2 DEF RestoreInv, BuildSteps
    <3>. QED  BY <1>3, <3>1, <3>2, <3>3 DEF BuildSteps
  <2>. QED  BY <1>1, <1>2, <1>3, <1>6, <2>1 DEF RestoreInv
<1>14. ServiceInv'
  <2>1. \A q \in Parts : cmd'.pc \in Ahead(q)
    BY <1>6, AllAhead DEF ResetSteps, BuildSteps
  <2>2. breaks = 0 /\ interrupted = "none" /\ ~files' => cmd'.kind = "restore" /\ cmd'.pc = "files"
    BY <1>2, <1>4, <1>5, <1>6, <1>10 DEF ServiceInv
  <2>. QED  BY <1>1, <1>2, <1>7, <2>1, <2>2, CmdOwed
<1>. QED  BY <1>7, <1>8, <1>11, <1>12, <1>13, <1>14 DEF AppIInv

(* A part that starts is no longer owed, and backups that rely on its being*)
(* stopped are disturbed.                                                  *)
LEMMA StartPartKeeps ==
  ASSUME AppIInv, StartPart
  PROVE  AppIInv'
<1>. DEFINE p == PartOf(cmd.pc)
<1>1. /\ UNCHANGED <<operation, data, clock, files, registered, scope, archive, interrupted,
                     breaks>>
      /\ cmd.pc \in StartSteps /\ up' = up \cup {p} /\ brokerFiles' = (brokerFiles \/ p = "broker")
      /\ backup' = (IF p \in up THEN backup ELSE Disturbed(Backups)) /\ Proceed
  BY DEF StartPart, CmdIdle
<1>2. TypeInv /\ CmdInv /\ RestoreInv /\ ServiceInv /\ DeploymentInv
  BY DEF AppIInv
<1>3. cmd.pc \in RestoreSteps /\ cmd.pc # "data" /\ cmd.kind \in {"restore", "apply"}
  BY <1>1, <1>2, CmdTypes, NoCommandType DEF CmdInv, RestoreSteps, ApplySteps, StartSteps
<1>4. /\ cmd.pc = "start broker" =>
           p = "broker" /\ After(cmd.kind, cmd.pc) = IF cmd.kind = "restore" THEN "data" ELSE "start workload"
      /\ cmd.pc = "start workload" => p = "workload" /\ After(cmd.kind, cmd.pc) = "start exposure"
      /\ cmd.pc = "start exposure" =>
           p = "exposure" /\ After(cmd.kind, cmd.pc) = IF cmd.kind = "restore" THEN "verify" ELSE "end"
  BY DEF PartOf, After
<1>. HIDE DEF p
<1>5. /\ cmd' \in CmdType /\ cmd'.pc = After(cmd.kind, cmd.pc) /\ cmd'.done = {}
      /\ cmd'.pc = "end" => cmd' = NoCommand
      /\ cmd'.pc # "end" => /\ cmd'.kind = cmd.kind
                            /\ cmd'.calm = (cmd.calm \/ cmd.pc = "start workload")
                            /\ cmd.kind = "restore" /\ cmd.pc = "start broker"
                                 /\ cmd.calm /\ operation # "none" => cmd'.flight
  BY <1>1, <1>2, <1>3, Proceeds
<1>6. /\ backup' \in [Backups -> BackupType] /\ \A b \in Backups : BackupAt(b)'
      /\ \A b \in Backups : /\ backup'[b].pc = backup[b].pc /\ backup'[b].sel = backup[b].sel
                            /\ backup'[b].stopped = backup[b].stopped
  <2>1. p \in up => Steady
    BY <1>1 DEF Steady
  <2>. QED  BY <1>1, <2>1, CmdBackups
<1>7. TypeInv'
  <2>1. p \in Parts
    BY <1>1, <1>4 DEF Parts, StartSteps
  <2>. QED  BY <1>1, <1>2, <1>5, <1>6, <2>1 DEF TypeInv
<1>8. CmdInv'
  BY <1>1, <1>2, <1>3, <1>6, CmdProceeds
<1>9. DeploymentInv'
  <2>1. files /\ cmd'.pc \in {"data", "start workload", "start exposure", "verify", "end"}
    BY <1>1, <1>2, <1>4, <1>5 DEF DeploymentInv, StartSteps
  <2>. QED  BY <1>1, <1>2, <2>1 DEF DeploymentInv
<1>10. RestoreInv'
  <2>1. CASE cmd.pc = "start broker"
    BY <1>1, <1>2, <1>3, <1>4, <1>5, <2>1, NoCommandType DEF RestoreInv, BuildSteps, Erased
  <2>2. CASE cmd.pc \in {"start workload", "start exposure"}
    BY <1>4, <1>5, <2>2, NoCommandType DEF RestoreInv, BuildSteps
  <2>. QED  BY <1>1, <2>1, <2>2 DEF StartSteps
<1>11. ServiceInv'
  <2>1. ASSUME NEW q \in Parts, q \notin up', q \in up \/ cmd.pc \in Ahead(q)
        PROVE  cmd'.pc \in Ahead(q)
    <3>1. q # p /\ cmd.pc \in Ahead(q)
      BY <1>1, <2>1
    <3>2. CASE cmd.pc = "start broker"
      BY <1>3, <1>4, <1>5, <3>1, <3>2 DEF Ahead, Parts, RestoreSteps, ApplySteps, StartSteps
    <3>3. CASE cmd.pc = "start workload"
      BY <1>4, <1>5, <3>1, <3>3 DEF Ahead, Parts, RestoreSteps, ApplySteps, StartSteps
    <3>4. CASE cmd.pc = "start exposure"
      BY <1>4, <3>1, <3>4 DEF Ahead, Parts
    <3>. QED  BY <1>1, <3>2, <3>3, <3>4 DEF StartSteps
  <2>2. files'
    BY <1>1, <1>2 DEF DeploymentInv
  <2>. QED  BY <1>1, <1>2, <1>6, <2>1, <2>2, CmdOwed
<1>. QED  BY <1>6, <1>7, <1>8, <1>9, <1>10, <1>11 DEF AppIInv

(* The class to restore next is one the archive holds.                     *)
LEMMA TodoHeld ==
  ASSUME AppIInv, cmd.pc = "data"
  PROVE  /\ cmd.kind = "restore" /\ cmd.of \in Backups /\ Todo \in Selected \ cmd.done
         /\ cmd.done \subseteq Selected /\ Selected \subseteq Declared /\ Content[Todo] \in Stamps
<1>1. cmd.kind = "restore"
  BY CmdTypes, NoCommandType DEF AppIInv, CmdInv, ApplySteps, BuildSteps, StartSteps
<1>2. /\ cmd.of \in Backups /\ archive[cmd.of] = "whole" /\ cmd.done \subseteq Selected
      /\ cmd.done # Selected
  BY <1>1 DEF AppIInv, CmdInv, Selected
<1>3. Selected \subseteq Declared
  BY <1>2, BackupTypes DEF AppIInv, Selected
<1>4. Todo \in Selected \ cmd.done
  BY <1>2, <1>3, NextIsLeft DEF Todo
<1>5. DOMAIN Content = Selected /\ Content \in Contents
  BY <1>2, BackupTypes DEF AppIInv, BackupAt, Selected, Content
<1>6. Content \in [Selected -> Stamps]
  BY <1>5 DEF Contents
<1>. QED  BY <1>1, <1>2, <1>3, <1>4, <1>6

(* A class becomes what the archive holds; after the last the workload is  *)
(* next.                                                                   *)
LEMMA RestoreClassKeeps ==
  ASSUME AppIInv, RestoreClass
  PROVE  AppIInv'
<1>. DEFINE c == Todo
            last == Selected = cmd.done \cup {c}
<1>1. /\ UNCHANGED <<up, operation, clock, files, brokerFiles, registered, scope, archive,
                     interrupted,
                     breaks>>
      /\ cmd.pc = "data" /\ Writable(c) /\ data' = [data EXCEPT ![c] = Content[c]]
      /\ backup' = Disturbed(Backups)
      /\ cmd' = IF last THEN [cmd EXCEPT !.done = {}, !.pc = "start workload"]
                ELSE [cmd EXCEPT !.done = cmd.done \cup {c}]
  BY DEF RestoreClass, CmdIdle, Stays, deployment
<1>2. TypeInv /\ CmdInv /\ RestoreInv /\ ServiceInv /\ DeploymentInv
  BY DEF AppIInv
<1>3. /\ cmd.kind = "restore" /\ cmd.of \in Backups /\ c \in Selected \ cmd.done
      /\ cmd.done \subseteq Selected /\ Selected \subseteq Declared /\ Content[c] \in Stamps
  BY <1>1, TodoHeld
<1>4. /\ backup' \in [Backups -> BackupType] /\ \A b \in Backups : BackupAt(b)'
      /\ \A b \in Backups : /\ backup'[b].pc = backup[b].pc /\ backup'[b].sel = backup[b].sel
                            /\ backup'[b].got = backup[b].got
                            /\ backup'[b].stopped = backup[b].stopped
  BY <1>1, CmdBackups
<1>. HIDE DEF c, last
<1>5. /\ cmd' \in CmdType /\ cmd'.kind = "restore" /\ cmd'.of = cmd.of /\ cmd'.calm = cmd.calm
      /\ cmd'.flight = cmd.flight
      /\ last => cmd'.pc = "start workload" /\ cmd'.done = {}
      /\ ~last => cmd'.pc = "data" /\ cmd'.done = cmd.done \cup {c}
  <2>1. cmd \in CmdType /\ cmd.done \cup {c} \subseteq Declared
    BY <1>2, <1>3 DEF TypeInv
  <2>2. CASE last
    BY <1>1, <1>3, <2>1, <2>2 DEF CmdType, RestoreSteps, ApplySteps, StartSteps
  <2>3. CASE ~last
    BY <1>1, <1>3, <2>1, <2>3 DEF CmdType
  <2>. QED  BY <2>2, <2>3
<1>6. Selected' = Selected /\ Content' = Content
  BY <1>3, <1>4, <1>5 DEF Selected, Content
<1>7. data' \in [Declared -> Stamps] /\ data'[c] = Content[c]
      /\ \A x \in Declared \ {c} : data'[x] = data[x]
  BY <1>1, <1>2, <1>3 DEF TypeInv
<1>8. TypeInv'
  BY <1>1, <1>2, <1>4, <1>5, <1>7 DEF TypeInv
<1>9. CmdInv'
  <2>1. archive'[cmd.of] = "whole" /\ Selected = backup'[cmd'.of].sel
    BY <1>1, <1>2, <1>3, <1>5, <1>6 DEF CmdInv, Selected
  <2>2. cmd'.done \subseteq Selected /\ cmd'.done # Selected
    BY <1>3, <1>5 DEF last
  <2>3. cmd'.pc \in {"data", "start workload"} /\ (cmd'.pc # "data" => cmd'.done = {})
    BY <1>5
  <2>. QED  BY <1>3, <1>5, <2>1, <2>2, <2>3 DEF CmdInv
<1>10. DeploymentInv'
  <2>1. files /\ cmd'.pc \in {"data", "start workload"}
    BY <1>1, <1>2, <1>5 DEF DeploymentInv
  <2>2. (~registered => c # "sql") /\ (~scope => c # "secrets")
    BY <1>1 DEF Writable, Available
  <2>. QED  BY <1>1, <1>2, <1>7, <2>1, <2>2, ClassesDeclared DEF DeploymentInv
<1>11. RestoreInv'
  <2>. SUFFICES ASSUME cmd.calm PROVE RestoreInv'
    BY <1>5 DEF RestoreInv
  <2>1. /\ "workload" \notin up' /\ (operation' # "none" => cmd.flight)
        /\ \A x \in cmd.done \cup {c} : data'[x] = Content[x] \/ (x = "objects" /\ cmd.flight)
        /\ \A x \in Erased \ (cmd.done \cup {c}) : data'[x] = Empty
    BY <1>1, <1>2, <1>3, <1>7, ClassesDeclared DEF RestoreInv
  <2>. QED  BY <1>5, <1>6, <2>1 DEF RestoreInv, BuildSteps, last
<1>12. ServiceInv'
  <2>1. ASSUME NEW q \in Parts, q \notin up', q \in up \/ cmd.pc \in Ahead(q)
        PROVE  cmd'.pc \in Ahead(q)
    <3>1. "data" \in Ahead(q)
      BY <1>1, <2>1
    <3>2. q # "broker" /\ "start workload" \in Ahead(q)
      BY <3>1 DEF Ahead, RestoreSteps, ApplySteps, StartSteps
    <3>. QED  BY <1>5, <3>1, <3>2
  <2>2. files'
    BY <1>1, <1>2 DEF DeploymentInv
  <2>. QED  BY <1>1, <1>2, <1>4, <2>1, <2>2, CmdOwed
<1>. QED  BY <1>4, <1>8, <1>9, <1>10, <1>11, <1>12 DEF AppIInv

(* A verified restore leaves every part running.                           *)
LEMMA VerifyKeeps ==
  ASSUME AppIInv, Verify
  PROVE  AppIInv'
<1>1. /\ UNCHANGED <<up, operation, data, clock, files, brokerFiles, registered, scope, backup,
                     archive,
                     breaks>>
      /\ cmd.pc = "verify" /\ up = Parts /\ cmd' = NoCommand /\ interrupted' = "none"
  BY DEF Verify, Healthy, CmdIdle, Stays, deployment
<1>2. TypeInv'
  BY <1>1, NoCommandType DEF AppIInv, TypeInv
<1>3. \A b \in Backups : BackupAt(b)'
  BY <1>1, BackupFrame DEF AppIInv, Steady
<1>4. CmdInv' /\ RestoreInv'
  BY <1>1, NoCommandType DEF CmdInv, RestoreInv
<1>5. DeploymentInv' /\ files'
  BY <1>1, NoCommandType DEF AppIInv, DeploymentInv, StartSteps
<1>6. ServiceInv'
  BY <1>1, <1>5 DEF ServiceInv
<1>. QED  BY <1>2, <1>3, <1>4, <1>5, <1>6 DEF AppIInv

(* Only a restore is refused, and it counts as interrupted.                *)
LEMMA CmdRefusedKeeps ==
  ASSUME AppIInv, CmdRefused
  PROVE  AppIInv'
<1>1. /\ UNCHANGED <<up, operation, data, clock, files, brokerFiles, registered, backup, archive,
                     breaks>>
      /\ Refused /\ cmd' = NoCommand /\ scope' = (scope \/ cmd.pc = "scope")
      /\ interrupted' = IF cmd.kind = "restore" THEN cmd.of ELSE interrupted
  BY DEF CmdRefused, Abandon, CmdIdle, Stays
<1>2. cmd.kind = "restore" /\ cmd.of \in Backups
  BY <1>1, CmdTypes, NoCommandType
  DEF AppIInv, CmdInv, Refused, ApplySteps, BuildSteps, StartSteps
<1>3. TypeInv'
  BY <1>1, <1>2, NoCommandType DEF AppIInv, TypeInv
<1>4. \A b \in Backups : BackupAt(b)'
  BY <1>1, BackupFrame DEF AppIInv, Steady
<1>5. CmdInv' /\ RestoreInv'
  BY <1>1, NoCommandType DEF CmdInv, RestoreInv
<1>6. DeploymentInv'
  BY <1>1, NoCommandType DEF AppIInv, DeploymentInv, StartSteps
<1>7. ServiceInv'
  BY <1>1, <1>2, ConstantsOK DEF ServiceInv
<1>. QED  BY <1>3, <1>4, <1>5, <1>6, <1>7 DEF AppIInv

(* A step that breaks off leaves empty what it leaves unregistered.        *)
LEMMA HalfwayKeeps ==
  ASSUME AppIInv, Halfway
  PROVE  /\ {files', brokerFiles', registered', scope'} \subseteq BOOLEAN
         /\ data' \in [Declared -> Stamps]
         /\ ~registered' => data'["sql"] = Gone
         /\ ~scope' => data'["secrets"] = Empty
         /\ ~files' => ~registered' /\ ~scope'
<1>1. /\ {files, brokerFiles, registered, scope} \subseteq BOOLEAN
      /\ data \in [Declared -> Stamps] /\ {Empty, Torn, Gone} \subseteq Stamps
      /\ "sql" \in Declared /\ "secrets" \in Declared
  BY ClassesDeclared DEF AppIInv, TypeInv, Stamps
<1>2. DeploymentInv
  BY DEF AppIInv
<1>3. CASE UNCHANGED <<data, deployment>>
  BY <1>1, <1>2, <1>3 DEF deployment, DeploymentInv
<1>4. CASE Released
  BY <1>1, <1>2, <1>4 DEF Released, DeploymentInv
<1>5. CASE Deleted
  BY <1>1, <1>2, <1>5 DEF Deleted, DeploymentInv
<1>6. CASE Built
  <2>1. /\ cmd.pc \in BuildSteps /\ files' = (files \/ cmd.pc = "files") /\ data' = Provided
        /\ registered' = (registered \/ cmd.pc = "register") /\ scope' = (scope \/ cmd.pc = "scope")
        /\ brokerFiles' = brokerFiles
    BY <1>6 DEF Built
  <2>2. files'
    BY <1>2, <2>1 DEF DeploymentInv, BuildSteps
  <2>3. /\ data' \in [Declared -> Stamps]
        /\ ~registered' => data'["sql"] = data["sql"]
        /\ ~scope' => data'["secrets"] = data["secrets"]
    BY <1>1, <2>1, ProvidedTypes
  <2>. QED  BY <1>1, <1>2, <2>1, <2>2, <2>3 DEF DeploymentInv
<1>7. CASE Descoped /\ scope' \in BOOLEAN
  BY <1>1, <1>2, <1>7 DEF Descoped, DeploymentInv
<1>8. CASE /\ cmd.pc = "data" /\ Writable(Todo)
           /\ data' = [data EXCEPT ![Todo] = Torn] /\ UNCHANGED deployment
  <2>1. Todo \in Declared /\ (~registered => Todo # "sql") /\ (~scope => Todo # "secrets")
    BY <1>8, TodoHeld DEF Writable, Available
  <2>. HIDE DEF Todo
  <2>. QED  BY <1>1, <1>2, <1>8, <2>1 DEF deployment, DeploymentInv
<1>9. CASE /\ cmd.pc = "release" /\ Available("sql")
           /\ data' = [data EXCEPT !["sql"] = Gone] /\ UNCHANGED deployment
  BY <1>1, <1>2, <1>9 DEF deployment, DeploymentInv
<1>10. CASE /\ cmd.pc = "register" /\ registered' = TRUE
            /\ UNCHANGED <<data, files, brokerFiles, scope>>
  BY <1>1, <1>2, <1>10 DEF DeploymentInv
<1>11. CASE /\ cmd.pc = "unscope" /\ scope /\ data["secrets"] # Empty
            /\ data' = [data EXCEPT !["secrets"] = Torn] /\ UNCHANGED deployment
  BY <1>1, <1>2, <1>11 DEF deployment, DeploymentInv
<1>12. CASE /\ cmd.pc = "scope" /\ scope' = TRUE
            /\ UNCHANGED <<data, files, brokerFiles, registered>>
  BY <1>1, <1>2, <1>12 DEF DeploymentInv
<1>. QED  BY <1>3, <1>4, <1>5, <1>6, <1>7, <1>8, <1>9, <1>10, <1>11, <1>12 DEF Halfway

(* A command that breaks off, whatever it has started or stopped.          *)
LEMMA BreakOffKeeps ==
  ASSUME AppIInv, BreakOff, Break, up' \subseteq Parts, operation' = operation
  PROVE  AppIInv'
<1>1. /\ UNCHANGED <<clock, archive>> /\ Halfway /\ cmd' = NoCommand
      /\ interrupted' = (IF cmd.kind = "restore" THEN cmd.of ELSE interrupted)
      /\ backup' = (IF data' = data /\ up' \subseteq up THEN backup ELSE Disturbed(Backups))
  BY DEF BreakOff, Abandon, CmdIdle
<1>2. backup' \in [Backups -> BackupType] /\ \A b \in Backups : BackupAt(b)'
  <2>1. data' = data /\ up' \subseteq up => Steady
    BY DEF Steady
  <2>. QED  BY <1>1, <2>1, CmdBackups
<1>3. breaks' \in Nat /\ breaks' # 0
  BY DEF AppIInv, TypeInv, Break
<1>4. TypeInv'
  BY <1>1, <1>2, <1>3, HalfwayKeeps, CmdTypes, NoCommandType DEF AppIInv, TypeInv
<1>5. CmdInv' /\ RestoreInv'
  BY <1>1, NoCommandType DEF CmdInv, RestoreInv
<1>6. DeploymentInv'
  BY <1>1, HalfwayKeeps, NoCommandType DEF AppIInv, DeploymentInv, StartSteps
<1>7. ServiceInv'
  BY <1>3 DEF ServiceInv
<1>. QED  BY <1>2, <1>4, <1>5, <1>6, <1>7 DEF AppIInv

(* A step fails, with its part started, stopped or neither.                *)
LEMMA CmdFailsKeeps ==
  ASSUME AppIInv, CmdFails
  PROVE  AppIInv'
<1>. DEFINE p == PartOf(cmd.pc)
<1>1. p \in Parts /\ up \subseteq Parts
  BY DEF PartOf, Parts, AppIInv, TypeInv
<1>2. up' \subseteq Parts /\ operation' = operation
  BY <1>1 DEF CmdFails, Halt, Stays
<1>. QED  BY <1>2, BreakOffKeeps DEF CmdFails

(* The process dies, likewise.                                             *)
LEMMA CmdDiesKeeps ==
  ASSUME AppIInv, CmdDies
  PROVE  AppIInv'
<1>. DEFINE p == PartOf(cmd.pc)
<1>1. p \in Parts /\ up \subseteq Parts
  BY DEF PartOf, Parts, AppIInv, TypeInv
<1>2. up' \subseteq Parts /\ operation' = operation
  BY <1>1 DEF CmdDies, Halt
<1>. QED  BY <1>2, BreakOffKeeps DEF CmdDies

-----------------------------------------------------------------------------
(* The specification *)

(* A running application without backups.                                  *)
LEMMA AppInitIInv == AppInit => AppIInv
<1>. SUFFICES ASSUME AppInit PROVE AppIInv
  OBVIOUS
<1>. DEFINE r == [pc |-> "idle", sel |-> {}, got |-> <<>>, before |-> <<>>, stopped |-> {}, calm |-> TRUE,
                 flight |-> FALSE]
<1>1. r \in BackupType /\ \A b \in Backups : backup[b] = r
  BY EmptyContent DEF AppInit, BackupType
<1>2. TypeInv
  <2>1. backup \in [Backups -> BackupType]
    BY <1>1 DEF AppInit
  <2>2. 1 \in 1..MaxWrites /\ 1 \in Stamps
    BY ConstantsOK DEF Stamps
  <2>3. data \in [Declared -> Stamps] /\ clock \in 1..MaxWrites /\ breaks \in Nat
    BY <2>2 DEF AppInit
  <2>. QED  BY <2>1, <2>3, NoCommandType DEF AppInit, TypeInv
<1>3. ASSUME NEW b \in Backups PROVE BackupAt(b)
  <2>1. archive[b] = "none" /\ backup[b].pc = "idle" /\ backup[b].got = <<>>
    BY <1>1 DEF AppInit
  <2>. QED  BY <2>1, EmptyContent DEF BackupAt, StopSteps
<1>4. CmdInv /\ RestoreInv
  BY NoCommandType DEF AppInit, CmdInv, RestoreInv
<1>5. DeploymentInv
  BY NoCommandType DEF AppInit, DeploymentInv, StartSteps, Parts
<1>6. ServiceInv
  BY DEF AppInit, ServiceInv
<1>. QED  BY <1>2, <1>3, <1>4, <1>5, <1>6 DEF AppIInv

(* Every step keeps the invariant.                                         *)
LEMMA AppNextIInv == AppIInv /\ [AppNext]_appVars => AppIInv'
<1>. SUFFICES ASSUME AppIInv, [AppNext]_appVars PROVE AppIInv'
  OBVIOUS
<1>1. CASE \E c \in Declared : Write(c)
  BY <1>1, WriteKeeps
<1>2. CASE Submit \/ Dispatch \/ Execute
  BY <1>2, SubmitKeeps, ExecuteKeeps
<1>3. ASSUME NEW b \in Backups, \E S \in Selections[b] : BeginBackup(b, S)
      PROVE  AppIInv'
  BY <1>3, BeginBackupKeeps
<1>4. ASSUME NEW b \in Backups, BackupStep(b) \/ BackupDies(b)
      PROVE  AppIInv'
  BY <1>4, StopWriterKeeps, StopWriterFailsKeeps, CaptureKeeps, CaptureFailsKeeps,
     WriteArchiveKeeps,
     RestartKeeps, BackupDiesKeeps DEF BackupStep
<1>5. ASSUME NEW b \in Backups, BeginRestore(b)
      PROVE  AppIInv'
  BY <1>5, BeginRestoreKeeps
<1>6. CASE BeginApply \/ BeginUp
  BY <1>6, BeginApplyKeeps
<1>7. CASE CmdStep
  BY <1>7, StopForResetKeeps, ResetKeeps, StartPartKeeps, RestoreClassKeeps, VerifyKeeps,
     CmdRefusedKeeps DEF CmdStep
<1>8. CASE CmdFails \/ CmdDies
  BY <1>8, CmdFailsKeeps, CmdDiesKeeps
<1>9. CASE UNCHANGED appVars
  <2>1. UNCHANGED <<up, operation, data, clock, files, brokerFiles, registered, scope, backup,
                    archive,
                    cmd, interrupted, breaks>>
    BY <1>9 DEF appVars, deployment
  <2>2. TypeInv' /\ CmdInv' /\ DeploymentInv' /\ ServiceInv'
    BY <2>1 DEF AppIInv, TypeInv, CmdInv, DeploymentInv, ServiceInv
  <2>3. Steady
    BY <2>1 DEF Steady
  <2>4. \A b \in Backups : BackupAt(b)'
    BY <2>1, <2>3, BackupFrame DEF AppIInv
  <2>5. RestoreInv'
    BY <2>1, <2>3, RestoreFrame
  <2>. QED  BY <2>2, <2>4, <2>5 DEF AppIInv
<1>. QED  BY <1>1, <1>2, <1>3, <1>4, <1>5, <1>6, <1>7, <1>8, <1>9 DEF AppNext

(* The inductive invariant of backup, restore and apply, for any number of *)
(* backups, of selections, of writes and of failures.                      *)
THEOREM AppInvariance == AppSpec => []AppIInv
BY AppInitIInv, AppNextIInv, PTL DEF AppSpec

(* Every command keeps to its own steps, and an archive holds only what was*)
(* selected.                                                               *)
THEOREM AppTypeCorrect == AppSpec => []AppTypeOK
<1>1. ASSUME AppIInv PROVE AppTypeOK
  <2>1. TypeInv /\ CmdInv /\ \A b \in Backups : BackupAt(b)
    BY <1>1 DEF AppIInv
  <2>2. \A b \in Backups :
          /\ backup[b].pc \in BackupSteps \cup {"idle", "end", "dead"}
          /\ backup[b].sel \in SUBSET Declared /\ DOMAIN backup[b].got \subseteq backup[b].sel
          /\ backup[b].stopped \subseteq Parts
    BY <2>1, BackupTypes DEF BackupAt
  <2>3. /\ cmd.kind \in {"none", "restore", "apply"} /\ cmd.pc \in RestoreSteps \cup {"end"}
        /\ cmd.kind = "apply" => cmd.pc \in ApplySteps
        /\ cmd.done \subseteq Declared
    BY <2>1, CmdTypes DEF CmdInv
  <2>. QED  BY <2>1, <2>2, <2>3 DEF AppTypeOK, TypeInv
<1>. QED  BY <1>1, AppInvariance, PTL

(* executeApplicationBackupLifecycle: what is archived is, in every class, *)
(* the state at the stop of the broker, unless the backup was disturbed or *)
(* the executor, which no backup stops, then had an operation on the       *)
(* buckets in hand - though classes are captured one by one beside other   *)
(* backups and commands.                                                   *)
THEOREM OneInstant == AppSpec => []ArchiveOfOneInstant
<1>1. ASSUME AppIInv PROVE ArchiveOfOneInstant
  BY <1>1 DEF AppIInv, BackupAt, ArchiveOfOneInstant
<1>. QED  BY <1>1, AppInvariance, PTL

(* restoreApplicationState: an undisturbed restore works on a stopped      *)
(* workload and starts it on exactly what the archive holds, the erased    *)
(* classes it leaves out empty - from whatever an interrupted restore,     *)
(* apply or backup had left. Only buckets may differ, and only if the      *)
(* broker it starts resumes an operation from its journal.                 *)
THEOREM WholeRestore == AppSpec => []RestoreIsWhole
<1>1. ASSUME AppIInv PROVE RestoreIsWhole
  BY <1>1 DEF AppIInv, RestoreInv, RestoreIsWhole
<1>. QED  BY <1>1, AppInvariance, PTL

(* However many backups, restores and starts stopped the same parts, when  *)
(* all ended without a failure every part runs.                            *)
THEOREM Returns == AppSpec => []ServiceReturns
<1>1. ASSUME AppIInv PROVE ServiceReturns
  <2>. SUFFICES ASSUME cmd = NoCommand, interrupted = "none", breaks = 0,
                       \A b \in Backups : backup[b].pc \in {"idle", "end"}
                PROVE  up = Parts
    BY DEF ServiceReturns
  <2>1. ASSUME NEW p \in Parts PROVE "end" \notin Ahead(p) /\ "idle" \notin Ahead(p)
    BY DEF Ahead, RestoreSteps, BackupSteps, ResetSteps, ApplySteps, StopSteps, StartSteps,
       BuildSteps
  <2>2. Parts \ up = {}
    BY <1>1, <2>1, NoCommandType DEF AppIInv, ServiceInv
  <2>. QED  BY <1>1, <2>2 DEF AppIInv, TypeInv
<1>. QED  BY <1>1, AppInvariance, PTL

==============================================================================
