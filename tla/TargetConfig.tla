---------------------------- MODULE TargetConfig ----------------------------
(***************************************************************************)
(* The file that defines the Targets, the operator's selection of one, and *)
(* the recovery copies of detached definitions (internal/deployment and    *)
(* cmd/baha's target commands).  Commands are processes of their own: each *)
(* reads the file, plans, asks its operator for consent, and writes        *)
(* minutes later.  A write takes a non-blocking file lock; SaveExpected    *)
(* refuses if the bytes differ from those the plan read, the older Save    *)
(* (prompt settings, operator authentication, the rollback of a node) does *)
(* not look.  Detaching a Target first links its recovery copy, then       *)
(* blocks the selection that meant it, then replaces the file; the process *)
(* may die, or an operation fail, before each.                             *)
(* Abstractions: a definition includes its access entry; of the rest of    *)
(* the file only the default Target is kept; the lifecycle lock of a       *)
(* Target, taken only where it has a state directory, is left out; nobody  *)
(* edits the file by hand.                                                 *)
(***************************************************************************)
EXTENDS Naturals, FiniteSets

CONSTANTS
  Names, Definitions,
  Local,            \* the name "local", which may be activated without a definition
  Commands,         \* concurrent commands
  MaxCommands,      \* bound: commands run
  None, Detached    \* no definition, name or holder; "!detached:" in front of a name

ASSUME BoundAssumption == MaxCommands \in Nat

\* what is written for "nothing", and a blocked selection, is told apart from
\* every name and every process
ASSUME NamingAssumption ==
  /\ Names # {} /\ None \notin Names /\ None \notin Commands
  /\ \A n \in Names : <<Detached, n>> \notin Names /\ <<Detached, n>> # None

VARIABLES
  config,       \* [targets, default]
  selection,    \* active-target: nothing, a name, or <<Detached, name>>
  recovery,     \* target-recovery: copies, never overwritten
  lock,         \* .installation.lock of the configuration directory
  command,
  ran,          \* commands started
  removed       \* history: what detaching took out of the file

vars == <<config, selection, recovery, lock, command, ran, removed>>

Config == [targets : [Names -> Definitions \cup {None}], default : Names \cup {None}]
Selection == Names \cup {None} \cup ({Detached} \X Names)
Copy == Names \X Definitions
Idle == [step |-> "idle", kind |-> "detach", name |-> CHOOSE n \in Names : TRUE, def |-> None,
         plan |-> [targets |-> [n \in Names |-> None], default |-> None], selected |-> None]

TypeOK ==
  /\ config \in Config
  /\ selection \in Selection
  /\ recovery \subseteq Copy /\ removed \subseteq Copy
  /\ lock \in Commands \cup {None}
  /\ command \in [Commands ->
       [step : {"idle", "consent", "lock", "compare", "preserve", "select", "replace"},
        kind : {"create", "update", "detach", "restore", "save", "rollback"},
        name : Names, def : Definitions \cup {None}, plan : Config, selected : Selection]]
  /\ ran \in 0..MaxCommands

Init ==
  /\ config = [targets |-> [n \in Names |-> None], default |-> None]
  /\ selection = None
  /\ recovery = {} /\ removed = {}
  /\ lock = None
  /\ command = [c \in Commands |-> Idle]
  /\ ran = 0

Step(c, s) == command' = [command EXCEPT ![c].step = s]

-----------------------------------------------------------------------------
(* What a command without --target or BASEHARBOR_TARGET works on *)

Failure == <<Detached>>    \* not a name: the command fails

selectedTargetName(cfg, sel) ==
  LET configured == {n \in Names : cfg.targets[n] # None} IN
  CASE sel \in Names -> IF sel \in configured \cup {Local} THEN sel ELSE Failure
    [] sel \notin Names /\ sel # None -> Failure
    [] sel = None /\ cfg.default # None -> cfg.default
    [] sel = None /\ cfg.default = None ->
         IF configured = {} THEN None    \* the implicit local Target
         ELSE IF Cardinality(configured) = 1 THEN CHOOSE n \in configured : TRUE ELSE Failure

SelectionBlocked(cfg, sel, n) ==
  \/ sel \in {n, <<Detached, n>>}
  \/ sel = None /\ cfg.default \in {None, n}

-----------------------------------------------------------------------------
(* Planning *)

\* createTarget's, detach's and restore's conditions on the file they read
Plannable(kind, n, d) ==
  CASE kind = "create" -> config.targets[n] = None /\ d # None
    [] kind = "update" -> d # None
    [] kind = "detach" -> config.targets[n] # None /\ d = config.targets[n]
    [] kind = "restore" -> config.targets[n] = None /\ <<n, d>> \in recovery
    [] kind = "save" -> d = config.targets[n]      \* nothing of a Target changes
    [] kind = "rollback" -> config.targets[n] # None /\ d = None

Plan(c, kind, n, d) ==
  /\ command[c].step = "idle" /\ ran < MaxCommands
  /\ Plannable(kind, n, d)
  /\ command' = [command EXCEPT ![c] =
       [step |-> IF kind \in {"detach", "restore"} THEN "consent" ELSE "lock",
        kind |-> kind, name |-> n, def |-> d, plan |-> config, selected |-> selection]]
  /\ ran' = ran + 1
  /\ UNCHANGED <<config, selection, recovery, lock, removed>>

\* changeTargetDefinition plans again after the consent and compares
Confirm(c) ==
  /\ command[c].step = "consent"
  /\ IF config = command[c].plan /\ selection = command[c].selected
       THEN Step(c, "lock") ELSE command' = [command EXCEPT ![c] = Idle]
  /\ UNCHANGED <<config, selection, recovery, lock, ran, removed>>

-----------------------------------------------------------------------------
(* saveWithPreparation *)

Lock(c) ==
  /\ command[c].step = "lock"
  /\ IF lock = None THEN lock' = c /\ Step(c, "compare")
                    ELSE command' = [command EXCEPT ![c] = Idle] /\ UNCHANGED lock
  /\ UNCHANGED <<config, selection, recovery, ran, removed>>

\* the command returns, with or without an error, or its process dies
Leave(c) ==
  /\ command' = [command EXCEPT ![c] = Idle]
  /\ lock' = IF lock = c THEN None ELSE lock

\* a mutant: Save's comparison, which is none, for every command
AnyBytes(c) == TRUE

\* SaveExpected; Save compares nothing
ExpectedBytes(c) == command[c].kind \in {"save", "rollback"} \/ config = command[c].plan

Compare(c) ==
  /\ command[c].step = "compare"
  /\ IF ExpectedBytes(c)
       THEN /\ Step(c, IF command[c].kind = "detach" THEN "preserve" ELSE "replace")
            /\ UNCHANGED lock
       ELSE Leave(c)
  /\ UNCHANGED <<config, selection, recovery, ran, removed>>

\* writeTargetRecoveryOwner
Preserve(c) ==
  /\ command[c].step = "preserve"
  /\ recovery' = recovery \cup {<<command[c].name, command[c].def>>}
  /\ Step(c, "select")
  /\ UNCHANGED <<config, selection, lock, ran, removed>>

\* a mutant: the selection is blocked without looking at it again
SameSelectionAssumed(c) == TRUE

SameSelection(c) == selection = command[c].selected

\* prepareSelection
Select(c) ==
  LET n == command[c].name IN
  /\ command[c].step = "select"
  /\ IF SameSelection(c)
       THEN /\ selection' = IF SelectionBlocked(command[c].plan, command[c].selected, n)
                              THEN <<Detached, n>> ELSE selection
            /\ Step(c, "replace")
            /\ UNCHANGED lock
       ELSE Leave(c) /\ UNCHANGED selection
  /\ UNCHANGED <<config, recovery, ran, removed>>

\* what the command writes: its own entry in the file that it read
Desired(c) ==
  LET n == command[c].name
      gone == command[c].kind \in {"detach", "rollback"} IN
  [targets |-> [command[c].plan.targets EXCEPT ![n] = IF gone THEN None ELSE command[c].def],
   default |-> IF gone /\ command[c].plan.default = n THEN None ELSE command[c].plan.default]

\* saveAt; createTarget may make its Target the default
Replace(c) ==
  /\ command[c].step = "replace"
  /\ \/ config' = Desired(c)
     \/ command[c].kind = "create" /\ config' = [Desired(c) EXCEPT !.default = command[c].name]
  /\ removed' = IF command[c].kind = "detach"
                  THEN removed \cup {<<command[c].name, config.targets[command[c].name]>>}
                  ELSE removed
  /\ Leave(c)
  /\ UNCHANGED <<selection, recovery, ran>>

\* an error or the death of the process, between any two steps
Stop(c) ==
  /\ command[c].step # "idle"
  /\ Leave(c)
  /\ UNCHANGED <<config, selection, recovery, ran, removed>>

\* mutatePersistedTarget, under the same lock: activate and deactivate
Activate(n) ==
  /\ lock = None /\ ran < MaxCommands
  /\ selection' = n
  /\ ran' = ran + 1
  /\ UNCHANGED <<config, recovery, lock, command, removed>>

Work(c) == Confirm(c) \/ Lock(c) \/ Compare(c) \/ Preserve(c) \/ Select(c) \/ Replace(c) \/ Stop(c)

Next ==
  \/ \E c \in Commands :
       \/ Work(c)
       \/ \E kind \in {"create", "update", "detach", "restore", "save", "rollback"},
             n \in Names, d \in Definitions \cup {None} : Plan(c, kind, n, d)
  \/ \E n \in Names \cup {None} : Activate(n)

Spec == Init /\ [][Next]_vars

-----------------------------------------------------------------------------
(* Properties *)

\* Whatever a detach took out of the file, exactly that definition has a
\* recovery copy: the copy is made from the plan's bytes minutes earlier, and
\* the Target may have been changed, detached or restored in between.
DetachedIsRecoverable == removed \subseteq recovery

\* A command that compares changes its own Target's entry and nothing else,
\* though it writes the whole file from an old copy of it, beside commands
\* that compare nothing; and a created or restored Target never takes the
\* place of one that is defined.
OthersPreserved ==
  [][\A c \in Commands :
       LET n == command[c].name
           k == command[c].kind IN
       /\ command[c].step = "replace" /\ command'[c].step = "idle"
       /\ k \notin {"save", "rollback"}
       => /\ \A o \in Names \ {n} : config'.targets[o] = config.targets[o]
          /\ k \in {"create", "restore"} /\ config' # config => config.targets[n] = None]_vars

\* Detaching never moves commands on to another Target: at each of its steps,
\* also the last one before a crash, what they resolve to stays or becomes a
\* failure, not another Target and not the implicit local one.
NoSilentHandoff ==
  [][\A c \in Commands :
       command[c].kind = "detach" /\ command[c].step \in {"select", "replace"}
       /\ command'[c].step # command[c].step
       => selectedTargetName(config', selection')
            \in {selectedTargetName(config, selection), Failure}]_vars

=============================================================================
