-------------------------- MODULE MachineTerminal --------------------------
(***************************************************************************)
(* The interactive terminals of the machine API (internal/machinehttp,     *)
(* terminal.go and terminal_store.go, over runtime/terminal's PTY).        *)
(*                                                                         *)
(* One handler opens a terminal: it reserves a record, audits the          *)
(* admission, starts the process and arms the terminal's lifetime.  Other  *)
(* requests use the record: one attaches to the output, others send input  *)
(* or close it.  A terminal is ended by cancelling its context, which      *)
(* many goroutines may do: the attachment when it ends, the timer of an    *)
(* unattached terminal, a failed input, a denied or closing request, the   *)
(* session deadline.  The goroutine that waits for that closes the PTY,    *)
(* frees the record and audits the close, in this order.                   *)
(* Abstractions: an input is its sequence number; output is left out; a    *)
(* foreign actor's request changes nothing and is left out; of the audit   *)
(* only the failure of the admission's entry changes anything, the others  *)
(* are written and not looked at.  The process is external.                *)
(***************************************************************************)
EXTENDS Naturals, Sequences, FiniteSets

CONSTANTS
  Terminals,      \* bound: terminals ever opened, numbered as they come
  Used,           \* bound: the terminals a request names
  Actors,
  Requests,       \* concurrent requests on open terminals
  MaxTotal,       \* reserve's limit (16)
  MaxPerActor,    \* reserve's limit per actor (4)
  MaxInput        \* bound: input sequence numbers a client uses

ASSUME LimitAssumption ==
  /\ Terminals \subseteq Nat /\ Terminals # {} /\ Used \subseteq Terminals
  /\ MaxTotal \in Nat /\ MaxPerActor \in Nat /\ MaxInput \in Nat

VARIABLES
  open,       \* progress of handleTerminalOpen
  owner,      \* descriptor.Actor
  store,      \* terminalStore.records
  live,       \* record.ctx is not done
  pty,        \* the process session
  ready,      \* record.session is set
  attached,
  input,      \* inputSequence
  timer,      \* of the unattached terminal
  cleanup,    \* the function that waits for the context
  request,    \* progress of a request
  applied     \* history: the inputs that may have reached the process

record == <<owner, store, live, ready, attached, input>>
life == <<pty, timer, cleanup>>
terminalVars == <<open, record, life, request, applied>>

Idle == [step |-> "idle", terminal |-> CHOOSE t \in Terminals : TRUE, sequence |-> 0]

TerminalTypeOK ==
  /\ open \in [Terminals -> {"new", "audit", "start", "set", "lifetime", "ended"}]
  /\ owner \in [Terminals -> Actors]
  /\ store \subseteq Terminals
  /\ live \in [Terminals -> BOOLEAN]
  /\ pty \in [Terminals -> {"none", "running", "exited", "closed"}]
  /\ ready \in [Terminals -> BOOLEAN] /\ attached \in [Terminals -> BOOLEAN]
  /\ input \in [Terminals -> 0..MaxInput]
  /\ timer \in [Terminals -> {"off", "armed", "fired"}]
  /\ cleanup \in [Terminals -> {"none", "waiting", "remove", "audit", "done"}]
  /\ request \in [Requests -> [step : {"idle", "authorized", "write", "file", "wrote",
                                       "stream", "wait"},
                               terminal : Terminals, sequence : 0..MaxInput]]
  /\ applied \in [Terminals -> Seq(1..MaxInput)]

TerminalInit ==
  /\ open = [t \in Terminals |-> "new"]
  /\ owner \in [Terminals -> Actors]
  /\ store = {}
  /\ live = [t \in Terminals |-> TRUE]
  /\ pty = [t \in Terminals |-> "none"]
  /\ ready = [t \in Terminals |-> FALSE] /\ attached = [t \in Terminals |-> FALSE]
  /\ input = [t \in Terminals |-> 0]
  /\ timer = [t \in Terminals |-> "off"] /\ cleanup = [t \in Terminals |-> "none"]
  /\ request = [q \in Requests |-> Idle]
  /\ applied = [t \in Terminals |-> <<>>]

Set(f, x, v) == [f EXCEPT ![x] = v]

-----------------------------------------------------------------------------
(* handleTerminalOpen *)

TerminalRoom(a) ==
  /\ Cardinality(store) < MaxTotal
  /\ Cardinality({t \in store : owner[t] = a}) < MaxPerActor

Reserve(t) ==
  /\ open[t] = "new" /\ \A u \in Terminals : u < t => open[u] # "new"
  /\ IF TerminalRoom(owner[t])
       THEN /\ store' = store \cup {t} /\ open' = Set(open, t, "audit")
            /\ UNCHANGED live
       ELSE /\ live' = Set(live, t, FALSE) /\ open' = Set(open, t, "ended")
            /\ UNCHANGED store
  /\ UNCHANGED <<owner, ready, attached, input, life, request, applied>>

Admit(t) ==
  /\ open[t] = "audit"
  /\ \/ /\ open' = Set(open, t, "start")
        /\ UNCHANGED <<live, store>>
     \/ /\ live' = Set(live, t, FALSE) /\ store' = store \ {t}
        /\ open' = Set(open, t, "ended")
  /\ UNCHANGED <<owner, ready, attached, input, life, request, applied>>

\* terminal.Start refuses a context that is already done
StartPTY(t) ==
  /\ open[t] = "start"
  /\ \/ /\ live[t]
        /\ pty' = Set(pty, t, "running")
        /\ open' = Set(open, t, "set")
        /\ UNCHANGED <<live, store>>
     \/ /\ live' = Set(live, t, FALSE) /\ store' = store \ {t}
        /\ open' = Set(open, t, "ended")
        /\ UNCHANGED pty
  /\ UNCHANGED <<owner, ready, attached, input, timer, cleanup, request, applied>>

Unlocked(t) ==
  \A q \in Requests : request[q].terminal = t => request[q].step \notin {"write", "file", "wrote"}

SetSession(t) ==
  /\ open[t] = "set" /\ Unlocked(t)
  /\ ready' = Set(ready, t, TRUE)
  /\ open' = Set(open, t, "lifetime")
  /\ UNCHANGED <<owner, store, live, attached, input, life, request, applied>>

startLifetime(t) ==
  /\ open[t] = "lifetime"
  /\ timer' = Set(timer, t, "armed") /\ cleanup' = Set(cleanup, t, "waiting")
  /\ open' = Set(open, t, "ended")
  /\ UNCHANGED <<record, pty, request, applied>>

Opening(t) ==
  Reserve(t) \/ Admit(t) \/ StartPTY(t) \/ SetSession(t) \/ startLifetime(t)

-----------------------------------------------------------------------------
(* The terminal's lifetime *)

\* ten seconds after startLifetime
TimerReads(t) ==
  /\ timer[t] = "armed" /\ Unlocked(t)
  /\ timer' = Set(timer, t, IF attached[t] THEN "off" ELSE "fired")
  /\ UNCHANGED <<open, record, pty, cleanup, request, applied>>

TimerCancels(t) ==
  /\ timer[t] = "fired"
  /\ timer' = Set(timer, t, "off")
  /\ live' = Set(live, t, FALSE)
  /\ UNCHANGED <<open, owner, store, ready, attached, input, pty, cleanup, request, applied>>

\* token expiry or streamMaxRuntime
Deadline(t) ==
  /\ t \in store /\ live[t]
  /\ live' = Set(live, t, FALSE)
  /\ UNCHANGED <<open, owner, store, ready, attached, input, life, request, applied>>

CleanupCloses(t) ==
  /\ cleanup[t] = "waiting" /\ ~live[t]
  /\ timer' = [timer EXCEPT ![t] = IF @ = "armed" THEN "off" ELSE @]
  /\ pty' = Set(pty, t, "closed")
  /\ cleanup' = Set(cleanup, t, "remove")
  /\ UNCHANGED <<open, record, request, applied>>

CleanupRemoves(t) ==
  /\ cleanup[t] = "remove"
  /\ store' = store \ {t}
  /\ cleanup' = Set(cleanup, t, "audit")
  /\ UNCHANGED <<open, owner, live, ready, attached, input, pty, timer, request, applied>>

CleanupAudits(t) ==
  /\ cleanup[t] = "audit"
  /\ cleanup' = Set(cleanup, t, "done")
  /\ UNCHANGED <<open, record, pty, timer, request, applied>>

\* processSession closes itself when its context is done
PTYCloses(t) ==
  /\ pty[t] \in {"running", "exited"} /\ ~live[t]
  /\ pty' = Set(pty, t, "closed")
  /\ UNCHANGED <<open, record, timer, cleanup, request, applied>>

\* external
Exits(t) ==
  /\ pty[t] = "running"
  /\ pty' = Set(pty, t, "exited")
  /\ UNCHANGED <<open, record, timer, cleanup, request, applied>>

Timers(t) == TimerReads(t) \/ TimerCancels(t)
Cleanup(t) == CleanupCloses(t) \/ CleanupRemoves(t) \/ CleanupAudits(t) \/ PTYCloses(t)

-----------------------------------------------------------------------------
(* Requests on an open terminal *)

Step(q, s) == request' = [request EXCEPT ![q].step = s]
Done(q) == request' = Set(request, q, Idle)

\* authorizedTerminal: the record is found and its context checked here.  The
\* session, once set, stays set: it is looked at with the request's own step.
Arrive(q, t) ==
  /\ request[q].step = "idle"
  /\ t \in store /\ live[t]
  /\ \E n \in 0..MaxInput :
       request' = Set(request, q, [step |-> "authorized", terminal |-> t, sequence |-> n])
  /\ UNCHANGED <<open, record, life, applied>>

\* the operator lost the permission
Denied(q) ==
  /\ request[q].step = "authorized"
  /\ live' = Set(live, request[q].terminal, FALSE)
  /\ Done(q)
  /\ UNCHANGED <<open, owner, store, ready, attached, input, life, applied>>

Starting(q) ==
  /\ request[q].step = "authorized"
  /\ ~ready[request[q].terminal]
  /\ Done(q)
  /\ UNCHANGED <<open, record, life, applied>>

Authorized(q) == request[q].step = "authorized" /\ ready[request[q].terminal]

handleTerminalClose(q) ==
  /\ Authorized(q) /\ request[q].sequence = 0
  /\ live' = Set(live, request[q].terminal, FALSE)
  /\ Done(q)
  /\ UNCHANGED <<open, owner, store, ready, attached, input, life, applied>>

Attach(q) ==
  LET t == request[q].terminal IN
  /\ Authorized(q) /\ request[q].sequence = 0
  /\ Unlocked(t)
  /\ attached' = Set(attached, t, TRUE)
  /\ IF attached[t] THEN Done(q) ELSE Step(q, "stream")
  /\ UNCHANGED <<open, owner, store, live, ready, input, life, applied>>

\* a mutant: the terminal outlives its attachment
DetachOnly(q) ==
  /\ request[q].step = "stream"
  /\ Done(q)
  /\ UNCHANGED <<open, record, life, applied>>

\* the client's connection is gone, or a write to it fails or times out
Detach(q) ==
  /\ request[q].step = "stream"
  /\ live' = Set(live, request[q].terminal, FALSE)
  /\ Done(q)
  /\ UNCHANGED <<open, owner, store, ready, attached, input, life, applied>>

ReadFails(q) ==
  /\ request[q].step = "stream"
  /\ pty[request[q].terminal] # "running" \/ ~live[request[q].terminal]
  /\ Step(q, "wait")
  /\ UNCHANGED <<open, record, life, applied>>

\* Wait answers for a process that ended, or for the context
Wait(q) ==
  LET t == request[q].terminal IN
  /\ request[q].step = "wait"
  /\ pty[t] \in {"exited", "closed"} \/ ~live[t]
  /\ live' = Set(live, t, FALSE)
  /\ Done(q)
  /\ UNCHANGED <<open, owner, store, ready, attached, input, life, applied>>

\* a mutant: the sequence is compared with the last one, not with the next
ConsumeLast(q) ==
  LET t == request[q].terminal
      n == request[q].sequence IN
  /\ Authorized(q)
  /\ Unlocked(t)
  /\ IF n = input[t] THEN Step(q, "write") ELSE Done(q)
  /\ UNCHANGED <<open, record, life, applied>>

\* handleTerminalInput takes record.mu and keeps it until it returns
Consume(q) ==
  LET t == request[q].terminal
      n == request[q].sequence IN
  /\ Authorized(q) /\ n # 0
  /\ Unlocked(t)
  /\ IF n = input[t] + 1 THEN input' = Set(input, t, n) /\ Step(q, "write")
                         ELSE Done(q) /\ UNCHANGED input
  /\ UNCHANGED <<open, owner, store, live, ready, attached, life, applied>>

\* processSession.Write looks at its context, then writes to the PTY
CheckedWrite(q) ==
  LET t == request[q].terminal IN
  /\ request[q].step = "write"
  /\ live[t] /\ pty[t] # "closed"
  /\ Step(q, "file")
  /\ UNCHANGED <<open, record, life, applied>>

FileWrite(q) ==
  LET t == request[q].terminal IN
  /\ request[q].step = "file"
  /\ pty[t] = "running"
  /\ applied' = [applied EXCEPT ![t] = Append(@, request[q].sequence)]
  /\ Step(q, "wrote")
  /\ UNCHANGED <<open, record, life>>

\* a mutant: the terminal survives a failed input
WriteFailsAlone(q) ==
  /\ request[q].step \in {"write", "file"}
  /\ Done(q)
  /\ UNCHANGED <<open, record, life, applied>>

\* an error of either step; a failed write may have reached the process in part
WriteFails(q) ==
  LET t == request[q].terminal IN
  /\ \/ request[q].step = "write" /\ (~live[t] \/ pty[t] = "closed") /\ UNCHANGED applied
     \/ /\ request[q].step = "file"
        /\ \/ /\ pty[t] = "running"
              /\ applied' = [applied EXCEPT ![t] = Append(@, request[q].sequence)]
           \/ UNCHANGED applied
  /\ live' = Set(live, t, FALSE)
  /\ Done(q)
  /\ UNCHANGED <<open, owner, store, ready, attached, input, life>>

\* five seconds, or the end of the terminal's context, close the PTY under
\* a write; also one that has just returned
WriteDeadline(q) ==
  /\ request[q].step \in {"write", "file", "wrote"}
  /\ pty' = Set(pty, request[q].terminal, "closed")
  /\ UNCHANGED <<open, record, timer, cleanup, request, applied>>

Accepted(q) ==
  /\ request[q].step = "wrote"
  /\ Done(q)
  /\ UNCHANGED <<open, record, life, applied>>

Handle(q) ==
  \/ Denied(q) \/ Starting(q) \/ handleTerminalClose(q) \/ Attach(q)
  \/ Consume(q) \/ CheckedWrite(q) \/ FileWrite(q) \/ WriteFails(q) \/ Accepted(q)
Streaming(q) == ReadFails(q) \/ Wait(q)

TerminalNext ==
  \/ \E t \in Terminals : Opening(t) \/ Timers(t) \/ Cleanup(t) \/ Deadline(t) \/ Exits(t)
  \/ \E q \in Requests : Handle(q) \/ Streaming(q) \/ Detach(q) \/ WriteDeadline(q)
  \/ \E q \in Requests, t \in Used : Arrive(q, t)

TerminalSpec == TerminalInit /\ [][TerminalNext]_terminalVars

\* every goroutine goes on and every timer fires; a client may stay connected
\* and a process may run for ever
TerminalFairSpec ==
  /\ TerminalSpec
  /\ \A t \in Terminals : /\ WF_terminalVars(Opening(t)) /\ WF_terminalVars(Timers(t))
                           /\ WF_terminalVars(Cleanup(t))
  /\ \A q \in Requests : WF_terminalVars(Handle(q)) /\ WF_terminalVars(Streaming(q))

-----------------------------------------------------------------------------
(* Safety *)

\* At most MaxTotal terminals, and MaxPerActor of one operator, have a PTY
\* that is not closed: a record is freed only after its session is closed, by
\* whichever of the failure paths and the cleanup ends it.
PTYsBounded ==
  LET held == {t \in Terminals : pty[t] \in {"running", "exited"}} IN
  /\ Cardinality(held) <= MaxTotal
  /\ \A a \in Actors : Cardinality({t \in held : owner[t] = a}) <= MaxPerActor

\* What reaches the process is 1, 2, ... without a gap or a repetition, though
\* requests race for record.mu and writes fail: a sequence number is consumed
\* before its write, and no input follows one that was lost.
InputsInOrder ==
  \A t \in Terminals : \A i \in 1..Len(applied[t]) : applied[t][i] = i

\* One request at a time is attached to a terminal's output.
OneAttachment ==
  \A p, q \in Requests :
    /\ {request[p].step, request[q].step} \subseteq {"stream", "wait"}
    /\ request[p].terminal = request[q].terminal
    => p = q

\* What racing requests, timers and the cleanup may never break.
TerminalSafety == PTYsBounded /\ InputsInOrder /\ OneAttachment

-----------------------------------------------------------------------------
(* Liveness *)

Attended(t) == \E q \in Requests : request[q].terminal = t /\ request[q].step \in {"stream", "wait"}

\* A terminal that nobody is attached to ends or is attended again, without
\* the help of the session deadline: never attached (the timer), attached and
\* left (the attachment's cancel), closed under a slow write.
AbandonedEnds ==
  \A t \in Terminals : t \in store ~> (t \notin store \/ Attended(t))

\* With the deadline, every terminal ends: its record is freed and its PTY is
\* closed.
EveryTerminalEnds ==
  (\A t \in Terminals : WF_terminalVars(Deadline(t))) =>
    \A t \in Terminals : t \in store ~> (t \notin store /\ pty[t] \in {"none", "closed"})

\* No terminal is left behind.
TerminalsEnd == AbandonedEnds /\ EveryTerminalEnds

=============================================================================
