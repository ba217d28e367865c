--------------------------- MODULE TargetSession ---------------------------
(***************************************************************************)
(* Core's side of the outbound Connector sessions of one scope             *)
(* (internal/targetsession): Pool.Serve accepts connections, Accept admits *)
(* and negotiates them, Pool.Dispatch and Pool.OpenStream use them for one *)
(* request or one stream at a time, watchAdmission closes a session whose  *)
(* certificate lost admission.  Admission itself is module NodeRegistry,   *)
(* which TargetEnrollment implements.                                      *)
(*                                                                         *)
(* A session is chosen under the pool's lock and used after it; it may be  *)
(* closed, taken or broken in between.  A caller's deadline may pass while *)
(* the answer is on its way.  The Connector is external: it answers late,  *)
(* never, or repeats a record; a broken connection, which Core notices     *)
(* only by using it, is one whose records never arrive.                    *)
(* Abstractions: records are their identifier and sequence number, the     *)
(* pool is a set (the code takes its first idle session), a connection is  *)
(* used once.                                                              *)
(***************************************************************************)
EXTENDS Naturals, Sequences, FiniteSets

CONSTANTS
  Serials,          \* certificates
  Sessions,         \* bound: connections
  Callers,          \* concurrent callers
  Capacity,         \* maxScopeSessions (4)
  MaxCalls,         \* bound: calls
  LastEvent,        \* sequence number of a stream's last event
  Backlog           \* bound: records on their way to Core

ASSUME BoundAssumption ==
  /\ Sessions # {} /\ Capacity \in Nat /\ MaxCalls \in Nat
  /\ LastEvent \in Nat \ {0} /\ Backlog \in Nat

Ids == 1..MaxCalls
Free == 0    \* an id no call has

VARIABLES
  admitted, spent, current, closed,   \* NodeRegistry
  conn,      \* a connection's goroutine
  cert,      \* its certificate
  alive,     \* the session's context is not done
  busy,      \* the session's slot: the id of the call that holds it
  pool,
  toNode,    \* records on their way to the Connector
  toCore,    \* and back
  call,      \* a caller's progress
  outcome,   \* how its last call ended
  calls,     \* calls so far
  sentLate   \* history: requests written after the certificate lost admission

registry == <<admitted, spent, current, closed>>
wire == <<toNode, toCore>>
session == <<conn, cert, alive, busy, pool>>
vars == <<registry, wire, session, call, outcome, calls, sentLate>>

Registry == INSTANCE NodeRegistry

Resting == [step |-> "idle", kind |-> "request", session |-> CHOOSE s \in Sessions : TRUE,
            id |-> Free, event |-> 0]
Record == [id : Ids, event : 0..LastEvent]

TypeOK ==
  /\ Registry!TypeOK
  /\ conn \in [Sessions -> {"new", "hello", "negotiate", "add", "serve", "ended"}]
  /\ cert \in [Sessions -> Serials]
  /\ alive \in [Sessions -> BOOLEAN]
  /\ busy \in [Sessions -> Ids \cup {Free}]
  /\ pool \subseteq Sessions
  /\ toNode \in [Sessions -> Seq(Ids)] /\ toCore \in [Sessions -> Seq(Record)]
  /\ call \in [Callers -> [step : {"idle", "chosen", "check", "write", "read", "receive"},
                           kind : {"request", "stream"}, session : Sessions,
                           id : Ids \cup {Free}, event : 0..(LastEvent + 1)]]
  /\ outcome \in [Callers -> [ok : BOOLEAN, id : Ids \cup {Free}, event : 0..LastEvent]]
  /\ calls \in 0..MaxCalls
  /\ sentLate \in [Sessions -> 0..MaxCalls]

Init ==
  /\ Registry!Init
  /\ conn = [s \in Sessions |-> "new"]
  /\ cert \in [Sessions -> Serials]
  /\ alive = [s \in Sessions |-> FALSE]
  /\ busy = [s \in Sessions |-> Free]
  /\ pool = {}
  /\ toNode = [s \in Sessions |-> <<>>] /\ toCore = [s \in Sessions |-> <<>>]
  /\ call = [c \in Callers |-> Resting]
  /\ outcome = [c \in Callers |-> [ok |-> FALSE, id |-> Free, event |-> 0]]
  /\ calls = 0
  /\ sentLate = [s \in Sessions |-> 0]

Set(f, x, v) == [f EXCEPT ![x] = v]
Admits(s) == cert[s] \in admitted
(* Session.Close: records on their way are dropped with the connection. *)
Close(s) ==
  /\ alive' = Set(alive, s, FALSE)
  /\ toNode' = Set(toNode, s, <<>>) /\ toCore' = Set(toCore, s, <<>>)
Keep == UNCHANGED <<alive, toNode, toCore>>

-----------------------------------------------------------------------------
(* Pool.Serve and Accept *)

(* The listener also refuses connections beyond maxConnections (64).       *)
Connect(s) ==
  /\ conn[s] = "new" /\ cert[s] \in admitted \cup spent
  /\ conn' = Set(conn, s, "hello")
  /\ UNCHANGED <<registry, wire, cert, alive, busy, pool, call, outcome, calls, sentLate>>

(* Hello and AdmitTLSNode; the session and its watch begin. *)
Admit(s) ==
  /\ conn[s] = "hello"
  /\ \/ Admits(s) /\ conn' = Set(conn, s, "negotiate") /\ alive' = Set(alive, s, TRUE)
     \/ conn' = Set(conn, s, "ended") /\ UNCHANGED alive
  /\ UNCHANGED <<registry, wire, cert, busy, pool, call, outcome, calls, sentLate>>

(* The capabilities request, which no other caller can meet. *)
Negotiate(s) ==
  /\ conn[s] = "negotiate"
  /\ \/ /\ alive[s] /\ Admits(s)
        /\ conn' = Set(conn, s, "add") /\ Keep
     \/ conn' = Set(conn, s, "ended") /\ Close(s)
  /\ UNCHANGED <<registry, cert, busy, pool, call, outcome, calls, sentLate>>

(* Pool.add *)
Fits == Cardinality({x \in pool : alive[x]}) < Capacity

Add(s) ==
  /\ conn[s] = "add"
  /\ IF Fits
     THEN /\ pool' = {x \in pool : alive[x]} \cup {s}
          /\ conn' = Set(conn, s, "serve") /\ Keep
     ELSE conn' = Set(conn, s, "ended") /\ Close(s) /\ UNCHANGED pool
  /\ UNCHANGED <<registry, cert, busy, call, outcome, calls, sentLate>>

(* Pool.remove, once the session is done. *)
Remaining(s) == {x \in pool : x # s /\ alive[x]}

Remove(s) ==
  /\ conn[s] = "serve" /\ ~alive[s]
  /\ pool' = Remaining(s)
  /\ conn' = Set(conn, s, "ended")
  /\ UNCHANGED <<registry, wire, cert, alive, busy, call, outcome, calls, sentLate>>

(* watchAdmission *)
Watch(s) ==
  /\ alive[s] /\ ~Admits(s)
  /\ Close(s)
  /\ UNCHANGED <<registry, conn, cert, busy, pool, call, outcome, calls, sentLate>>

(* The lifetime of the session or the server ends. *)
Finish(s) ==
  /\ alive[s]
  /\ Close(s)
  /\ UNCHANGED <<registry, conn, cert, busy, pool, call, outcome, calls, sentLate>>

-----------------------------------------------------------------------------
(* Session.Dispatch and OpenStream *)

Idle(s) == alive[s] /\ busy[s] = Free

(* Pool.Dispatch or Pool.OpenStream chooses under its lock. *)
Choose(c, s, kind) ==
  /\ call[c].step = "idle" /\ calls < MaxCalls
  /\ s \in pool /\ Idle(s)
  /\ calls' = calls + 1
  /\ call' = Set(call, c, [step |-> "chosen", kind |-> kind, session |-> s,
                           id |-> calls + 1, event |-> 0])
  /\ outcome' = Set(outcome, c, [ok |-> FALSE, id |-> Free, event |-> 0])
  /\ UNCHANGED <<registry, wire, session, sentLate>>

To(c, step) == call' = [call EXCEPT ![c].step = step]
(* A Dispatch returns its slot; a stream never does.  Mutant: the slot is  *)
(* lost.                                                                   *)
ReleaseTwice(c) == busy' = Set(busy, call[c].session, MaxCalls + 1)
Release(c) ==
  LET s == call[c].session
  IN  busy' = IF call[c].kind = "request" /\ busy[s] = call[c].id THEN Set(busy, s, Free) ELSE busy
Return(c, result) ==
  call' = Set(call, c, Resting) /\ outcome' = Set(outcome, c, result) /\ Release(c)
Unavailable == [ok |-> FALSE, id |-> Free, event |-> 0]

(* The slot is taken without waiting.  Mutant: it is not looked at.  *)
TakeableAnyway(s) == alive[s]
Takeable(s) == Idle(s)

Take(c) ==
  LET s == call[c].session
  IN  /\ call[c].step = "chosen"
      /\ IF Takeable(s)
         THEN busy' = Set(busy, s, call[c].id) /\ To(c, "check") /\ UNCHANGED outcome
         ELSE Return(c, Unavailable)
      /\ UNCHANGED <<registry, wire, conn, cert, alive, pool, calls, sentLate>>

(* The call is cancelled before it begins, invalid, or its capability is   *)
(* not live: the session stays.  A stream is examined before it takes the  *)
(* slot.                                                                   *)
Refuse(c) ==
  /\ \/ call[c].step = "chosen"
     \/ call[c].step = "check" /\ call[c].kind = "request"
  /\ Return(c, Unavailable)
  /\ UNCHANGED <<registry, wire, conn, cert, alive, pool, calls, sentLate>>

(* AdmitTLSNode once more. *)
StillAdmitted(c) == Admits(call[c].session)

Check(c) ==
  LET s == call[c].session
  IN  /\ call[c].step = "check"
      /\ IF StillAdmitted(c)
         THEN To(c, "write") /\ Keep /\ UNCHANGED <<busy, outcome>>
         ELSE Close(s) /\ Return(c, Unavailable)
      /\ UNCHANGED <<registry, conn, cert, pool, calls, sentLate>>

Write(c) ==
  LET s == call[c].session
  IN  /\ call[c].step = "write" /\ alive[s]
      /\ toNode' = Set(toNode, s, Append(toNode[s], call[c].id))
      /\ To(c, "read")
      /\ sentLate' = Set(sentLate, s, sentLate[s] + IF Admits(s) THEN 0 ELSE 1)
      /\ UNCHANGED <<registry, toCore, session, outcome, calls>>

(* The answer must carry the identifiers of the request.  Mutant: any      *)
(* record will do.                                                         *)
MatchesAny(c, r) == r.event = call[c].event
Matches(c, r) == r.id = call[c].id /\ r.event = call[c].event

Taken(s) == toCore' = Set(toCore, s, Tail(toCore[s])) /\ UNCHANGED <<alive, toNode>>

Read(c) ==
  LET s == call[c].session
      r == Head(toCore[s])
  IN  /\ call[c].step = "read" /\ call[c].kind = "request"
      /\ alive[s] /\ toCore[s] # <<>>
      /\ IF Matches(c, r)
         THEN Return(c, [ok |-> TRUE, id |-> r.id, event |-> 0]) /\ Taken(s)
         ELSE Return(c, Unavailable) /\ Close(s)
      /\ UNCHANGED <<registry, conn, cert, pool, calls, sentLate>>

(* Stream.matches *)
InSequence(c, r) == r.id = call[c].id /\ r.event = call[c].event + 1

(* OpenStream waits for "ready", event 1; receive hands the events on in   *)
(* sequence to the last; the session is closed on every outcome.           *)
Receive(c) ==
  LET s == call[c].session
      r == Head(toCore[s])
      expected == [call EXCEPT ![c].event = call[c].event + 1]
      last == r.event = LastEvent
  IN  /\ call[c].step \in {"read", "receive"} /\ call[c].kind = "stream"
      /\ alive[s] /\ toCore[s] # <<>>
      /\ IF InSequence(c, r)
         THEN IF last
              THEN Return(c, [ok |-> TRUE, id |-> r.id, event |-> outcome[c].event + 1]) /\ Close(s)
              ELSE /\ call' = [expected EXCEPT ![c].step = "receive"]
                   /\ outcome' = [outcome EXCEPT ![c].event = outcome[c].event + 1]
                   /\ Taken(s) /\ UNCHANGED busy
         ELSE Return(c, Unavailable) /\ Close(s)
      /\ UNCHANGED <<registry, conn, cert, pool, calls, sentLate>>

(* A deadline, a cancellation or a failing connection closes the session   *)
(* (the AfterFuncs of Dispatch and OpenStream), and then the call returns. *)
Retire(c) == Close(call[c].session)

(* Mutant: a stream has no deadline. *)
GiveUpRequest(c) ==
  /\ call[c].kind = "request" /\ call[c].step \in {"check", "write", "read"}
  /\ alive[call[c].session]
  /\ Retire(c)
  /\ UNCHANGED <<registry, conn, cert, pool, call, outcome, busy, calls, sentLate>>
GiveUp(c) ==
  /\ call[c].step \in {"check", "write", "read", "receive"} /\ alive[call[c].session]
  /\ Retire(c)
  /\ UNCHANGED <<registry, conn, cert, pool, call, outcome, busy, calls, sentLate>>

Fail(c) ==
  /\ call[c].step \in {"check", "write", "read", "receive"} /\ ~alive[call[c].session]
  /\ Return(c, Unavailable)
  /\ UNCHANGED <<registry, wire, conn, cert, alive, pool, calls, sentLate>>

-----------------------------------------------------------------------------
(* The Connector and the network. *)

Send(s, r) == Len(toCore[s]) < Backlog /\ toCore' = Set(toCore, s, Append(toCore[s], r))

(* It answers a request or opens a stream.  What it does after Core closed *)
(* the connection reaches nobody.                                          *)
Answer(s) ==
  /\ alive[s] /\ toNode[s] # <<>>
  /\ \E event \in {0, 1} : Send(s, [id |-> Head(toNode[s]), event |-> event])
  /\ toNode' = Set(toNode, s, Tail(toNode[s]))
  /\ UNCHANGED <<registry, session, call, outcome, calls, sentLate>>

(* The next event of a stream, or a record it has sent before. *)
Emit(s) ==
  /\ alive[s]
  /\ \E c \in Callers :
       /\ call[c].session = s /\ call[c].step \in {"read", "receive"}
       /\ \E r \in {[id |-> call[c].id, event |-> e] : e \in {call[c].event, call[c].event + 1}}
                  \cup {[id |-> i, event |-> 0] : i \in 1..(call[c].id - 1)} :
            Send(s, r)
  /\ UNCHANGED <<registry, toNode, session, call, outcome, calls, sentLate>>

(* Steps of the registry that sessions can see. *)
Enroll == Registry!Next /\ admitted' # admitted
          /\ UNCHANGED <<wire, session, call, outcome, calls, sentLate>>

Serve(s) == Admit(s) \/ Negotiate(s) \/ Add(s) \/ Remove(s)
Proceed(c) == Take(c) \/ Refuse(c) \/ Check(c) \/ Write(c) \/ Read(c) \/ Receive(c) \/ Fail(c)
Peer(s) == Answer(s) \/ Emit(s)

Next ==
  \/ Enroll
  \/ \E s \in Sessions : Connect(s) \/ Serve(s) \/ Watch(s) \/ Finish(s) \/ Peer(s)
  \/ \E c \in Callers : Proceed(c) \/ GiveUp(c)
  \/ \E c \in Callers, s \in Sessions, kind \in {"request", "stream"} : Choose(c, s, kind)

Spec == Init /\ [][Next]_vars

(* Goroutines run, tickers tick and deadlines pass; nothing is assumed of  *)
(* the Connector, the network or the registry.                             *)
FairSpec ==
  /\ Spec
  /\ \A s \in Sessions : WF_vars(Serve(s)) /\ WF_vars(Watch(s))
  /\ \A c \in Callers : WF_vars(Proceed(c)) /\ WF_vars(GiveUp(c))
-----------------------------------------------------------------------------
(* Properties *)

Using(c, s) == call[c].session = s /\ call[c].step \in {"check", "write", "read", "receive"}

(* A session carries one request or stream at a time, though it is chosen  *)
(* under one lock and used under none.                                     *)
OneInFlight ==
  \A c, d \in Callers, s \in Sessions : Using(c, s) /\ Using(d, s) => c = d

(* An answer handed to a caller answers its own request: late and repeated *)
(* records never meet the next one.  "Failed or cancelled dispatch always  *)
(* retires the connection": a call that wrote its request and got no       *)
(* answer leaves a closed session.                                         *)
AnswerOrRetire ==
  [][\A c \in Callers :
       /\ outcome'[c].ok /\ ~outcome[c].ok => outcome'[c].id = call[c].id
       /\ call[c].step \in {"read", "receive"} /\ call'[c].step = "idle" /\ ~outcome'[c].ok
            => ~alive'[call[c].session]]_vars

(* A stream that ends well handed on every event in order.                 *)
StreamIsWhole ==
  \A c \in Callers : outcome[c].ok /\ outcome[c].event > 0 => outcome[c].event = LastEvent

(* After its certificate lost admission a session carries at most one more *)
(* request: the one that had passed its check.                             *)
LateAtMostOnce == \A s \in Sessions : sentLate[s] <= 1

(* What keeps the exchanges on one connection apart. *)
ExchangesApart == OneInFlight /\ StreamIsWhole /\ LateAtMostOnce

(* A session whose certificate lost admission is closed, used or not.      *)
RevokedCloses == \A s \in Sessions : alive[s] /\ cert[s] \in spent ~> ~alive[s]

(* A session that is done leaves the pool and returns its connection slot. *)
DoneLeaves == \A s \in Sessions : conn[s] = "serve" /\ ~alive[s] ~> conn[s] = "ended" /\ s \notin pool

(* Every call returns. *)
CallReturns == \A c \in Callers : call[c].step # "idle" ~> call[c].step = "idle"

(* Nothing waits for a Connector for ever. *)
NothingHangs == CallReturns /\ RevokedCloses /\ DoneLeaves
=============================================================================
