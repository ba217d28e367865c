------------------------ MODULE TargetSession_proofs ------------------------
(***************************************************************************)
(* Proofs about Core's side of the Connector sessions, for every number of *)
(* connections, callers, calls and events of a stream, over the registry   *)
(* that module TargetEnrollment is proved to implement.                    *)
(***************************************************************************)
EXTENDS TargetSession, SequenceTheorems, TLAPS

CallSteps == {"idle", "chosen", "check", "write", "read", "receive"}
Active == {"check", "write", "read", "receive"}
Call == [step : CallSteps, kind : {"request", "stream"}, session : Sessions,
         id : Ids \cup {Free}, event : 0..(LastEvent + 1)]
Outcome == [ok : BOOLEAN, id : Ids \cup {Free}, event : 0..LastEvent]

(* Calls in progress have identifiers of their own, and a session's slot   *)
(* carries that of the call that uses it, or of one that is over.          *)
IdInv ==
  /\ \A c \in Callers : call[c].step # "idle" => call[c].id # Free /\ call[c].id <= calls
  /\ \A c, d \in Callers :
       call[c].step # "idle" /\ call[d].step # "idle" /\ call[c].id = call[d].id => c = d
  /\ \A s \in Sessions : busy[s] <= calls
  /\ \A c \in Callers : call[c].step \in Active => busy[call[c].session] = call[c].id
  /\ \A c \in Callers, s \in Sessions : call[c].step = "chosen" => busy[s] # call[c].id

(* A call in progress has handed on the events up to its own count.        *)
EventInv ==
  \A c \in Callers :
    /\ call[c].event < LastEvent
    /\ call[c].step # "idle" => ~outcome[c].ok /\ outcome[c].event = call[c].event

(* A certificate that a connection was made with never becomes admitted    *)
(* once it is not.                                                         *)
SeenInv ==
  /\ admitted \cap spent = {}
  /\ \A s \in pool : conn[s] # "new"
  /\ \A c \in Callers : call[c].step # "idle" => conn[call[c].session] # "new"
  /\ \A s \in Sessions : conn[s] # "new" => cert[s] \in admitted \cup spent

(* After the one late request no call is past its check.                   *)
LateInv ==
  \A s \in Sessions :
    \/ sentLate[s] = 0
    \/ /\ sentLate[s] = 1 /\ cert[s] \in spent
       /\ \A c \in Callers : call[c].session = s => call[c].step # "write"

IInv == TypeOK /\ IdInv /\ EventInv /\ SeenInv /\ LateInv /\ StreamIsWhole

-----------------------------------------------------------------------------
(* Records *)

(* A call at rest is one, and so is the outcome of a refused one.          *)
LEMMA RestingTyped ==
  /\ Resting \in Call /\ Resting.step = "idle" /\ Resting.event = 0
  /\ Unavailable \in Outcome /\ ~Unavailable.ok
BY BoundAssumption DEF Resting, Call, CallSteps, Unavailable, Outcome, Ids, Free

(* The type invariant in terms of those records.                           *)
LEMMA Typed ==
  ASSUME TypeOK
  PROVE  /\ call \in [Callers -> Call] /\ outcome \in [Callers -> Outcome]
         /\ calls \in Nat /\ calls <= MaxCalls /\ MaxCalls \in Nat
         /\ \A c \in Callers :
              /\ call[c].step \in CallSteps /\ call[c].session \in Sessions
              /\ call[c].id \in Nat /\ call[c].event \in Nat
              /\ call[c].id \in Ids \cup {Free}
         /\ \A s \in Sessions : busy[s] \in Nat /\ busy[s] \in Ids \cup {Free}
         /\ LastEvent \in Nat \ {0}
<1>1. call \in [Callers -> Call] /\ outcome \in [Callers -> Outcome]
  BY DEF TypeOK, Call, CallSteps, Outcome
<1>2. calls \in Nat /\ calls <= MaxCalls /\ MaxCalls \in Nat /\ LastEvent \in Nat \ {0}
  BY BoundAssumption DEF TypeOK
<1>3. \A s \in Sessions : busy[s] \in Ids \cup {Free}
  BY DEF TypeOK
<1>4. \A n \in Ids \cup {Free} : n \in Nat
  BY <1>2 DEF Ids, Free
<1>5. ASSUME NEW c \in Callers
      PROVE  /\ call[c].step \in CallSteps /\ call[c].session \in Sessions
             /\ call[c].id \in Ids \cup {Free} /\ call[c].event \in Nat
  <2>1. call[c] \in Call
    BY <1>1
  <2>2. call[c].event \in 0..(LastEvent + 1)
    BY <2>1 DEF Call
  <2>. QED  BY <1>2, <2>1, <2>2 DEF Call
<1>. QED  BY <1>1, <1>2, <1>3, <1>4, <1>5

(* Session.Close keeps the types of what it changes.                       *)
LEMMA CloseTyped ==
  ASSUME TypeOK, NEW s \in Sessions, Close(s)
  PROVE  /\ alive' \in [Sessions -> BOOLEAN] /\ ~alive'[s]
         /\ toNode' \in [Sessions -> Seq(Ids)] /\ toCore' \in [Sessions -> Seq(Record)]
<1>1. <<>> \in Seq(Ids) /\ <<>> \in Seq(Record)
  BY EmptySeq
<1>. QED  BY <1>1 DEF TypeOK, Close, Set

(* So does a step that leaves the connection alone.                        *)
LEMMA KeepTyped ==
  ASSUME TypeOK, Keep
  PROVE  /\ alive' \in [Sessions -> BOOLEAN]
         /\ toNode' \in [Sessions -> Seq(Ids)] /\ toCore' \in [Sessions -> Seq(Record)]
BY DEF TypeOK, Keep

(* So does a record that is read.                                          *)
LEMMA TakenTyped ==
  ASSUME TypeOK, NEW s \in Sessions, toCore[s] # <<>>
  PROVE  /\ Head(toCore[s]) \in Record
         /\ Taken(s) => /\ alive' \in [Sessions -> BOOLEAN]
                        /\ toNode' \in [Sessions -> Seq(Ids)]
                        /\ toCore' \in [Sessions -> Seq(Record)]
<1>1. toCore[s] \in Seq(Record)
  BY DEF TypeOK
<1>2. Head(toCore[s]) \in Record /\ Tail(toCore[s]) \in Seq(Record)
  BY <1>1, HeadTailProperties
<1>3. /\ toCore \in [Sessions -> Seq(Record)] /\ toNode \in [Sessions -> Seq(Ids)]
      /\ alive \in [Sessions -> BOOLEAN]
  BY DEF TypeOK
<1>4. Taken(s) => /\ toCore' = [toCore EXCEPT ![s] = Tail(toCore[s])]
                  /\ UNCHANGED <<alive, toNode>>
  BY DEF Taken, Set
<1>. QED  BY <1>2, <1>3, <1>4

-----------------------------------------------------------------------------
(* Sessions and the wire *)

(* The first state satisfies the invariant ...                             *)
LEMMA InitIInv == Init => IInv
<1>. SUFFICES ASSUME Init PROVE IInv
  OBVIOUS
<1>. USE RestingTyped, BoundAssumption
<1>1. /\ call \in [Callers -> Call] /\ outcome \in [Callers -> Outcome]
      /\ \A c \in Callers : call[c] = Resting /\ ~outcome[c].ok
  BY DEF Init, Outcome, Ids, Free
<1>2. /\ toNode \in [Sessions -> Seq(Ids)] /\ toCore \in [Sessions -> Seq(Record)]
  BY EmptySeq DEF Init
<1>3. Registry!TypeOK
  BY DEF Init, Registry!Init, Registry!TypeOK
<1>4. TypeOK
  BY <1>1, <1>2, <1>3 DEF Init, TypeOK, Call, CallSteps, Outcome, Free
<1>5. IdInv /\ EventInv
  BY <1>1 DEF IdInv, EventInv, Active, Init, Free
<1>6. SeenInv /\ LateInv
  BY <1>1 DEF SeenInv, LateInv, Init, Registry!Init
<1>7. StreamIsWhole
  BY <1>1 DEF StreamIsWhole
<1>. QED  BY <1>4, <1>5, <1>6, <1>7 DEF IInv

(* What a session's own goroutines and the Connector do leaves every call  *)
(* and every certificate as it is.                                         *)
LEMMA SessionStep ==
  ASSUME IInv, UNCHANGED <<registry, cert, busy, call, outcome, calls, sentLate>>,
         conn' \in [Sessions -> {"new", "hello", "negotiate", "add", "serve", "ended"}],
         alive' \in [Sessions -> BOOLEAN],
         toNode' \in [Sessions -> Seq(Ids)], toCore' \in [Sessions -> Seq(Record)],
         \A s \in Sessions : conn[s] # "new" => conn'[s] # "new",
         \A s \in Sessions : conn'[s] # "new" => conn[s] # "new" \/ cert[s] \in admitted \cup spent,
         pool' \subseteq Sessions, \A s \in pool' : s \in pool \/ conn'[s] # "new"
  PROVE  IInv'
<1>0. TypeOK /\ IdInv /\ EventInv /\ SeenInv /\ LateInv /\ StreamIsWhole
  BY DEF IInv
<1>1. TypeOK'
  BY <1>0 DEF TypeOK, Registry!TypeOK, registry
<1>2. IdInv' /\ EventInv' /\ StreamIsWhole'
  BY <1>0 DEF IdInv, EventInv, StreamIsWhole
<1>3. SeenInv'
  <2>1. \A c \in Callers : call[c].session \in Sessions
    BY <1>0, Typed
  <2>2. pool \subseteq Sessions
    BY <1>0 DEF TypeOK
  <2>. QED  BY <1>0, <2>1, <2>2 DEF SeenInv, registry
<1>4. LateInv'
  BY <1>0 DEF LateInv, registry
<1>. QED  BY <1>1, <1>2, <1>3, <1>4 DEF IInv

(* Serve, Accept, the watch and the end of a session.                      *)
LEMMA SessionKeeps ==
  ASSUME IInv, NEW s \in Sessions, Connect(s) \/ Serve(s) \/ Watch(s) \/ Finish(s)
  PROVE  IInv'
<1>0. TypeOK /\ SeenInv
  BY DEF IInv
<1>1. /\ conn \in [Sessions -> {"new", "hello", "negotiate", "add", "serve", "ended"}]
      /\ alive \in [Sessions -> BOOLEAN] /\ pool \subseteq Sessions
      /\ toNode \in [Sessions -> Seq(Ids)] /\ toCore \in [Sessions -> Seq(Record)]
  BY <1>0 DEF TypeOK
<1>2. CASE Connect(s)
  BY <1>1, <1>2, SessionStep DEF Connect, Set, wire
<1>3. CASE Admit(s)
  <2>1. /\ UNCHANGED <<registry, cert, busy, call, outcome, calls, sentLate, pool, toNode,
                       toCore>>
        /\ alive' \in [Sessions -> BOOLEAN] /\ conn[s] = "hello"
        /\ conn' = Set(conn, s, "negotiate") \/ conn' = Set(conn, s, "ended")
    BY <1>1, <1>3 DEF Admit, Set, wire
  <2>. QED  BY <1>1, <2>1, SessionStep DEF Set
<1>4. CASE Negotiate(s)
  <2>1. /\ UNCHANGED <<registry, cert, busy, call, outcome, calls, sentLate, pool>>
        /\ conn[s] = "negotiate" /\ (Keep \/ Close(s))
        /\ conn' = Set(conn, s, "add") \/ conn' = Set(conn, s, "ended")
    BY <1>4 DEF Negotiate
  <2>2. /\ alive' \in [Sessions -> BOOLEAN]
        /\ toNode' \in [Sessions -> Seq(Ids)] /\ toCore' \in [Sessions -> Seq(Record)]
    BY <1>0, <2>1, KeepTyped, CloseTyped
  <2>. QED  BY <1>1, <2>1, <2>2, SessionStep DEF Set
<1>5. CASE Add(s)
  <2>1. /\ UNCHANGED <<registry, cert, busy, call, outcome, calls, sentLate>>
        /\ conn[s] = "add" /\ (Keep \/ Close(s))
        /\ conn' = Set(conn, s, "serve") \/ conn' = Set(conn, s, "ended")
        /\ pool' \subseteq pool \cup {s}
    BY <1>5 DEF Add
  <2>2. /\ alive' \in [Sessions -> BOOLEAN]
        /\ toNode' \in [Sessions -> Seq(Ids)] /\ toCore' \in [Sessions -> Seq(Record)]
    BY <1>0, <2>1, KeepTyped, CloseTyped
  <2>. QED  BY <1>1, <2>1, <2>2, SessionStep DEF Set
<1>6. CASE Remove(s)
  BY <1>1, <1>6, SessionStep DEF Remove, Remaining, Set, wire
<1>7. CASE Watch(s) \/ Finish(s)
  <2>1. /\ UNCHANGED <<registry, conn, cert, busy, pool, call, outcome, calls,
                       sentLate>> /\ Close(s)
    BY <1>7 DEF Watch, Finish
  <2>. QED  BY <1>0, <1>1, <2>1, CloseTyped, SessionStep
<1>. QED  BY <1>2, <1>3, <1>4, <1>5, <1>6, <1>7 DEF Serve

(* What the Connector sends, late and repeated records included.           *)
LEMMA PeerKeeps ==
  ASSUME IInv, NEW s \in Sessions, Peer(s)
  PROVE  IInv'
<1>0. TypeOK /\ IdInv /\ EventInv
  BY DEF IInv
<1>1. /\ conn \in [Sessions -> {"new", "hello", "negotiate", "add", "serve", "ended"}]
      /\ alive \in [Sessions -> BOOLEAN] /\ pool \subseteq Sessions
      /\ toNode \in [Sessions -> Seq(Ids)] /\ toCore \in [Sessions -> Seq(Record)]
  BY <1>0 DEF TypeOK
<1>2. ASSUME NEW r \in Record, Send(s, r) PROVE toCore' \in [Sessions -> Seq(Record)]
  <2>1. Append(toCore[s], r) \in Seq(Record)
    BY <1>1, AppendProperties
  <2>. QED  BY <1>1, <1>2, <2>1 DEF Send, Set
<1>3. CASE Answer(s)
  <2>1. PICK event \in {0, 1} : Send(s, [id |-> Head(toNode[s]), event |-> event])
    BY <1>3 DEF Answer
  <2>2. Head(toNode[s]) \in Ids /\ Tail(toNode[s]) \in Seq(Ids)
    <3>1. toNode[s] \in Seq(Ids) /\ toNode[s] # <<>>
      BY <1>1, <1>3 DEF Answer
    <3>. QED  BY <3>1, HeadTailProperties
  <2>3. [id |-> Head(toNode[s]), event |-> event] \in Record
    BY <2>2, BoundAssumption DEF Record
  <2>4. /\ toNode' \in [Sessions -> Seq(Ids)]
        /\ UNCHANGED <<registry, session, call, outcome, calls, sentLate>>
    BY <1>1, <1>3, <2>2 DEF Answer, Set
  <2>. QED  BY <1>1, <1>2, <2>1, <2>3, <2>4, SessionStep DEF session
<1>4. CASE Emit(s)
  <2>1. PICK c \in Callers :
          /\ call[c].session = s /\ call[c].step \in {"read", "receive"}
          /\ \E r \in {[id |-> call[c].id, event |-> e] : e \in {call[c].event, call[c].event + 1}}
                     \cup {[id |-> i, event |-> 0] : i \in 1..(call[c].id - 1)} :
               Send(s, r)
    BY <1>4 DEF Emit
  <2>2. /\ call[c].id \in Ids /\ call[c].event \in 0..LastEvent /\ call[c].event + 1 \in 0..LastEvent
        /\ 0 \in 0..LastEvent /\ 1..(call[c].id - 1) \subseteq Ids
    <3>1. /\ call[c].id \in Nat /\ call[c].id # 0 /\ call[c].id \in Ids
          /\ call[c].event \in Nat /\ call[c].event < LastEvent
          /\ LastEvent \in Nat /\ MaxCalls \in Nat /\ call[c].id <= MaxCalls
      BY <1>0, <2>1, Typed DEF IdInv, EventInv, Free
    <3>. QED  BY <3>1 DEF Ids
  <2>3. PICK r \in {[id |-> call[c].id, event |-> e] : e \in {call[c].event, call[c].event + 1}}
                     \cup {[id |-> i, event |-> 0] : i \in 1..(call[c].id - 1)} :
               Send(s, r)
    BY <2>1
  <2>4. r \in Record
    BY <2>2, <2>3 DEF Record
  <2>5. UNCHANGED <<registry, toNode, session, call, outcome, calls, sentLate>>
    BY <1>4 DEF Emit
  <2>. QED  BY <1>1, <1>2, <2>3, <2>4, <2>5, SessionStep DEF session
<1>. QED  BY <1>3, <1>4 DEF Peer

(* The registry admits new certificates and retires admitted ones.         *)
LEMMA EnrollKeeps ==
  ASSUME IInv, Enroll
  PROVE  IInv'
<1>0. TypeOK /\ IdInv /\ EventInv /\ SeenInv /\ LateInv /\ StreamIsWhole
  BY DEF IInv
<1>1. UNCHANGED <<wire, session, call, outcome, calls, sentLate>>
  BY DEF Enroll
<1>2. /\ spent \subseteq spent' /\ admitted \cup spent \subseteq admitted' \cup spent'
      /\ admitted' \cap spent' = {} /\ Registry!TypeOK'
  <2>1. admitted \cap spent = {} /\ Registry!TypeOK
    BY <1>0 DEF SeenInv, TypeOK
  <2>2. CASE Registry!Retire
    BY <2>1, <2>2 DEF Registry!Retire, Registry!TypeOK
  <2>3. CASE Registry!Revoke
    BY <2>1, <2>3 DEF Registry!Revoke, Registry!TypeOK
  <2>4. ASSUME NEW n \in Serials, Registry!Admit(n)
        PROVE  /\ spent \subseteq spent' /\ admitted \cup spent \subseteq admitted' \cup spent'
               /\ admitted' \cap spent' = {} /\ Registry!TypeOK'
    BY <2>1, <2>4 DEF Registry!Admit, Registry!TypeOK
  <2>. QED  BY <2>2, <2>3, <2>4 DEF Enroll, Registry!Next
<1>3. TypeOK'
  BY <1>0, <1>1, <1>2 DEF TypeOK, wire, session
<1>4. IdInv' /\ EventInv' /\ StreamIsWhole'
  BY <1>0, <1>1 DEF IdInv, EventInv, StreamIsWhole, session
<1>5. SeenInv' /\ LateInv'
  BY <1>0, <1>1, <1>2 DEF SeenInv, LateInv, session
<1>. QED  BY <1>3, <1>4, <1>5 DEF IInv

-----------------------------------------------------------------------------
(* Calls *)

(* A call that returns, however it ends, gives back what it held.          *)
LEMMA ReturnKeeps ==
  ASSUME IInv, NEW c \in Callers, NEW result \in Outcome, Return(c, result),
         call[c].step # "idle",
         result.ok /\ result.event > 0 => result.event = LastEvent,
         UNCHANGED <<registry, conn, cert, pool, calls, sentLate>>,
         alive' \in [Sessions -> BOOLEAN],
         toNode' \in [Sessions -> Seq(Ids)], toCore' \in [Sessions -> Seq(Record)]
  PROVE  IInv'
<1>0. TypeOK /\ IdInv /\ EventInv /\ SeenInv /\ LateInv /\ StreamIsWhole
  BY DEF IInv
<1>1. /\ call \in [Callers -> Call] /\ outcome \in [Callers -> Outcome]
      /\ calls \in Nat /\ LastEvent \in Nat \ {0}
      /\ \A d \in Callers : call[d].session \in Sessions /\ call[d].id \in Nat
      /\ \A s \in Sessions : busy[s] \in Nat
  BY <1>0, Typed
<1>2. /\ call' \in [Callers -> Call] /\ call'[c] = Resting
      /\ \A d \in Callers \ {c} : call'[d] = call[d]
      /\ outcome' \in [Callers -> Outcome] /\ outcome'[c] = result
      /\ \A d \in Callers \ {c} : outcome'[d] = outcome[d]
  BY <1>1, RestingTyped DEF Return, Set
<1>3. call'[c].step = "idle" /\ call'[c].event = 0
  BY <1>2, RestingTyped
<1>4. \A s \in Sessions :
        busy'[s] = busy[s] \/ (busy'[s] = Free /\ s = call[c].session /\ busy[s] = call[c].id)
  BY <1>0, <1>1 DEF Return, Release, Set, TypeOK
<1>5. busy' \in [Sessions -> Ids \cup {Free}]
  <2>1. busy' = busy \/ busy' = [busy EXCEPT ![call[c].session] = Free]
    BY DEF Return, Release, Set
  <2>. QED  BY <1>0, <2>1 DEF TypeOK
<1>6. TypeOK'
  BY <1>0, <1>2, <1>5 DEF TypeOK, Registry!TypeOK, registry, Call, CallSteps, Outcome
<1>7. IdInv'
  <2>1. \A d \in Callers : call'[d].step # "idle" => d # c /\ call'[d] = call[d] /\ call[d].step # "idle"
    BY <1>2, <1>3
  <2>2. ASSUME NEW d \in Callers, call'[d].step # "idle"
        PROVE  call'[d].id # Free /\ call'[d].id <= calls' /\ call[d].id # call[c].id
    BY <1>0, <2>1, <2>2 DEF IdInv
  <2>3. ASSUME NEW d \in Callers, NEW e \in Callers, call'[d].step # "idle", call'[e].step # "idle",
               call'[d].id = call'[e].id
        PROVE  d = e
    BY <1>0, <2>1, <2>3 DEF IdInv
  <2>4. \A s \in Sessions : busy'[s] <= calls'
    BY <1>0, <1>1, <1>4 DEF IdInv, Free
  <2>5. ASSUME NEW d \in Callers, call'[d].step \in Active
        PROVE  busy'[call'[d].session] = call'[d].id
    <3>1. d # c /\ call'[d] = call[d] /\ call[d].id # call[c].id /\ call[d].step \in Active
      BY <2>1, <2>2, <2>5 DEF Active
    <3>2. busy[call[d].session] = call[d].id /\ call[d].session \in Sessions
      BY <1>0, <1>1, <3>1 DEF IdInv
    <3>. QED  BY <1>4, <3>1, <3>2
  <2>6. ASSUME NEW d \in Callers, NEW s \in Sessions, call'[d].step = "chosen"
        PROVE  busy'[s] # call'[d].id
    <3>1. call'[d] = call[d] /\ call[d].step = "chosen" /\ call[d].id # Free
      BY <2>1, <2>2, <2>6
    <3>. QED  BY <1>0, <1>4, <3>1 DEF IdInv
  <2>. QED  BY <2>2, <2>3, <2>4, <2>5, <2>6 DEF IdInv
<1>8. EventInv' /\ StreamIsWhole'
  <2>1. 0 < LastEvent
    BY <1>1
  <2>2. EventInv'
    BY <1>0, <1>2, <1>3, <2>1 DEF EventInv
  <2>3. StreamIsWhole'
    BY <1>0, <1>2 DEF StreamIsWhole
  <2>. QED  BY <2>2, <2>3
<1>9. SeenInv'
  BY <1>0, <1>2, <1>3 DEF SeenInv, registry
<1>10. LateInv'
  BY ZenonT(60), <1>0, <1>2, <1>3 DEF LateInv, registry
<1>. QED  BY <1>6, <1>7, <1>8, <1>9, <1>10 DEF IInv

(* A session is chosen under the pool's lock.                              *)
LEMMA ChooseKeeps ==
  ASSUME IInv, NEW c \in Callers, NEW s \in Sessions, NEW kind \in {"request", "stream"},
         Choose(c, s, kind)
  PROVE  IInv'
<1>0. TypeOK /\ IdInv /\ EventInv /\ SeenInv /\ LateInv /\ StreamIsWhole
  BY DEF IInv
<1>1. /\ call \in [Callers -> Call] /\ outcome \in [Callers -> Outcome]
      /\ calls \in Nat /\ MaxCalls \in Nat /\ LastEvent \in Nat \ {0}
      /\ \A d \in Callers : call[d].session \in Sessions /\ call[d].id \in Nat
      /\ \A u \in Sessions : busy[u] \in Nat
  BY <1>0, Typed
<1>. DEFINE new == [step |-> "chosen", kind |-> kind, session |-> s, id |-> calls + 1, event |-> 0]
<1>2. /\ calls' = calls + 1 /\ calls + 1 \in Ids /\ calls' \in 0..MaxCalls
      /\ new \in Call /\ s \in pool
  BY <1>1 DEF Choose, Call, CallSteps, Ids
<1>3. new.step = "chosen" /\ new.id = calls + 1 /\ new.event = 0 /\ new.session = s
  OBVIOUS
<1>4. call' = [call EXCEPT ![c] = new] /\ outcome' = [outcome EXCEPT ![c] = Unavailable]
  BY DEF Choose, Set, Unavailable
<1>. HIDE DEF new
<1>5. /\ call' \in [Callers -> Call] /\ call'[c] = new
      /\ \A d \in Callers \ {c} : call'[d] = call[d]
      /\ outcome' \in [Callers -> Outcome] /\ ~outcome'[c].ok /\ outcome'[c].event = 0
      /\ \A d \in Callers \ {c} : outcome'[d] = outcome[d]
  <2>1. Unavailable.event = 0
    BY DEF Unavailable
  <2>. QED  BY <1>1, <1>2, <1>4, <2>1, RestingTyped
<1>6. UNCHANGED <<registry, wire, conn, cert, alive, busy, pool, sentLate>>
  BY DEF Choose, session
<1>7. TypeOK'
  BY <1>0, <1>2, <1>5, <1>6 DEF TypeOK, Registry!TypeOK, registry, wire, Call, CallSteps, Outcome
<1>8. IdInv'
  <2>1. ASSUME NEW d \in Callers, call'[d].step # "idle"
        PROVE  /\ call'[d].id # Free /\ call'[d].id <= calls'
               /\ d # c => call'[d] = call[d] /\ call'[d].id <= calls
               /\ d = c => call'[d].id = calls + 1
    BY <1>0, <1>1, <1>2, <1>3, <1>5, <2>1 DEF IdInv, Free
  <2>2. ASSUME NEW d \in Callers, NEW e \in Callers, call'[d].step # "idle", call'[e].step # "idle",
               call'[d].id = call'[e].id
        PROVE  d = e
    BY <1>0, <1>1, <2>1, <2>2 DEF IdInv
  <2>3. \A u \in Sessions : busy'[u] <= calls' /\ busy'[u] <= calls
    BY <1>0, <1>1, <1>2, <1>6 DEF IdInv
  <2>4. ASSUME NEW d \in Callers, call'[d].step \in Active
        PROVE  busy'[call'[d].session] = call'[d].id
    <3>1. d # c
      BY <1>3, <1>5, <2>4 DEF Active
    <3>. QED  BY <1>0, <1>5, <1>6, <2>4, <3>1 DEF IdInv
  <2>5. ASSUME NEW d \in Callers, NEW u \in Sessions, call'[d].step = "chosen"
        PROVE  busy'[u] # call'[d].id
    <3>1. CASE d = c
      BY <1>1, <1>6, <2>1, <2>3, <2>5, <3>1
    <3>2. CASE d # c
      BY <1>0, <1>5, <1>6, <2>5, <3>2 DEF IdInv
    <3>. QED  BY <3>1, <3>2
  <2>. QED  BY <2>1, <2>2, <2>3, <2>4, <2>5 DEF IdInv
<1>9. EventInv' /\ StreamIsWhole'
  BY <1>0, <1>1, <1>3, <1>5 DEF EventInv, StreamIsWhole
<1>10. SeenInv'
  BY <1>0, <1>2, <1>3, <1>5, <1>6 DEF SeenInv, registry
<1>11. LateInv'
  BY <1>0, <1>3, <1>5, <1>6 DEF LateInv, registry
<1>. QED  BY <1>7, <1>8, <1>9, <1>10, <1>11 DEF IInv

(* A call goes on: its slot is its own, its count is that of its outcome,  *)
(* and it passes the check only while its certificate is admitted.         *)
LEMMA GoesOn ==
  ASSUME IInv, NEW c \in Callers, call[c].step # "idle",
         call' \in [Callers -> Call], \A d \in Callers \ {c} : call'[d] = call[d],
         call'[c].session = call[c].session, call'[c].id = call[c].id,
         call'[c].step \in Active, call'[c].event < LastEvent,
         outcome' \in [Callers -> Outcome], \A d \in Callers \ {c} : outcome'[d] = outcome[d],
         ~outcome'[c].ok, outcome'[c].event = call'[c].event,
         busy' = [busy EXCEPT ![call[c].session] = call[c].id],
         call[c].step = "chosen" => busy[call[c].session] = Free,
         UNCHANGED <<registry, conn, cert, pool, calls>>,
         alive' \in [Sessions -> BOOLEAN],
         toNode' \in [Sessions -> Seq(Ids)], toCore' \in [Sessions -> Seq(Record)],
         LateInv', sentLate' \in [Sessions -> 0..MaxCalls]
  PROVE  IInv'
<1>0. TypeOK /\ IdInv /\ EventInv /\ SeenInv /\ LateInv /\ StreamIsWhole
  BY DEF IInv
<1>1. /\ calls \in Nat /\ LastEvent \in Nat \ {0}
      /\ \A d \in Callers : /\ call[d].session \in Sessions /\ call[d].id \in Nat
                            /\ call[d].id \in Ids \cup {Free} /\ call[d].step \in CallSteps
      /\ \A u \in Sessions : busy[u] \in Nat
  BY <1>0, Typed
<1>2. busy \in [Sessions -> Ids \cup {Free}]
  BY <1>0 DEF TypeOK
<1>3. /\ busy' \in [Sessions -> Ids \cup {Free}] /\ busy'[call[c].session] = call[c].id
      /\ \A u \in Sessions \ {call[c].session} : busy'[u] = busy[u]
  BY <1>1, <1>2
<1>4. busy[call[c].session] = Free \/ busy[call[c].session] = call[c].id
  BY <1>0, <1>1 DEF IdInv, CallSteps, Active
<1>5. TypeOK'
  BY <1>0, <1>3 DEF TypeOK, Registry!TypeOK, registry, Call, CallSteps, Outcome
<1>6. IdInv'
  <2>1. \A d \in Callers : call'[d].step # "idle" => call'[d].id = call[d].id /\ call[d].step # "idle"
    OBVIOUS
  <2>2. ASSUME NEW d \in Callers, call'[d].step # "idle"
        PROVE  call'[d].id # Free /\ call'[d].id <= calls' /\ (d # c => call[d].id # call[c].id)
    BY <1>0, <2>1, <2>2 DEF IdInv
  <2>3. ASSUME NEW d \in Callers, NEW e \in Callers, call'[d].step # "idle", call'[e].step # "idle",
               call'[d].id = call'[e].id
        PROVE  d = e
    BY <1>0, <2>1, <2>3 DEF IdInv
  <2>4. \A u \in Sessions : busy'[u] <= calls'
    BY <1>0, <1>3 DEF IdInv
  <2>5. ASSUME NEW d \in Callers, call'[d].step \in Active
        PROVE  busy'[call'[d].session] = call'[d].id
    <3>1. CASE d = c
      BY <1>3, <3>1
    <3>2. CASE d # c
      <4>1. /\ call'[d] = call[d] /\ busy[call[d].session] = call[d].id
            /\ call[d].id # Free /\ call[d].id # call[c].id
        BY <1>0, <2>2, <2>5, <3>2 DEF IdInv, Active
      <4>2. call[d].session # call[c].session
        BY <1>4, <4>1
      <4>. QED  BY <1>1, <1>3, <4>1, <4>2
    <3>. QED  BY <3>1, <3>2
  <2>6. ASSUME NEW d \in Callers, NEW u \in Sessions, call'[d].step = "chosen"
        PROVE  busy'[u] # call'[d].id
    <3>1. d # c
      BY <2>6 DEF Active
    <3>2. call[d].step = "chosen" /\ call'[d].id = call[d].id /\ call[d].id # call[c].id
      BY <2>2, <2>6, <3>1
    <3>. QED  BY <1>0, <1>3, <3>2 DEF IdInv
  <2>. QED  BY <2>2, <2>3, <2>4, <2>5, <2>6 DEF IdInv
<1>7. EventInv' /\ StreamIsWhole'
  BY <1>0 DEF EventInv, StreamIsWhole
<1>8. SeenInv'
  BY ZenonT(60), <1>0 DEF SeenInv, registry
<1>. QED  BY <1>5, <1>6, <1>7, <1>8 DEF IInv

(* One call takes a step of its own.                                       *)
LEMMA StepTo ==
  ASSUME call \in [Callers -> Call], NEW c \in Callers, NEW step \in CallSteps, To(c, step)
  PROVE  /\ call' \in [Callers -> Call] /\ \A d \in Callers \ {c} : call'[d] = call[d]
         /\ call'[c].step = step /\ call'[c].session = call[c].session
         /\ call'[c].id = call[c].id /\ call'[c].event = call[c].event
<1>1. call[c] \in Call
  OBVIOUS
<1>2. /\ call' \in [Callers -> Call] /\ \A d \in Callers \ {c} : call'[d] = call[d]
      /\ call'[c] = [call[c] EXCEPT !.step = step]
  BY <1>1 DEF To, Call
<1>3. /\ [call[c] EXCEPT !.step = step].step = step
      /\ [call[c] EXCEPT !.step = step].session = call[c].session
      /\ [call[c] EXCEPT !.step = step].id = call[c].id
      /\ [call[c] EXCEPT !.step = step].event = call[c].event
  BY <1>1 DEF Call
<1>. QED  BY <1>2, <1>3

(* The slot is taken, or the call is turned away.                          *)
LEMMA TakeKeeps ==
  ASSUME IInv, NEW c \in Callers, Take(c)
  PROVE  IInv'
<1>0. TypeOK /\ IdInv /\ EventInv /\ SeenInv /\ LateInv
  BY DEF IInv
<1>1. call \in [Callers -> Call] /\ call[c].session \in Sessions /\ outcome \in [Callers -> Outcome]
  BY <1>0, Typed
<1>2. call[c].step = "chosen" /\ UNCHANGED <<registry, wire, conn, cert, alive, pool, calls,
                                             sentLate>>
  BY DEF Take
<1>3. /\ alive' \in [Sessions -> BOOLEAN] /\ sentLate' \in [Sessions -> 0..MaxCalls]
      /\ toNode' \in [Sessions -> Seq(Ids)] /\ toCore' \in [Sessions -> Seq(Record)]
  BY <1>0, <1>2 DEF TypeOK, wire
<1>4. CASE Return(c, Unavailable)
  BY <1>2, <1>3, <1>4, ReturnKeeps, RestingTyped
<1>5. CASE /\ Takeable(call[c].session) /\ To(c, "check") /\ UNCHANGED outcome
           /\ busy' = Set(busy, call[c].session, call[c].id)
  <2>1. /\ call' \in [Callers -> Call] /\ \A d \in Callers \ {c} : call'[d] = call[d]
        /\ call'[c].step = "check" /\ call'[c].session = call[c].session
        /\ call'[c].id = call[c].id /\ call'[c].event = call[c].event
    BY <1>1, <1>5, StepTo DEF CallSteps
  <2>2. busy[call[c].session] = Free /\ busy' = [busy EXCEPT ![call[c].session] = call[c].id]
    BY <1>5 DEF Takeable, Idle, Set
  <2>3. LateInv'
    BY <1>0, <1>2, <2>1 DEF LateInv, registry
  <2>4. call'[c].event < LastEvent /\ ~outcome'[c].ok /\ outcome'[c].event = call'[c].event
    BY <1>0, <1>2, <1>5, <2>1 DEF EventInv
  <2>. QED  BY <1>1, <1>2, <1>3, <1>5, <2>1, <2>2, <2>3, <2>4, GoesOn DEF Active
<1>. QED  BY <1>4, <1>5 DEF Take

(* The call is refused; its session stays.                                 *)
LEMMA RefuseKeeps ==
  ASSUME IInv, NEW c \in Callers, Refuse(c)
  PROVE  IInv'
<1>1. /\ Return(c, Unavailable) /\ call[c].step # "idle"
      /\ UNCHANGED <<registry, wire, conn, cert, alive, pool, calls, sentLate>>
  BY DEF Refuse
<1>2. /\ alive' \in [Sessions -> BOOLEAN]
      /\ toNode' \in [Sessions -> Seq(Ids)] /\ toCore' \in [Sessions -> Seq(Record)]
  BY <1>1 DEF IInv, TypeOK, wire
<1>. QED  BY <1>1, <1>2, ReturnKeeps, RestingTyped

(* Admission is asked once more.                                           *)
LEMMA CheckKeeps ==
  ASSUME IInv, NEW c \in Callers, Check(c)
  PROVE  IInv'
<1>0. TypeOK /\ IdInv /\ EventInv /\ SeenInv /\ LateInv
  BY DEF IInv
<1>1. call \in [Callers -> Call] /\ call[c].session \in Sessions /\ outcome \in [Callers -> Outcome]
  BY <1>0, Typed
<1>2. call[c].step = "check" /\ UNCHANGED <<registry, conn, cert, pool, calls, sentLate>>
  BY DEF Check
<1>3. CASE Close(call[c].session) /\ Return(c, Unavailable)
  BY <1>0, <1>1, <1>2, <1>3, CloseTyped, ReturnKeeps, RestingTyped
<1>4. CASE StillAdmitted(c) /\ To(c, "write") /\ Keep /\ UNCHANGED <<busy, outcome>>
  <2>1. /\ call' \in [Callers -> Call] /\ \A d \in Callers \ {c} : call'[d] = call[d]
        /\ call'[c].step = "write" /\ call'[c].session = call[c].session
        /\ call'[c].id = call[c].id /\ call'[c].event = call[c].event
    BY <1>1, <1>4, StepTo DEF CallSteps
  <2>2. busy' = [busy EXCEPT ![call[c].session] = call[c].id]
    <3>1. busy \in [Sessions -> Ids \cup {Free}] /\ busy[call[c].session] = call[c].id
      BY <1>0, <1>2 DEF TypeOK, IdInv, Active
    <3>. QED  BY <1>1, <1>4, <3>1
  <2>3. cert[call[c].session] \notin spent
    BY <1>0, <1>4 DEF SeenInv, StillAdmitted, Admits
  <2>4. LateInv'
    BY <1>0, <1>2, <2>1, <2>3 DEF LateInv, registry
  <2>5. call'[c].event < LastEvent /\ ~outcome'[c].ok /\ outcome'[c].event = call'[c].event
    BY <1>0, <1>2, <1>4, <2>1 DEF EventInv
  <2>6. sentLate' \in [Sessions -> 0..MaxCalls]
    BY <1>0, <1>2 DEF TypeOK
  <2>. QED  BY <1>0, <1>1, <1>2, <1>4, <2>1, <2>2, <2>4, <2>5, <2>6, KeepTyped, GoesOn DEF Active
<1>. QED  BY <1>3, <1>4 DEF Check

(* The request is written, also after the certificate lost admission.      *)
LEMMA WriteKeeps ==
  ASSUME IInv, NEW c \in Callers, Write(c)
  PROVE  IInv'
<1>0. TypeOK /\ IdInv /\ EventInv /\ SeenInv /\ LateInv
  BY DEF IInv
<1>. DEFINE at == call[c].session
<1>1. /\ call \in [Callers -> Call] /\ at \in Sessions /\ outcome \in [Callers -> Outcome]
      /\ call[c].id \in Ids \cup {Free} /\ MaxCalls \in Nat
  BY <1>0, Typed
<1>2. /\ call[c].step = "write" /\ To(c, "read")
      /\ toNode' = [toNode EXCEPT ![at] = Append(toNode[at], call[c].id)]
      /\ sentLate' = [sentLate EXCEPT ![at] = sentLate[at] + IF Admits(at) THEN 0 ELSE 1]
      /\ UNCHANGED <<registry, toCore, conn, cert, alive, busy, pool, outcome, calls>>
  BY DEF Write, Set, session
<1>3. /\ call' \in [Callers -> Call] /\ \A d \in Callers \ {c} : call'[d] = call[d]
      /\ call'[c].step = "read" /\ call'[c].session = at
      /\ call'[c].id = call[c].id /\ call'[c].event = call[c].event
  BY <1>1, <1>2, StepTo DEF CallSteps
<1>. HIDE DEF at
<1>4. call[c].id \in Ids /\ busy[at] = call[c].id /\ cert[at] \in admitted \cup spent
  BY <1>0, <1>1, <1>2 DEF IdInv, SeenInv, Active, at
<1>5. busy' = [busy EXCEPT ![at] = call[c].id]
  <2>1. busy \in [Sessions -> Ids \cup {Free}]
    BY <1>0 DEF TypeOK
  <2>. QED  BY <1>1, <1>2, <1>4, <2>1
<1>6. toNode' \in [Sessions -> Seq(Ids)]
  <2>1. toNode \in [Sessions -> Seq(Ids)]
    BY <1>0 DEF TypeOK
  <2>2. Append(toNode[at], call[c].id) \in Seq(Ids)
    BY <1>1, <1>4, <2>1, AppendProperties
  <2>. QED  BY <1>1, <1>2, <2>1, <2>2
<1>7. sentLate[at] = 0
  BY <1>0, <1>1, <1>2 DEF LateInv, at
<1>8. /\ sentLate \in [Sessions -> 0..MaxCalls] /\ 0 \in 0..MaxCalls /\ 1 \in 0..MaxCalls
  BY <1>0, <1>1, <1>4 DEF TypeOK, Ids
<1>9. /\ sentLate' \in [Sessions -> 0..MaxCalls]
      /\ sentLate'[at] = (IF Admits(at) THEN 0 ELSE 1)
      /\ \A u \in Sessions \ {at} : sentLate'[u] = sentLate[u]
  BY <1>1, <1>2, <1>7, <1>8
<1>10. LateInv'
  <2>. SUFFICES ASSUME NEW u \in Sessions
                PROVE  \/ sentLate'[u] = 0
                       \/ /\ sentLate'[u] = 1 /\ cert'[u] \in spent'
                          /\ \A d \in Callers : call'[d].session = u => call'[d].step # "write"
    BY DEF LateInv
  <2>1. CASE u # at
    BY <1>0, <1>2, <1>3, <1>9, <2>1 DEF LateInv, registry
  <2>2. CASE u = at /\ Admits(at)
    BY <1>9, <2>2
  <2>3. CASE u = at /\ ~Admits(at)
    <3>1. sentLate'[at] = 1 /\ cert[at] \in spent
      BY <1>4, <1>9, <2>3 DEF Admits
    <3>2. ASSUME NEW d \in Callers, d # c, call[d].session = at, call[d].step = "write"
          PROVE  FALSE
      <4>1. busy[call[d].session] = call[d].id /\ call[d].id = call[c].id
        BY <1>0, <1>4, <3>2 DEF IdInv, Active
      <4>. QED  BY <1>0, <1>2, <3>2, <4>1 DEF IdInv
    <3>. QED  BY <1>2, <1>3, <2>3, <3>1, <3>2 DEF registry
  <2>. QED  BY <2>1, <2>2, <2>3
<1>11. call'[c].event < LastEvent /\ ~outcome'[c].ok /\ outcome'[c].event = call'[c].event
  BY <1>0, <1>2, <1>3 DEF EventInv
<1>12. alive' \in [Sessions -> BOOLEAN] /\ toCore' \in [Sessions -> Seq(Record)]
  BY <1>0, <1>2 DEF TypeOK
<1>. QED  BY <1>1, <1>2, <1>3, <1>5, <1>6, <1>9, <1>10, <1>11, <1>12, GoesOn DEF Active, at

(* The answer of a request is read.                                        *)
LEMMA ReadKeeps ==
  ASSUME IInv, NEW c \in Callers, Read(c)
  PROVE  IInv'
<1>0. TypeOK
  BY DEF IInv
<1>. DEFINE at == call[c].session
            r == Head(toCore[at])
<1>1. /\ at \in Sessions /\ call[c].step = "read" /\ toCore[at] # <<>>
      /\ UNCHANGED <<registry, conn, cert, pool, calls, sentLate>>
  BY <1>0, Typed DEF Read
<1>2. r \in Record
  BY <1>0, <1>1, TakenTyped
<1>3. CASE Return(c, [ok |-> TRUE, id |-> r.id, event |-> 0]) /\ Taken(at)
  <2>1. /\ [ok |-> TRUE, id |-> r.id, event |-> 0] \in Outcome
        /\ [ok |-> TRUE, id |-> r.id, event |-> 0].event = 0
    BY <1>2, BoundAssumption DEF Outcome, Record
  <2>2. /\ alive' \in [Sessions -> BOOLEAN]
        /\ toNode' \in [Sessions -> Seq(Ids)] /\ toCore' \in [Sessions -> Seq(Record)]
    BY <1>0, <1>1, <1>3, TakenTyped
  <2>. DEFINE answered == [ok |-> TRUE, id |-> r.id, event |-> 0]
  <2>3. answered \in Outcome /\ ~(answered.event > 0) /\ Return(c, answered)
    BY <1>3, <2>1
  <2>. HIDE DEF answered
  <2>. QED  BY <1>1, <2>2, <2>3, ReturnKeeps
<1>4. CASE Return(c, Unavailable) /\ Close(at)
  BY <1>0, <1>1, <1>4, CloseTyped, ReturnKeeps, RestingTyped
<1>. QED  BY <1>3, <1>4 DEF Read

(* What one more event makes of a call ...                                 *)
LEMMA OneMoreExpected ==
  ASSUME NEW x \in Call, NEW n \in 0..(LastEvent + 1)
  PROVE  LET y == [x EXCEPT !.event = n] IN
         /\ y \in Call /\ y.session = x.session /\ y.id = x.id /\ y.event = n
BY DEF Call

(* ... of its progress ...                                                 *)
LEMMA NextStep ==
  ASSUME NEW x \in Call, NEW step \in CallSteps
  PROVE  LET y == [x EXCEPT !.step = step] IN
         /\ y \in Call /\ y.session = x.session /\ y.id = x.id /\ y.event = x.event
         /\ y.step = step
BY DEF Call

(* ... and of its outcome.                                                 *)
LEMMA OneMoreHanded ==
  ASSUME NEW x \in Outcome, NEW n \in 0..LastEvent
  PROVE  LET y == [x EXCEPT !.event = n] IN y \in Outcome /\ y.ok = x.ok /\ y.event = n
BY DEF Outcome

(* The next event of a stream is received.                                 *)
LEMMA ReceiveKeeps ==
  ASSUME IInv, NEW c \in Callers, Receive(c)
  PROVE  IInv'
<1>0. TypeOK /\ IdInv /\ EventInv /\ SeenInv /\ LateInv
  BY DEF IInv
<1>. DEFINE at == call[c].session
            r == Head(toCore[at])
            ended == [ok |-> TRUE, id |-> r.id, event |-> outcome[c].event + 1]
<1>1. /\ at \in Sessions /\ call[c].step \in {"read", "receive"} /\ toCore[at] # <<>>
      /\ UNCHANGED <<registry, conn, cert, pool, calls, sentLate>>
      /\ call \in [Callers -> Call] /\ outcome \in [Callers -> Outcome]
      /\ call[c].event \in Nat /\ LastEvent \in Nat
  BY <1>0, Typed DEF Receive
<1>2. r \in Record
  BY <1>0, <1>1, TakenTyped
<1>3. r.id \in Ids /\ r.event \in 0..LastEvent
  BY <1>2 DEF Record
<1>4. outcome[c].event = call[c].event /\ ~outcome[c].ok
  BY <1>0, <1>1 DEF EventInv
<1>5. CASE InSequence(c, r) /\ r.event = LastEvent /\ Return(c, ended) /\ Close(at)
  <2>1. outcome[c].event + 1 = LastEvent
    BY <1>4, <1>5 DEF InSequence
  <2>2. ended \in Outcome /\ ended.event = LastEvent
    BY <1>1, <1>3, <2>1 DEF Outcome
  <2>. HIDE DEF ended
  <2>. QED  BY <1>0, <1>1, <1>5, <2>2, CloseTyped, ReturnKeeps
<1>6. CASE Return(c, Unavailable) /\ Close(at)
  BY <1>0, <1>1, <1>6, CloseTyped, ReturnKeeps, RestingTyped
<1>7. CASE /\ InSequence(c, r) /\ r.event # LastEvent
           /\ call' = [[call EXCEPT ![c].event = call[c].event + 1] EXCEPT ![c].step = "receive"]
           /\ outcome' = [outcome EXCEPT ![c].event = outcome[c].event + 1]
           /\ Taken(at) /\ UNCHANGED busy
  <2>1. call[c].event + 1 < LastEvent /\ call[c].event + 1 \in 0..LastEvent
    BY <1>1, <1>3, <1>7 DEF InSequence
  <2>2. call[c] \in Call /\ outcome[c] \in Outcome
    BY <1>1
  <2>3. /\ call' = [call EXCEPT ![c] = [[call[c] EXCEPT !.event = call[c].event + 1] EXCEPT !.step = "receive"]]
        /\ outcome' = [outcome EXCEPT ![c] = [outcome[c] EXCEPT !.event = outcome[c].event + 1]]
    BY <1>1, <1>7
  <2>. DEFINE next == [[call[c] EXCEPT !.event = call[c].event + 1] EXCEPT !.step = "receive"]
              handed == [outcome[c] EXCEPT !.event = outcome[c].event + 1]
  <2>4. /\ next \in Call /\ next.step = "receive" /\ next.session = at /\ next.id = call[c].id
        /\ next.event = call[c].event + 1
    <3>1. call[c].event + 1 \in 0..(LastEvent + 1) /\ "receive" \in CallSteps
      BY <1>1, <2>1 DEF CallSteps
    <3>. DEFINE more == [call[c] EXCEPT !.event = call[c].event + 1]
    <3>2. more \in Call /\ more.session = at /\ more.id = call[c].id /\ more.event = call[c].event + 1
      BY <2>2, <3>1, OneMoreExpected
    <3>. HIDE DEF more
    <3>3. LET y == [more EXCEPT !.step = "receive"] IN
          /\ y \in Call /\ y.step = "receive" /\ y.session = more.session /\ y.id = more.id
          /\ y.event = more.event
      BY <3>1, <3>2, NextStep
    <3>. QED  BY <3>2, <3>3 DEF more
  <2>5. handed \in Outcome /\ ~handed.ok /\ handed.event = call[c].event + 1
    BY <1>4, <2>1, <2>2, OneMoreHanded
  <2>6. call' = [call EXCEPT ![c] = next] /\ outcome' = [outcome EXCEPT ![c] = handed]
    BY <2>3
  <2>. HIDE DEF next, handed
  <2>7. /\ call' \in [Callers -> Call] /\ \A d \in Callers \ {c} : call'[d] = call[d]
        /\ outcome' \in [Callers -> Outcome] /\ \A d \in Callers \ {c} : outcome'[d] = outcome[d]
        /\ call'[c] = next /\ outcome'[c] = handed
    BY <1>1, <2>4, <2>5, <2>6
  <2>8. busy' = [busy EXCEPT ![at] = call[c].id]
    <3>1. busy \in [Sessions -> Ids \cup {Free}] /\ busy[at] = call[c].id
      BY <1>0, <1>1 DEF TypeOK, IdInv, Active
    <3>. QED  BY <1>1, <1>7, <3>1
  <2>9. LateInv'
    BY <1>0, <1>1, <2>4, <2>7 DEF LateInv, registry
  <2>10. sentLate' \in [Sessions -> 0..MaxCalls]
    BY <1>0, <1>1 DEF TypeOK
  <2>11. /\ alive' \in [Sessions -> BOOLEAN]
         /\ toNode' \in [Sessions -> Seq(Ids)] /\ toCore' \in [Sessions -> Seq(Record)]
    BY <1>0, <1>1, <1>7, TakenTyped
  <2>. QED  BY <1>1, <2>1, <2>4, <2>5, <2>7, <2>8, <2>9, <2>10, <2>11, GoesOn DEF Active
<1>. QED  BY <1>5, <1>6, <1>7 DEF Receive

(* A deadline closes the session, and then the call returns.               *)
LEMMA GiveUpKeeps ==
  ASSUME IInv, NEW c \in Callers, GiveUp(c)
  PROVE  IInv'
<1>1. /\ TypeOK /\ Close(call[c].session) /\ call[c].session \in Sessions
      /\ UNCHANGED <<registry, conn, cert, pool, call, outcome, busy, calls, sentLate>>
  BY Typed DEF GiveUp, Retire, IInv
<1>2. /\ conn \in [Sessions -> {"new", "hello", "negotiate", "add", "serve", "ended"}]
      /\ pool \subseteq Sessions
  BY <1>1 DEF TypeOK
<1>. QED  BY <1>1, <1>2, CloseTyped, SessionStep

(* The session was closed under the call.                                  *)
LEMMA FailKeeps ==
  ASSUME IInv, NEW c \in Callers, Fail(c)
  PROVE  IInv'
<1>1. /\ Return(c, Unavailable) /\ call[c].step # "idle"
      /\ UNCHANGED <<registry, wire, conn, cert, alive, pool, calls, sentLate>>
  BY DEF Fail
<1>2. /\ alive' \in [Sessions -> BOOLEAN]
      /\ toNode' \in [Sessions -> Seq(Ids)] /\ toCore' \in [Sessions -> Seq(Record)]
  BY <1>1 DEF IInv, TypeOK, wire
<1>. QED  BY <1>1, <1>2, ReturnKeeps, RestingTyped

-----------------------------------------------------------------------------
(* ... and every step keeps it.                                            *)
LEMMA NextIInv == IInv /\ [Next]_vars => IInv'
<1>. SUFFICES ASSUME IInv, [Next]_vars PROVE IInv'
  OBVIOUS
<1>1. CASE UNCHANGED vars
  <2>1. /\ conn \in [Sessions -> {"new", "hello", "negotiate", "add", "serve", "ended"}]
        /\ alive \in [Sessions -> BOOLEAN] /\ pool \subseteq Sessions
        /\ toNode \in [Sessions -> Seq(Ids)] /\ toCore \in [Sessions -> Seq(Record)]
    BY DEF IInv, TypeOK
  <2>. QED  BY <1>1, <2>1, SessionStep DEF vars, wire, session
<1>2. CASE Enroll
  BY <1>2, EnrollKeeps
<1>3. ASSUME NEW s \in Sessions, Connect(s) \/ Serve(s) \/ Watch(s) \/ Finish(s) \/ Peer(s) PROVE IInv'
  BY <1>3, SessionKeeps, PeerKeeps
<1>4. ASSUME NEW c \in Callers, Proceed(c) \/ GiveUp(c) PROVE IInv'
  BY <1>4, TakeKeeps, RefuseKeeps, CheckKeeps, WriteKeeps, ReadKeeps, ReceiveKeeps, FailKeeps,
     GiveUpKeeps DEF Proceed
<1>5. ASSUME NEW c \in Callers, NEW s \in Sessions, NEW kind \in {"request", "stream"},
             Choose(c, s, kind)
      PROVE  IInv'
  BY <1>5, ChooseKeeps
<1>. QED  BY <1>1, <1>2, <1>3, <1>4, <1>5 DEF Next

(* IInv holds in every state of the pool, its sessions and their callers.  *)
THEOREM Invariance == Spec => []IInv
BY InitIInv, NextIInv, PTL DEF Spec

(* Sessions, records and calls keep their types.                           *)
THEOREM TypeCorrect == Spec => []TypeOK
<1>1. IInv => TypeOK
  BY DEF IInv
<1>. QED  BY <1>1, Invariance, PTL

(* However calls, deadlines, repeated records and revocations interleave:  *)
(* a session chosen under the pool's lock and taken without it carries one *)
(* exchange at a time, a stream that ends well was handed on whole, and a  *)
(* certificate that lost admission is used for at most one more request    *)
(* (Session.Dispatch and OpenStream).                                      *)
THEOREM Apart == Spec => []ExchangesApart
<1>1. IInv => OneInFlight
  <2>. SUFFICES ASSUME IInv, NEW c \in Callers, NEW d \in Callers, NEW s \in Sessions,
                       Using(c, s), Using(d, s)
                PROVE  c = d
    BY DEF OneInFlight
  <2>1. call[c].step \in Active /\ call[d].step \in Active /\ call[c].session = call[d].session
    BY DEF Using, Active
  <2>2. call[c].id = call[d].id
    BY <2>1 DEF IInv, IdInv
  <2>. QED  BY <2>1, <2>2 DEF IInv, IdInv, Active
<1>2. IInv => StreamIsWhole
  BY DEF IInv
<1>3. IInv => LateAtMostOnce
  BY DEF IInv, LateInv, LateAtMostOnce
<1>4. IInv => ExchangesApart
  BY <1>1, <1>2, <1>3 DEF ExchangesApart
<1>. QED  BY <1>4, Invariance, PTL

(* What a caller sees of a step: nothing, or the end of its own call, with *)
(* its own answer or with a session that is closed.                        *)
Seen(c) ==
  \/ outcome'[c].ok = outcome[c].ok /\ (call'[c].step # "idle" \/ call[c].step \notin {"read", "receive"})
  \/ ~outcome'[c].ok /\ (call[c].step \in {"read", "receive"} => ~alive'[call[c].session])
  \/ outcome'[c].ok /\ outcome'[c].id = call[c].id

(* A call that returns tells nobody else, and its caller the result.       *)
LEMMA ReturnSeen ==
  ASSUME TypeOK, NEW c \in Callers, NEW result, Return(c, result)
  PROVE  /\ outcome'[c] = result
         /\ \A d \in Callers \ {c} : call'[d] = call[d] /\ outcome'[d] = outcome[d]
BY Typed DEF Return, Set

(* No step shows a caller anything else.                                   *)
LEMMA CallSeen ==
  ASSUME IInv, NEW c \in Callers, Proceed(c), NEW d \in Callers
  PROVE  Seen(d)
<1>0. TypeOK /\ EventInv
  BY DEF IInv
<1>. DEFINE at == call[c].session
            r == Head(toCore[at])
            ended == [ok |-> TRUE, id |-> r.id, event |-> outcome[c].event + 1]
            answered == [ok |-> TRUE, id |-> r.id, event |-> 0]
<1>1. /\ call \in [Callers -> Call] /\ outcome \in [Callers -> Outcome] /\ at \in Sessions
  BY <1>0, Typed
<1>2. ASSUME Return(c, Unavailable), call[c].step \in {"read", "receive"} => ~alive'[at]
      PROVE  Seen(d)
  BY <1>0, <1>2, ReturnSeen, RestingTyped DEF Seen
<1>3. ASSUME NEW result, Return(c, result), result.ok, result.id = call[c].id PROVE Seen(d)
  BY <1>0, <1>3, ReturnSeen DEF Seen
<1>4. ASSUME NEW step \in CallSteps \ {"idle"}, To(c, step), UNCHANGED outcome PROVE Seen(d)
  BY <1>1, <1>4, StepTo DEF Seen
<1>5. CASE Take(c)
  BY <1>2, <1>4, <1>5 DEF Take, CallSteps
<1>6. CASE Refuse(c)
  BY <1>2, <1>6 DEF Refuse
<1>7. CASE Check(c)
  BY <1>2, <1>4, <1>7 DEF Check, CallSteps
<1>8. CASE Write(c)
  BY <1>4, <1>8 DEF Write, CallSteps
<1>9. CASE Read(c)
  <2>1. CASE Return(c, answered) /\ Matches(c, r)
    <3>1. answered.ok /\ answered.id = call[c].id
      BY <2>1 DEF Matches
    <3>. HIDE DEF answered
    <3>. QED  BY <1>3, <2>1, <3>1
  <2>2. CASE Return(c, Unavailable) /\ Close(at)
    BY <1>0, <1>1, <1>2, <2>2, CloseTyped
  <2>. QED  BY <1>9, <2>1, <2>2 DEF Read
<1>10. CASE Receive(c)
  <2>1. CASE Return(c, ended) /\ InSequence(c, r)
    <3>1. ended.ok /\ ended.id = call[c].id
      BY <2>1 DEF InSequence
    <3>. HIDE DEF ended
    <3>. QED  BY <1>3, <2>1, <3>1
  <2>2. CASE Return(c, Unavailable) /\ Close(at)
    BY <1>0, <1>1, <1>2, <2>2, CloseTyped
  <2>3. CASE /\ call' = [[call EXCEPT ![c].event = call[c].event + 1] EXCEPT ![c].step = "receive"]
             /\ outcome' = [outcome EXCEPT ![c].event = outcome[c].event + 1]
    <3>1. /\ call'[c].step = "receive" /\ outcome'[c].ok = outcome[c].ok
          /\ d # c => call'[d] = call[d] /\ outcome'[d] = outcome[d]
      BY <1>1, <2>3 DEF Call, Outcome
    <3>. QED  BY <3>1 DEF Seen
  <2>. QED  BY <1>10, <2>1, <2>2, <2>3 DEF Receive
<1>11. CASE Fail(c)
  BY <1>2, <1>11 DEF Fail
<1>. QED  BY <1>5, <1>6, <1>7, <1>8, <1>9, <1>10, <1>11 DEF Proceed

(* Whatever is late or repeated on the wire, a caller gets the answer of   *)
(* its own request, and a call that wrote its request and got none leaves  *)
(* a closed session behind (Session.Dispatch, Stream.receive).             *)
THEOREM AnsweredOrRetired == Spec => AnswerOrRetire
<1>. DEFINE Answers(c) ==
       /\ outcome'[c].ok /\ ~outcome[c].ok => outcome'[c].id = call[c].id
       /\ call[c].step \in {"read", "receive"} /\ call'[c].step = "idle" /\ ~outcome'[c].ok
            => ~alive'[call[c].session]
<1>1. IInv /\ [Next]_vars => [\A c \in Callers : Answers(c)]_vars
  <2>. SUFFICES ASSUME IInv, Next, NEW d \in Callers PROVE Answers(d)
    OBVIOUS
  <2>1. Seen(d) => Answers(d)
    BY DEF Seen
  <2>2. ASSUME UNCHANGED <<call, outcome>> PROVE Answers(d)
    BY <2>2
  <2>3. ASSUME NEW s \in Sessions, Connect(s) \/ Serve(s) \/ Watch(s) \/ Finish(s) \/ Peer(s)
        PROVE  Answers(d)
    BY <2>2, <2>3
    DEF Connect, Serve, Admit, Negotiate, Add, Remove, Watch, Finish, Peer, Answer, Emit
  <2>4. ASSUME NEW c \in Callers, Proceed(c) PROVE Answers(d)
    BY <2>1, <2>4, CallSeen
  <2>5. ASSUME NEW c \in Callers, GiveUp(c) PROVE Answers(d)
    BY <2>2, <2>5 DEF GiveUp
  <2>6. ASSUME NEW c \in Callers, NEW s \in Sessions, NEW kind \in {"request", "stream"}, Choose(c, s, kind)
        PROVE  Answers(d)
    <3>1. call \in [Callers -> Call] /\ outcome \in [Callers -> Outcome]
      BY Typed DEF IInv
    <3>2. \/ call'[d] = call[d] /\ outcome'[d] = outcome[d]
          \/ ~outcome'[d].ok /\ call'[d].step = "chosen"
      BY <2>6, <3>1 DEF Choose, Set
    <3>. QED  BY <3>2
  <2>. QED  BY <2>2, <2>3, <2>4, <2>5, <2>6 DEF Next, Enroll
<1>. QED  BY <1>1, Invariance, PTL DEF Spec, AnswerOrRetire

=============================================================================
