-------------------------- MODULE MachineExecution --------------------------
(***************************************************************************)
(* One execution of the machine API and the clients that follow it         *)
(* (internal/machinehttp, store.go and handler.go).  A goroutine runs the  *)
(* operation and emits events: under the store's lock each is numbered,    *)
(* kept in a history cut to its newest events, and offered to every        *)
(* subscriber's channel; a channel that is full loses it.  A follower      *)
(* copies the history and joins the subscribers under the same lock,       *)
(* writes the copy and then what its channel brings, and returns at the    *)
(* first event that carries a final state, when its client is gone, or at  *)
(* its deadline.  Executions share nothing but the lock, so one is enough. *)
(* Abstractions: an event is its number and whether its state is final;    *)
(* heartbeats change nothing; executors report progress only from within   *)
(* Execute.                                                                *)
(***************************************************************************)
EXTENDS Naturals, Sequences, FiniteSets

CONSTANTS
  Followers,
  MaxEvents,      \* maxExecutionEvents (512)
  Buffer,         \* capacity of a subscriber's channel (32)
  MaxProgress,    \* bound: progress reports
  MaxFollows      \* bound: event streams a follower opens

ASSUME BoundAssumption ==
  /\ MaxEvents \in Nat \ {0} /\ Buffer \in Nat
  /\ MaxProgress \in Nat /\ MaxFollows \in Nat

VARIABLES
  state,        \* execution.State; "absent" before create
  nextSeq,
  events,       \* the history kept
  subscribers,
  step,         \* a follower: idle, copy (writes the history), live, leave
  copy,         \* what is left of its copy of the history
  channel,
  got,          \* the events its client has, of its latest stream
  lost,         \* history: the numbers its channel had no room for
  whole,        \* history: its latest stream returned by itself
  follows       \* streams it has opened

execution == <<state, nextSeq, events>>
stream == <<step, copy, got, whole, follows>>
vars == <<execution, subscribers, channel, lost, stream>>

Final == {"succeeded", "failed"}
MaxSeq == MaxProgress + 2
Event == [seq : 1..MaxSeq, final : BOOLEAN]

TypeOK ==
  /\ state \in {"absent", "pending", "running"} \cup Final
  /\ nextSeq \in 0..MaxSeq
  /\ events \in Seq(Event) /\ Len(events) <= MaxEvents
  /\ subscribers \subseteq Followers
  /\ step \in [Followers -> {"idle", "copy", "live", "leave"}]
  /\ copy \in [Followers -> Seq(Event)]
  /\ channel \in [Followers -> Seq(Event)]
  /\ \A f \in Followers : Len(channel[f]) <= Buffer
  /\ got \in [Followers -> Seq(Event)]
  /\ lost \in [Followers -> SUBSET (1..MaxSeq)]
  /\ whole \in [Followers -> BOOLEAN]
  /\ follows \in [Followers -> 0..MaxFollows]

Init ==
  /\ state = "absent" /\ nextSeq = 0 /\ events = <<>>
  /\ subscribers = {}
  /\ step = [f \in Followers |-> "idle"]
  /\ copy = [f \in Followers |-> <<>>] /\ channel = [f \in Followers |-> <<>>]
  /\ got = [f \in Followers |-> <<>>] /\ lost = [f \in Followers |-> {}]
  /\ whole = [f \in Followers |-> FALSE]
  /\ follows = [f \in Followers |-> 0]

-----------------------------------------------------------------------------
(* The store *)

Newest(s, n) == IF Len(s) <= n THEN s ELSE SubSeq(s, Len(s) - n + 1, Len(s))

Kept(s) == Newest(s, MaxEvents)

\* a mutant: one event more than the channel holds
HasRoomForOneMore(f) == Len(channel[f]) <= Buffer

HasRoom(f) == Len(channel[f]) < Buffer

Offer(f, e) == IF HasRoom(f) THEN Append(channel[f], e) ELSE channel[f]

emitLocked(final) ==
  LET e == [seq |-> nextSeq + 1, final |-> final] IN
  /\ nextSeq' = nextSeq + 1
  /\ events' = Kept(Append(events, e))
  /\ channel' = [f \in Followers |-> IF f \in subscribers THEN Offer(f, e) ELSE channel[f]]
  /\ lost' = [f \in Followers |-> IF f \in subscribers /\ ~HasRoom(f)
                                    THEN lost[f] \cup {e.seq} ELSE lost[f]]

create ==
  /\ state = "absent"
  /\ state' = "pending"
  /\ UNCHANGED <<nextSeq, events, subscribers, channel, lost, stream>>

start ==
  /\ state = "pending"
  /\ state' = "running"
  /\ emitLocked(FALSE)
  /\ UNCHANGED <<subscribers, stream>>

progress ==
  /\ state = "running" /\ nextSeq <= MaxProgress
  /\ emitLocked(FALSE)
  /\ UNCHANGED <<state, subscribers, stream>>

finish ==
  /\ state = "running"
  /\ state' \in Final
  /\ emitLocked(TRUE)
  /\ UNCHANGED <<subscribers, stream>>

runExecution == start \/ progress \/ finish

-----------------------------------------------------------------------------
(* handleEvents and serveExecutionEvents *)

\* a mutant: the channel is joined before the lock is taken to copy
subscribeEarly(f) ==
  /\ state # "absent" /\ step[f] = "idle" /\ follows[f] < MaxFollows
  /\ subscribers' = subscribers \cup {f}
  /\ copy' = [copy EXCEPT ![f] = events]
  /\ channel' = [channel EXCEPT ![f] = Newest(events, 1)] /\ lost' = [lost EXCEPT ![f] = {}]
  /\ got' = [got EXCEPT ![f] = <<>>] /\ whole' = [whole EXCEPT ![f] = FALSE]
  /\ step' = [step EXCEPT ![f] = "copy"]
  /\ follows' = [follows EXCEPT ![f] = @ + 1]
  /\ UNCHANGED execution

subscribe(f) ==
  /\ state # "absent" /\ step[f] = "idle" /\ follows[f] < MaxFollows
  /\ subscribers' = subscribers \cup {f}
  /\ copy' = [copy EXCEPT ![f] = events]
  /\ channel' = [channel EXCEPT ![f] = <<>>] /\ lost' = [lost EXCEPT ![f] = {}]
  /\ got' = [got EXCEPT ![f] = <<>>] /\ whole' = [whole EXCEPT ![f] = FALSE]
  /\ step' = [step EXCEPT ![f] = "copy"]
  /\ follows' = [follows EXCEPT ![f] = @ + 1]
  /\ UNCHANGED execution

\* an event reaches the client; one with a final state ends the stream
Written(f, e) ==
  /\ got' = [got EXCEPT ![f] = Append(@, e)]
  /\ whole' = [whole EXCEPT ![f] = e.final]
  /\ step' = [step EXCEPT ![f] = IF e.final THEN "leave" ELSE @]

\* a mutant: the state of a replayed event is not looked at
WriteCopyOnly(f) ==
  /\ step[f] = "copy" /\ copy[f] # <<>>
  /\ copy' = [copy EXCEPT ![f] = Tail(@)]
  /\ got' = [got EXCEPT ![f] = Append(@, Head(copy[f]))]
  /\ UNCHANGED <<execution, subscribers, channel, lost, step, whole, follows>>

WriteCopy(f) ==
  /\ step[f] = "copy" /\ copy[f] # <<>>
  /\ copy' = [copy EXCEPT ![f] = Tail(@)]
  /\ Written(f, Head(copy[f]))
  /\ UNCHANGED <<execution, subscribers, channel, lost, follows>>

CopyWritten(f) ==
  /\ step[f] = "copy" /\ copy[f] = <<>>
  /\ step' = [step EXCEPT ![f] = "live"]
  /\ UNCHANGED <<execution, subscribers, channel, lost, copy, got, whole, follows>>

Receive(f) ==
  /\ step[f] = "live" /\ channel[f] # <<>>
  /\ channel' = [channel EXCEPT ![f] = Tail(@)]
  /\ Written(f, Head(channel[f]))
  /\ UNCHANGED <<execution, subscribers, lost, copy, follows>>

\* the client is gone, a write fails, or the deadline (streamMaxRuntime or
\* the token's expiry) passes
Disconnect(f) ==
  /\ step[f] \in {"copy", "live"}
  /\ step' = [step EXCEPT ![f] = "leave"]
  /\ UNCHANGED <<execution, subscribers, channel, lost, copy, got, whole, follows>>

cancel(f) ==
  /\ step[f] = "leave"
  /\ subscribers' = subscribers \ {f}
  /\ step' = [step EXCEPT ![f] = "idle"]
  /\ UNCHANGED <<execution, channel, lost, copy, got, whole, follows>>

Serve(f) == WriteCopy(f) \/ CopyWritten(f) \/ Receive(f) \/ cancel(f)

Next ==
  \/ create \/ runExecution
  \/ \E f \in Followers : subscribe(f) \/ Serve(f) \/ Disconnect(f)

Spec == Init /\ [][Next]_vars

\* the executor returns (its context has a deadline) and a connected client
\* reads; the stream's own deadline is left out on purpose
FairSpec ==
  /\ Spec
  /\ WF_vars(start) /\ WF_vars(finish)
  /\ \A f \in Followers : WF_vars(Serve(f))

-----------------------------------------------------------------------------
(* Properties *)

Numbers(s) == {s[i].seq : i \in 1..Len(s)}
Increasing(s) == \A i, j \in 1..Len(s) : i < j => s[i].seq < s[j].seq

\* What a client gets and will get increases strictly: no event is sent
\* twice, although the history and the channel are filled by the same events.
NothingTwice ==
  \A f \in Followers :
    step[f] \in {"copy", "live"} => Increasing(got[f] \o copy[f] \o channel[f])

\* Nothing falls between the copied history and the channel: from the oldest
\* event of the stream to the newest of the execution, each is sent, on its
\* way, or was lost to a full channel.
NoSilentGap ==
  \A f \in Followers : step[f] \in {"copy", "live"} =>
    LET known == got[f] \o copy[f] \o channel[f]
        first == IF known = <<>> THEN nextSeq + 1 ELSE known[1].seq IN
    \A n \in first..nextSeq : n \in Numbers(known) \cup lost[f]

\* However often it was cut, the history is the newest events without a gap
\* and, once the execution is over, ends with the outcome: a follower that
\* lost it to a full channel finds it by asking again.
HistoryIsNewest ==
  /\ Numbers(events) = {n \in 1..nextSeq : n + MaxEvents > nextSeq}
  /\ Increasing(events)
  /\ state \in Final <=> (events # <<>> /\ events[Len(events)].final)

\* A stream that returned by itself brought the outcome, last and once.
EndsWithOutcome ==
  \A f \in Followers :
    /\ whole[f] => got[f] # <<>> /\ got[f][Len(got[f])].final
    /\ \A i \in 1..Len(got[f]) : got[f][i].final => i = Len(got[f]) /\ whole[f]

\* What a client reads is the execution's history, from any moment on.
StreamsAreFaithful == NothingTwice /\ NoSilentGap /\ HistoryIsNewest /\ EndsWithOutcome

\* A client that stays gets the outcome unless its channel had no room for
\* just that event; only then does it wait for the stream's deadline.
OutcomeArrives ==
  \A f \in Followers :
    step[f] \in {"copy", "live"} ~>
      step[f] \in {"leave", "idle"} \/ (state \in Final /\ nextSeq \in lost[f])

=============================================================================
