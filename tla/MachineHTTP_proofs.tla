----------------------- MODULE MachineHTTP_proofs -----------------------
(***************************************************************************)
(* Proofs about the machine API, whose two specifications share no state.  *)
(* An execution and its followers, for every length of the history,        *)
(* capacity of a channel, number of followers and of progress reports:     *)
(* what a client reads is the execution's history.  Terminals, for every   *)
(* number of terminals, operators and concurrent requests: PTYs stay       *)
(* within the limits, inputs reach the process in order, and one request   *)
(* is attached.                                                            *)
(***************************************************************************)
EXTENDS MachineExecution, MachineTerminal, FiniteSetTheorems, SequenceTheorems, TLAPS

(* MachineExecution *)

Following == {"copy", "live"}

(* What the client of a follower has and will get.                         *)
Known(f) == got[f] \o copy[f] \o channel[f]

(* The history is the newest events, numbered up to nextSeq; the last one  *)
(* carries the outcome.                                                    *)
Contiguous(s, n) == \A i \in 1..Len(s) : s[i].seq = n - Len(s) + i

HistoryInv ==
  /\ Len(events) <= nextSeq /\ (Len(events) < MaxEvents => Len(events) = nextSeq)
  /\ Contiguous(events, nextSeq)
  /\ \A i \in 1..Len(events) : events[i].final => i = Len(events)
  /\ state \in Final <=> (events # <<>> /\ events[Len(events)].final)
  /\ state \in {"absent", "pending"} <=> nextSeq = 0
  /\ state = "running" => nextSeq <= MaxProgress + 1

(* A sequence of events that increases, ends by n, and from its first      *)
(* event on misses none but the lost ones.                                 *)
Faithful(s, n, gone) ==
  /\ Increasing(s)
  /\ \A i \in 1..Len(s) : s[i].seq <= n
  /\ \A m \in (IF s = <<>> THEN n + 1 ELSE s[1].seq)..n : m \in Numbers(s) \cup gone

FollowInv ==
  \A f \in Followers :
    /\ step[f] # "idle" => f \in subscribers
    /\ step[f] = "live" => copy[f] = <<>>
    /\ step[f] \in Following => ~whole[f] /\ Faithful(Known(f), nextSeq, lost[f])

IInv == TypeOK /\ HistoryInv /\ FollowInv /\ EndsWithOutcome

-----------------------------------------------------------------------------
(* Sequences of events *)

(* An event that is written moves from what will come to what was got.     *)
LEMMA MoveHead ==
  ASSUME NEW S, NEW s \in Seq(S), NEW t \in Seq(S), t # <<>>
  PROVE  Append(s, Head(t)) \o Tail(t) = s \o t
<1>1. /\ Head(t) \in S /\ Tail(t) \in Seq(S) /\ Len(Tail(t)) = Len(t) - 1
      /\ \A i \in 1..Len(Tail(t)) : Tail(t)[i] = t[i + 1]
  BY HeadTailProperties
<1>2. /\ Append(s, Head(t)) \in Seq(S) /\ Len(Append(s, Head(t))) = Len(s) + 1
      /\ \A i \in 1..Len(s) : Append(s, Head(t))[i] = s[i]
      /\ Append(s, Head(t))[Len(s) + 1] = Head(t)
  BY <1>1, AppendProperties
<1>3. Head(t) = t[1] /\ Len(s) \in Nat /\ Len(t) \in Nat \ {0}
  <2>1. Len(s) \in Nat /\ Len(t) \in Nat \ {0}
    BY EmptySeq, LenProperties
  <2>2. Head(t) = t[1]
    OBVIOUS
  <2>. QED  BY <2>1, <2>2
<1>. DEFINE a == Append(s, Head(t))
            b == Tail(t)
<1>4. /\ a \o b \in Seq(S) /\ Len(a \o b) = Len(a) + Len(b)
      /\ \A i \in 1..Len(a) + Len(b) : (a \o b)[i] = IF i <= Len(a) THEN a[i] ELSE b[i - Len(a)]
  BY <1>1, <1>2, ConcatProperties
<1>5. /\ s \o t \in Seq(S) /\ Len(s \o t) = Len(s) + Len(t)
      /\ \A i \in 1..Len(s) + Len(t) : (s \o t)[i] = IF i <= Len(s) THEN s[i] ELSE t[i - Len(s)]
  BY ConcatProperties
<1>. HIDE DEF a, b
<1>6. Len(a \o b) = Len(s \o t)
  BY <1>1, <1>2, <1>3, <1>4, <1>5 DEF a, b
<1>7. ASSUME NEW i \in 1..Len(a \o b) PROVE (a \o b)[i] = (s \o t)[i]
  <2>1. CASE i <= Len(s)
    BY <1>1, <1>2, <1>3, <1>4, <1>5, <2>1 DEF a, b
  <2>2. CASE i = Len(s) + 1
    BY <1>1, <1>2, <1>3, <1>4, <1>5, <2>2 DEF a, b
  <2>3. CASE i > Len(s) + 1
    <3>1. i - (Len(s) + 1) \in 1..Len(b) /\ i - (Len(s) + 1) + 1 = i - Len(s)
      BY <1>1, <1>2, <1>3, <1>4, <2>3 DEF a, b
    <3>2. (a \o b)[i] = b[i - (Len(s) + 1)]
      BY <1>2, <1>3, <1>4, <2>3 DEF a
    <3>3. b[i - (Len(s) + 1)] = t[i - Len(s)]
      BY <1>1, <3>1 DEF b
    <3>4. i \in 1..Len(s) + Len(t) /\ ~(i <= Len(s))
      BY <1>3, <1>5, <1>6, <2>3
    <3>5. (s \o t)[i] = t[i - Len(s)]
      BY <1>5, <3>4
    <3>. QED  BY <3>2, <3>3, <3>5
  <2>4. i <= Len(s) \/ i = Len(s) + 1 \/ i > Len(s) + 1
    BY <1>3
  <2>. QED  BY <2>1, <2>2, <2>3, <2>4, Zenon
<1>8. a \o b = s \o t
  BY <1>4, <1>5, <1>6, <1>7, SeqEqual
<1>. QED  BY <1>8 DEF a, b

(* What reaches a channel comes last.                                      *)
LEMMA AppendLast ==
  ASSUME NEW S, NEW s \in Seq(S), NEW t \in Seq(S), NEW e \in S
  PROVE  s \o Append(t, e) = Append(s \o t, e)
<1>1. Append(t, e) = t \o <<e>> /\ <<e>> \in Seq(S)
  BY AppendIsConcat
<1>2. s \o t \in Seq(S)
  BY ConcatProperties
<1>3. Append(s \o t, e) = (s \o t) \o <<e>>
  BY <1>2, AppendIsConcat
<1>. QED  BY <1>1, <1>3, ConcatAssociative

(* What Append does, stated for events.                                    *)
LEMMA OneLonger ==
  ASSUME NEW s \in Seq(Event), NEW e \in Event
  PROVE  /\ Append(s, e) \in Seq(Event)
         /\ Append(s, e) # <<>> /\ Len(Append(s, e)) = Len(s) + 1
         /\ \A i \in 1..Len(s) : Append(s, e)[i] = s[i]
         /\ Append(s, e)[Len(s) + 1] = e
         /\ Len(s) \in Nat
BY AppendProperties, LenProperties

(* Events are numbered by naturals.                                        *)
LEMMA NumbersAreNat ==
  ASSUME NEW s \in Seq(Event)
  PROVE  \A i \in 1..Len(s) : s[i].seq \in Nat
<1>. TAKE i \in 1..Len(s)
<1>1. s[i] \in Event
  BY ElementOfSeq
<1>2. s[i].seq \in 1..MaxSeq
  BY <1>1 DEF Event
<1>. QED  BY <1>2, BoundAssumption DEF MaxSeq

(* The next event keeps a stream faithful, sent ...                        *)
LEMMA FaithfulSent ==
  ASSUME NEW s \in Seq(Event), NEW n \in Nat, NEW gone, NEW e \in Event, e.seq = n + 1,
         Faithful(s, n, gone)
  PROVE  Faithful(Append(s, e), n + 1, gone)
<1>. DEFINE t == Append(s, e)
<1>1. /\ t # <<>> /\ Len(t) = Len(s) + 1 /\ Len(s) \in Nat
      /\ \A i \in 1..Len(s) : t[i] = s[i]
      /\ t[Len(s) + 1] = e
  BY AppendProperties, LenProperties
<1>2. \A i \in 1..Len(s) : s[i].seq \in Nat /\ s[i].seq <= n
  BY NumbersAreNat DEF Faithful
<1>. HIDE DEF t
<1>3. Increasing(t)
  <2>. SUFFICES ASSUME NEW i \in 1..Len(t), NEW j \in 1..Len(t), i < j PROVE t[i].seq < t[j].seq
    BY DEF Increasing
  <2>1. i \in 1..Len(s) /\ t[i] = s[i]
    BY <1>1
  <2>2. CASE j \in 1..Len(s)
    <3>1. t[j] = s[j] /\ Increasing(s)
      BY <1>1, <2>2 DEF Faithful
    <3>. QED  BY <2>1, <2>2, <3>1 DEF Increasing
  <2>3. CASE j = Len(s) + 1
    <3>1. s[i].seq \in Nat /\ s[i].seq <= n /\ t[j] = e
      BY <1>1, <1>2, <2>1, <2>3
    <3>. QED  BY <2>1, <3>1
  <2>. QED  BY <1>1, <2>2, <2>3
<1>4. \A i \in 1..Len(t) : t[i].seq <= n + 1
  <2>. TAKE i \in 1..Len(t)
  <2>1. CASE i = Len(s) + 1
    BY <1>1, <2>1
  <2>2. CASE i \in 1..Len(s)
    BY <1>1, <1>2, <2>2
  <2>. QED  BY <1>1, <2>1, <2>2
<1>5. Numbers(t) = Numbers(s) \cup {n + 1}
  BY <1>1 DEF Numbers
<1>6. ASSUME NEW m \in t[1].seq..n + 1 PROVE m \in Numbers(t) \cup gone
  <2>1. CASE s = <<>>
    <3>1. t[1] = e
      BY <1>1, <2>1, EmptySeq
    <3>. QED  BY <1>5, <3>1
  <2>2. CASE s # <<>>
    <3>1. t[1] = s[1]
      BY <1>1, <2>2, EmptySeq
    <3>2. s[1].seq \in Nat
      BY <1>2, <2>2, EmptySeq
    <3>3. \A k \in s[1].seq..n : k \in Numbers(s) \cup gone
      BY <2>2 DEF Faithful
    <3>. QED  BY <1>5, <3>1, <3>2, <3>3
  <2>. QED  BY <2>1, <2>2
<1>7. Faithful(t, n + 1, gone)
  BY <1>1, <1>3, <1>4, <1>6 DEF Faithful
<1>. QED  BY <1>7 DEF t

(* ... or lost to a full channel.                                          *)
LEMMA FaithfulLost ==
  ASSUME NEW s \in Seq(Event), NEW n \in Nat, NEW gone, Faithful(s, n, gone)
  PROVE  Faithful(s, n + 1, gone \cup {n + 1})
<1>1. \A i \in 1..Len(s) : s[i].seq \in Nat /\ s[i].seq <= n
  BY NumbersAreNat DEF Faithful
<1>2. \A i \in 1..Len(s) : s[i].seq <= n + 1
  BY <1>1
<1>3. ASSUME NEW m \in (IF s = <<>> THEN (n + 1) + 1 ELSE s[1].seq)..n + 1
      PROVE  m \in Numbers(s) \cup (gone \cup {n + 1})
  <2>1. CASE s = <<>>
    BY <2>1
  <2>2. CASE s # <<>>
    <3>1. s[1].seq \in Nat
      BY <1>1, <2>2, EmptySeq
    <3>2. \A k \in s[1].seq..n : k \in Numbers(s) \cup gone
      BY <2>2 DEF Faithful
    <3>. QED  BY <2>2, <3>1, <3>2
  <2>. QED  BY <2>1, <2>2
<1>. QED  BY <1>2, <1>3 DEF Faithful

(* The history with one event more, cut to the newest.                     *)
LEMMA KeptIsNewest ==
  ASSUME NEW s \in Seq(Event), NEW n \in Nat, NEW e \in Event, e.seq = n + 1,
         Len(s) <= MaxEvents, Len(s) <= n, Len(s) < MaxEvents => Len(s) = n,
         Contiguous(s, n), \A i \in 1..Len(s) : ~s[i].final
  PROVE  LET t == Kept(Append(s, e)) IN
         /\ t \in Seq(Event) /\ Len(t) \in Nat \ {0} /\ Len(t) <= MaxEvents /\ Len(t) <= n + 1
         /\ Len(t) < MaxEvents => Len(t) = n + 1
         /\ Contiguous(t, n + 1)
         /\ t[Len(t)] = e /\ \A i \in 1..Len(t) - 1 : ~t[i].final
<1>. DEFINE a == Append(s, e)
            t == Kept(a)
<1>1. /\ a \in Seq(Event) /\ Len(a) = Len(s) + 1 /\ Len(s) \in Nat
      /\ \A i \in 1..Len(s) : a[i] = s[i]
      /\ a[Len(s) + 1] = e
  BY AppendProperties, LenProperties
<1>2. MaxEvents \in Nat \ {0}
  BY BoundAssumption
<1>. HIDE DEF a
<1>3. \A i \in 1..Len(a) : a[i].seq = (n + 1) - Len(a) + i
  <2>. TAKE i \in 1..Len(a)
  <2>1. CASE i = Len(s) + 1
    BY <1>1, <2>1
  <2>2. CASE i \in 1..Len(s)
    <3>1. a[i] = s[i] /\ s[i].seq = n - Len(s) + i
      BY <1>1, <2>2 DEF Contiguous
    <3>2. n - Len(s) + i = (n + 1) - Len(a) + i
      BY <1>1, <2>2
    <3>. QED  BY <3>1, <3>2
  <2>. QED  BY <1>1, <2>1, <2>2
<1>4. CASE Len(a) <= MaxEvents
  <2>1. t = a
    BY <1>4 DEF Kept, Newest
  <2>2. Contiguous(t, n + 1)
    BY <1>3, <2>1 DEF Contiguous
  <2>. QED  BY <1>1, <1>2, <1>4, <2>1, <2>2 DEF a
<1>5. CASE Len(a) > MaxEvents
  <2>1. Len(s) = MaxEvents /\ Len(a) = MaxEvents + 1
    BY <1>1, <1>2, <1>5
  <2>2. t = SubSeq(a, 2, Len(a))
    BY <1>1, <1>2, <1>5, <2>1 DEF Kept, Newest
  <2>3. \A i \in 2..Len(a) : a[i] \in Event
    BY <1>1, ElementOfSeq
  <2>4. /\ t \in Seq(Event) /\ Len(t) = MaxEvents
        /\ \A i \in 1..MaxEvents : t[i] = a[i + 1]
    <3>1. /\ SubSeq(a, 2, Len(a)) \in Seq(Event)
          /\ Len(SubSeq(a, 2, Len(a))) = IF 2 <= Len(a) THEN Len(a) - 2 + 1 ELSE 0
          /\ \A i \in 1..Len(a) - 2 + 1 : SubSeq(a, 2, Len(a))[i] = a[2 + i - 1]
      BY <1>1, <2>3, SubSeqProperties
    <3>. HIDE DEF t
    <3>2. \A i \in 1..MaxEvents : 2 + i - 1 = i + 1 /\ i \in 1..Len(a) - 2 + 1
      BY <1>2, <2>1
    <3>. QED  BY <1>2, <2>1, <2>2, <3>1, <3>2
  <2>. HIDE DEF t
  <2>5. Contiguous(t, n + 1)
    <3>. SUFFICES ASSUME NEW i \in 1..Len(t) PROVE t[i].seq = (n + 1) - Len(t) + i
      BY DEF Contiguous
    <3>1. t[i] = a[i + 1] /\ i + 1 \in 1..Len(a)
      BY <1>2, <2>1, <2>4
    <3>. QED  BY <1>2, <1>3, <2>1, <2>4, <3>1
  <2>6. t[Len(t)] = e
    BY <1>1, <1>2, <2>1, <2>4
  <2>7. ASSUME NEW i \in 1..Len(t) - 1 PROVE ~t[i].final
    <3>1. t[i] = s[i + 1] /\ i + 1 \in 1..Len(s)
      BY <1>1, <1>2, <2>1, <2>4
    <3>. QED  BY <3>1
  <2>. QED  BY <1>2, <2>1, <2>4, <2>5, <2>6, <2>7 DEF a, t
<1>. QED  BY <1>1, <1>2, <1>4, <1>5 DEF a

(* A copy of the history is a faithful stream.                             *)
LEMMA HistoryFaithful ==
  ASSUME NEW s \in Seq(Event), NEW n \in Nat, NEW gone, Len(s) <= n, Contiguous(s, n)
  PROVE  Faithful(s, n, gone)
<1>1. Len(s) \in Nat /\ \A i \in 1..Len(s) : s[i].seq = n - Len(s) + i
  BY LenProperties DEF Contiguous
<1>2. Increasing(s) /\ \A i \in 1..Len(s) : s[i].seq <= n
  BY <1>1 DEF Increasing
<1>3. ASSUME NEW m \in (IF s = <<>> THEN n + 1 ELSE s[1].seq)..n PROVE m \in Numbers(s)
  <2>1. CASE s = <<>>
    BY <2>1
  <2>2. CASE s # <<>>
    <3>1. s[1].seq = n - Len(s) + 1
      BY <1>1, <2>2, EmptySeq
    <3>2. m - (n - Len(s)) \in 1..Len(s)
      BY <1>1, <2>2, <3>1
    <3>3. s[m - (n - Len(s))].seq = m
      BY <1>1, <2>2, <3>1, <3>2
    <3>. QED  BY <3>2, <3>3 DEF Numbers
  <2>. QED  BY <2>1, <2>2
<1>. QED  BY <1>2, <1>3 DEF Faithful

-----------------------------------------------------------------------------
(* The store *)

(* The first state satisfies the invariant ...                             *)
LEMMA InitIInv == Init => IInv
<1>. SUFFICES ASSUME Init PROVE IInv
  OBVIOUS
<1>1. <<>> \in Seq(Event) /\ Len(<<>>) = 0
  BY EmptySeq
<1>2. TypeOK
  BY <1>1, BoundAssumption DEF Init, TypeOK, MaxSeq
<1>3. HistoryInv
  BY <1>1, BoundAssumption DEF Init, HistoryInv, Contiguous, Final
<1>4. FollowInv /\ EndsWithOutcome
  BY <1>1 DEF Init, FollowInv, EndsWithOutcome, Following
<1>. QED  BY <1>2, <1>3, <1>4 DEF IInv

(* An event is numbered, kept, and offered to every follower.              *)
LEMMA EmitKeeps ==
  ASSUME IInv, NEW final \in BOOLEAN, emitLocked(final), state \in {"pending", "running"},
         state' \in {"running"} \cup Final, state' \in Final <=> final,
         state' = "running" => nextSeq <= MaxProgress,
         UNCHANGED <<subscribers, stream>>
  PROVE  IInv'
<1>. DEFINE e == [seq |-> nextSeq + 1, final |-> final]
<1>0. TypeOK /\ HistoryInv /\ FollowInv /\ EndsWithOutcome
  BY DEF IInv
<1>1. nextSeq \in Nat /\ nextSeq' = nextSeq + 1 /\ nextSeq' \in 1..MaxSeq
  <2>1. nextSeq \in Nat /\ MaxProgress \in Nat /\ nextSeq <= MaxProgress + 1
    BY <1>0, BoundAssumption DEF TypeOK, HistoryInv, MaxSeq
  <2>. QED  BY <2>1 DEF emitLocked, MaxSeq
<1>2. e \in Event /\ e.seq = nextSeq + 1 /\ e.final = final
  BY <1>1 DEF Event
<1>. HIDE DEF e
<1>3. /\ events' = Kept(Append(events, e))
      /\ channel' = [f \in Followers |-> IF f \in subscribers THEN Offer(f, e) ELSE channel[f]]
      /\ lost' = [f \in Followers |-> IF f \in subscribers /\ ~HasRoom(f)
                                        THEN lost[f] \cup {e.seq} ELSE lost[f]]
  BY DEF emitLocked, e
<1>4. /\ events' \in Seq(Event) /\ Len(events') \in Nat \ {0} /\ Len(events') <= MaxEvents
      /\ Len(events') <= nextSeq' /\ (Len(events') < MaxEvents => Len(events') = nextSeq')
      /\ Contiguous(events', nextSeq')
      /\ events'[Len(events')] = e /\ \A i \in 1..Len(events') - 1 : ~events'[i].final
  <2>1. /\ events \in Seq(Event) /\ Len(events) <= MaxEvents /\ Len(events) <= nextSeq
        /\ (Len(events) < MaxEvents => Len(events) = nextSeq)
        /\ Contiguous(events, nextSeq)
    BY <1>0 DEF TypeOK, HistoryInv
  <2>2. \A i \in 1..Len(events) : ~events[i].final
    <3>1. state \notin Final
      BY DEF Final
    <3>2. events # <<>> => ~events[Len(events)].final
      BY <1>0, <3>1 DEF HistoryInv
    <3>3. ASSUME NEW i \in 1..Len(events) PROVE events # <<>>
      BY <2>1, <3>3, EmptySeq
    <3>. QED  BY <1>0, <3>2, <3>3 DEF HistoryInv
  <2>. QED  BY <1>1, <1>2, <1>3, <2>1, <2>2, KeptIsNewest
<1>5. HistoryInv'
  <2>1. \A i \in 1..Len(events') : events'[i].final => i = Len(events')
    BY <1>4
  <2>2. events' # <<>>
    BY <1>4, EmptySeq
  <2>3. state' \in Final <=> (events' # <<>> /\ events'[Len(events')].final)
    BY <1>2, <1>4, <2>2
  <2>4. state' \notin {"absent", "pending"} /\ nextSeq' # 0
    BY <1>1 DEF Final
  <2>5. state' = "running" => nextSeq' <= MaxProgress + 1
    BY <1>1, BoundAssumption
  <2>. QED  BY <1>4, <2>1, <2>3, <2>4, <2>5 DEF HistoryInv
<1>6. ASSUME NEW f \in Followers
      PROVE  /\ channel'[f] \in Seq(Event) /\ Len(channel'[f]) <= Buffer
             /\ lost'[f] \subseteq 1..MaxSeq
             /\ \/ /\ channel'[f] = channel[f] /\ lost'[f] = lost[f] /\ f \notin subscribers
                \/ /\ channel'[f] = channel[f] /\ lost'[f] = lost[f] \cup {nextSeq + 1}
                \/ /\ channel'[f] = Append(channel[f], e) /\ lost'[f] = lost[f]
  <2>1. channel[f] \in Seq(Event) /\ Len(channel[f]) <= Buffer /\ lost[f] \subseteq 1..MaxSeq
    BY <1>0 DEF TypeOK
  <2>2. CASE f \notin subscribers
    BY <1>3, <2>1, <2>2
  <2>3. CASE f \in subscribers /\ ~HasRoom(f)
    BY <1>1, <1>2, <1>3, <2>1, <2>3 DEF Offer
  <2>4. CASE f \in subscribers /\ HasRoom(f)
    <3>1. channel'[f] = Append(channel[f], e) /\ lost'[f] = lost[f]
      BY <1>3, <2>4 DEF Offer
    <3>2. Append(channel[f], e) \in Seq(Event) /\ Len(Append(channel[f], e)) = Len(channel[f]) + 1
      BY <1>2, <2>1, AppendProperties
    <3>3. Len(channel[f]) \in Nat /\ Buffer \in Nat /\ Len(channel[f]) < Buffer
      BY <2>1, <2>4, LenProperties, BoundAssumption DEF HasRoom
    <3>. QED  BY <2>1, <3>1, <3>2, <3>3
  <2>. QED  BY <2>2, <2>3, <2>4
<1>7. TypeOK'
  <2>1. channel' \in [Followers -> Seq(Event)] /\ lost' \in [Followers -> SUBSET (1..MaxSeq)]
    BY <1>3, <1>6
  <2>2. state' \in {"absent", "pending", "running"} \cup Final /\ nextSeq' \in 0..MaxSeq
    BY <1>1
  <2>. QED  BY <1>0, <1>4, <1>6, <2>1, <2>2 DEF TypeOK, stream
<1>8. FollowInv'
  <2>. SUFFICES ASSUME NEW f \in Followers
                PROVE  /\ step'[f] # "idle" => f \in subscribers'
                       /\ step'[f] = "live" => copy'[f] = <<>>
                       /\ step'[f] \in Following => ~whole'[f] /\ Faithful(Known(f)', nextSeq', lost'[f])
    BY DEF FollowInv
  <2>1. UNCHANGED <<subscribers, step, copy, got, whole>>
    BY DEF stream
  <2>2. ASSUME step[f] \in Following PROVE Faithful(Known(f)', nextSeq', lost'[f])
    <3>1. f \in subscribers /\ Faithful(Known(f), nextSeq, lost[f])
      BY <1>0, <2>2 DEF FollowInv, Following
    <3>2. got[f] \in Seq(Event) /\ copy[f] \in Seq(Event) /\ channel[f] \in Seq(Event)
      BY <1>0 DEF TypeOK
    <3>3. got[f] \o copy[f] \in Seq(Event) /\ Known(f) \in Seq(Event)
      BY <3>2, ConcatProperties DEF Known
    <3>4. CASE channel'[f] = channel[f] /\ lost'[f] = lost[f] \cup {nextSeq + 1}
      <4>1. Known(f)' = Known(f)
        BY <2>1, <3>4 DEF Known
      <4>. QED  BY <1>1, <3>1, <3>3, <3>4, <4>1, FaithfulLost
    <3>5. CASE channel'[f] = Append(channel[f], e) /\ lost'[f] = lost[f]
      <4>1. Known(f)' = Append(Known(f), e)
        <5>1. (got[f] \o copy[f]) \o Append(channel[f], e)
                = Append((got[f] \o copy[f]) \o channel[f], e)
          <6>. DEFINE sent == got[f] \o copy[f]
                      coming == channel[f]
          <6>1. sent \in Seq(Event) /\ coming \in Seq(Event)
            BY <3>2, <3>3
          <6>. HIDE DEF sent, coming
          <6>2. sent \o Append(coming, e) = Append(sent \o coming, e)
            BY <1>2, <6>1, AppendLast
          <6>. QED  BY <6>2, Zenon DEF sent, coming
        <5>2. Known(f)' = (got[f] \o copy[f]) \o Append(channel[f], e)
          BY <2>1, <3>5, Zenon DEF Known
        <5>. QED  BY <5>1, <5>2, Zenon DEF Known
      <4>. QED  BY <1>1, <1>2, <3>1, <3>3, <3>5, <4>1, FaithfulSent
    <3>6. \/ channel'[f] = channel[f] /\ lost'[f] = lost[f] \cup {nextSeq + 1}
          \/ channel'[f] = Append(channel[f], e) /\ lost'[f] = lost[f]
      BY <1>6, <3>1
    <3>. QED  BY <3>4, <3>5, <3>6, Zenon
  <2>. QED  BY <1>0, <2>1, <2>2 DEF FollowInv
<1>9. EndsWithOutcome'
  BY <1>0 DEF EndsWithOutcome, stream
<1>. QED  BY <1>5, <1>7, <1>8, <1>9 DEF IInv

(* The goroutine that runs the operation.                                  *)
LEMMA StoreKeeps ==
  ASSUME IInv, create \/ runExecution
  PROVE  IInv'
<1>1. CASE create
  <2>1. UNCHANGED <<nextSeq, events, subscribers, channel, lost, step, copy, got, whole, follows>>
    BY <1>1 DEF create, stream
  <2>2. state = "absent" /\ state' = "pending"
    BY <1>1 DEF create
  <2>3. TypeOK' /\ HistoryInv'
    BY <2>1, <2>2 DEF IInv, TypeOK, HistoryInv, Contiguous, Final
  <2>4. FollowInv' /\ EndsWithOutcome'
    BY <2>1 DEF IInv, FollowInv, EndsWithOutcome, Known
  <2>. QED  BY <2>3, <2>4 DEF IInv
<1>2. CASE start
  <2>1. nextSeq <= MaxProgress
    BY <1>2, BoundAssumption DEF start, IInv, HistoryInv
  <2>. QED  BY <1>2, <2>1, EmitKeeps DEF start, Final
<1>3. CASE progress
  BY <1>3, EmitKeeps DEF progress, Final
<1>4. CASE finish
  BY <1>4, EmitKeeps DEF finish, Final
<1>. QED  BY <1>1, <1>2, <1>3, <1>4 DEF runExecution

-----------------------------------------------------------------------------
(* The followers *)

(* One follower moves, the store and the others stay.                      *)
LEMMA OneFollower ==
  ASSUME IInv, NEW f \in Followers, UNCHANGED execution,
         \A g \in Followers \ {f} :
           /\ step'[g] = step[g] /\ copy'[g] = copy[g] /\ channel'[g] = channel[g]
           /\ got'[g] = got[g] /\ lost'[g] = lost[g] /\ whole'[g] = whole[g]
           /\ g \in subscribers => g \in subscribers',
         TypeOK',
         step'[f] # "idle" => f \in subscribers',
         step'[f] = "live" => copy'[f] = <<>>,
         step'[f] \in Following => ~whole'[f] /\ Faithful(Known(f)', nextSeq, lost'[f]),
         whole'[f] => got'[f] # <<>> /\ got'[f][Len(got'[f])].final,
         \A i \in 1..Len(got'[f]) : got'[f][i].final => i = Len(got'[f]) /\ whole'[f]
  PROVE  IInv'
<1>1. HistoryInv'
  BY DEF IInv, HistoryInv, execution
<1>2. FollowInv'
  <2>. SUFFICES ASSUME NEW g \in Followers
                PROVE  /\ step'[g] # "idle" => g \in subscribers'
                       /\ step'[g] = "live" => copy'[g] = <<>>
                       /\ step'[g] \in Following => ~whole'[g] /\ Faithful(Known(g)', nextSeq', lost'[g])
    BY DEF FollowInv
  <2>0. nextSeq' = nextSeq
    BY DEF execution
  <2>1. CASE g = f
    BY <2>0, <2>1
  <2>2. CASE g # f
    <3>1. Known(g)' = Known(g)
      BY <2>2 DEF Known
    <3>. QED  BY <2>0, <2>2, <3>1 DEF IInv, FollowInv
  <2>. QED  BY <2>1, <2>2
<1>3. EndsWithOutcome'
  <2>. SUFFICES ASSUME NEW g \in Followers
                PROVE  /\ whole'[g] => got'[g] # <<>> /\ got'[g][Len(got'[g])].final
                       /\ \A i \in 1..Len(got'[g]) : got'[g][i].final => i = Len(got'[g]) /\ whole'[g]
    BY DEF EndsWithOutcome
  <2>1. CASE g = f
    BY <2>1
  <2>2. CASE g # f
    BY <2>2 DEF IInv, EndsWithOutcome
  <2>. QED  BY <2>1, <2>2
<1>. QED  BY <1>1, <1>2, <1>3 DEF IInv

(* The history is copied and the channel joined.                           *)
LEMMA SubscribeKeeps ==
  ASSUME IInv, NEW f \in Followers, subscribe(f)
  PROVE  IInv'
<1>0. TypeOK /\ HistoryInv
  BY DEF IInv
<1>1. <<>> \in Seq(Event) /\ Len(<<>>) = 0 /\ events \in Seq(Event)
  BY <1>0, EmptySeq DEF TypeOK
<1>2. follows[f] + 1 \in 0..MaxFollows
  BY <1>0, BoundAssumption DEF TypeOK, subscribe
<1>3. TypeOK'
  BY <1>0, <1>1, <1>2, BoundAssumption DEF TypeOK, subscribe, execution
<1>4. /\ step'[f] = "copy" /\ copy'[f] = events /\ channel'[f] = <<>> /\ got'[f] = <<>>
      /\ lost'[f] = {} /\ ~whole'[f] /\ f \in subscribers'
  BY <1>0 DEF TypeOK, subscribe
<1>5. Known(f)' = events
  BY <1>1, <1>4, ConcatEmptySeq DEF Known
<1>6. Faithful(events, nextSeq, lost'[f])
  BY <1>0, <1>1, HistoryFaithful, BoundAssumption DEF TypeOK, HistoryInv, MaxSeq
<1>7. \A g \in Followers \ {f} :
        /\ step'[g] = step[g] /\ copy'[g] = copy[g] /\ channel'[g] = channel[g]
        /\ got'[g] = got[g] /\ lost'[g] = lost[g] /\ whole'[g] = whole[g]
        /\ g \in subscribers => g \in subscribers'
  BY <1>0 DEF TypeOK, subscribe
<1>8. \A i \in 1..Len(got'[f]) : FALSE
  BY <1>1, <1>4
<1>. QED  BY <1>3, <1>4, <1>5, <1>6, <1>7, <1>8, OneFollower DEF subscribe

(* An event reaches the client.                                            *)
LEMMA WrittenKeeps ==
  ASSUME IInv, NEW f \in Followers, NEW e \in Event, Written(f, e), step[f] \in Following,
         UNCHANGED <<execution, subscribers, lost, follows>>,
         copy' \in [Followers -> Seq(Event)], channel' \in [Followers -> Seq(Event)],
         Len(channel'[f]) <= Buffer,
         \A g \in Followers \ {f} : copy'[g] = copy[g] /\ channel'[g] = channel[g],
         step[f] = "live" => copy'[f] = <<>>,
         Append(got[f], e) \o copy'[f] \o channel'[f] = Known(f)
  PROVE  IInv'
<1>0. TypeOK /\ FollowInv /\ EndsWithOutcome
  BY DEF IInv
<1>1. /\ got[f] \in Seq(Event) /\ Append(got[f], e) \in Seq(Event)
      /\ Append(got[f], e) # <<>> /\ Len(Append(got[f], e)) = Len(got[f]) + 1
      /\ \A i \in 1..Len(got[f]) : Append(got[f], e)[i] = got[f][i]
      /\ Append(got[f], e)[Len(got[f]) + 1] = e
      /\ Len(got[f]) \in Nat
  <2>1. got[f] \in Seq(Event)
    BY <1>0 DEF TypeOK
  <2>. QED  BY <2>1, OneLonger
<1>2. /\ got' = [got EXCEPT ![f] = Append(got[f], e)]
      /\ whole' = [whole EXCEPT ![f] = e.final]
      /\ step' = [step EXCEPT ![f] = IF e.final THEN "leave" ELSE step[f]]
  BY DEF Written
<1>3. /\ got'[f] = Append(got[f], e) /\ whole'[f] = e.final /\ e.final \in BOOLEAN
      /\ step'[f] = IF e.final THEN "leave" ELSE step[f]
      /\ \A g \in Followers \ {f} : got'[g] = got[g] /\ whole'[g] = whole[g] /\ step'[g] = step[g]
  BY <1>0, <1>2 DEF TypeOK, Event
<1>4. TypeOK'
  <2>1. /\ got' \in [Followers -> Seq(Event)] /\ whole' \in [Followers -> BOOLEAN]
        /\ step' \in [Followers -> {"idle", "copy", "live", "leave"}]
    BY <1>0, <1>1, <1>2, <1>3 DEF TypeOK
  <2>2. \A g \in Followers : Len(channel'[g]) <= Buffer
    BY <1>0 DEF TypeOK
  <2>. QED  BY <1>0, <2>1, <2>2 DEF TypeOK, execution
<1>5. ~whole[f] /\ Faithful(Known(f), nextSeq, lost[f]) /\ f \in subscribers
  BY <1>0 DEF FollowInv, Following
<1>6. Known(f)' = Known(f)
  BY <1>3 DEF Known
<1>7. step'[f] \in Following => ~whole'[f] /\ Faithful(Known(f)', nextSeq, lost'[f])
  BY <1>3, <1>5, <1>6 DEF Following
<1>8. whole'[f] => got'[f] # <<>> /\ got'[f][Len(got'[f])].final
  BY ZenonT(60), <1>1, <1>3
<1>9. ASSUME NEW i \in 1..Len(got'[f]), got'[f][i].final
      PROVE  i = Len(got'[f]) /\ whole'[f]
  <2>1. CASE i \in 1..Len(got[f])
    BY <1>0, <1>1, <1>3, <1>5, <1>9, <2>1 DEF EndsWithOutcome
  <2>2. CASE i = Len(got[f]) + 1
    BY <1>1, <1>3, <1>9, <2>2
  <2>. QED  BY <1>1, <1>3, <2>1, <2>2
<1>10. step'[f] = "live" => copy'[f] = <<>>
  BY <1>3
<1>. QED  BY <1>3, <1>4, <1>5, <1>7, <1>8, <1>9, <1>10, OneFollower

(* serveExecutionEvents writes the copy and then what the channel brings.  *)
LEMMA ServeKeeps ==
  ASSUME IInv, NEW f \in Followers, Serve(f)
  PROVE  IInv'
<1>0. TypeOK /\ FollowInv /\ EndsWithOutcome
  BY DEF IInv
<1>1. /\ got[f] \in Seq(Event) /\ copy[f] \in Seq(Event) /\ channel[f] \in Seq(Event)
      /\ Len(channel[f]) \in Nat /\ Len(channel[f]) <= Buffer
      /\ step[f] \in {"idle", "copy", "live", "leave"}
  BY <1>0, LenProperties DEF TypeOK
<1>2. CASE WriteCopy(f)
  <2>1. step[f] = "copy" /\ copy[f] # <<>>
    BY <1>2 DEF WriteCopy
  <2>2. Head(copy[f]) \in Event /\ Tail(copy[f]) \in Seq(Event)
    BY <1>1, <2>1, HeadTailProperties
  <2>3. copy' = [copy EXCEPT ![f] = Tail(copy[f])] /\ channel' = channel
    BY <1>2 DEF WriteCopy
  <2>4. /\ copy' \in [Followers -> Seq(Event)] /\ copy'[f] = Tail(copy[f])
        /\ \A g \in Followers \ {f} : copy'[g] = copy[g]
    BY <1>0, <2>2, <2>3 DEF TypeOK
  <2>5. Append(got[f], Head(copy[f])) \o copy'[f] \o channel'[f] = Known(f)
    <3>1. Append(got[f], Head(copy[f])) \o Tail(copy[f]) = got[f] \o copy[f]
      BY <1>1, <2>1, MoveHead
    <3>. QED  BY <2>3, <2>4, <3>1, Zenon DEF Known
  <2>6. /\ Written(f, Head(copy[f])) /\ UNCHANGED <<execution, subscribers, lost, follows>>
        /\ channel' \in [Followers -> Seq(Event)] /\ Len(channel'[f]) <= Buffer
        /\ \A g \in Followers \ {f} : channel'[g] = channel[g]
    BY <1>0, <1>1, <1>2, <2>3 DEF WriteCopy, TypeOK
  <2>. QED  BY <2>1, <2>2, <2>4, <2>5, <2>6, WrittenKeeps DEF Following
<1>3. CASE CopyWritten(f)
  <2>1. /\ step[f] = "copy" /\ copy[f] = <<>> /\ step' = [step EXCEPT ![f] = "live"]
        /\ UNCHANGED <<execution, subscribers, channel, lost, copy, got, whole, follows>>
    BY <1>3 DEF CopyWritten
  <2>2. step'[f] = "live" /\ \A g \in Followers \ {f} : step'[g] = step[g]
    BY <1>0, <2>1 DEF TypeOK
  <2>3. TypeOK'
    BY <1>0, <2>1 DEF TypeOK, execution
  <2>4. Known(f)' = Known(f)
    BY <2>1 DEF Known
  <2>5. f \in subscribers /\ ~whole[f] /\ Faithful(Known(f), nextSeq, lost[f])
    BY <1>0, <2>1 DEF FollowInv, Following
  <2>6. /\ whole'[f] => got'[f] # <<>> /\ got'[f][Len(got'[f])].final
        /\ \A i \in 1..Len(got'[f]) : got'[f][i].final => i = Len(got'[f]) /\ whole'[f]
    BY <1>0, <2>1 DEF EndsWithOutcome
  <2>. QED  BY <2>1, <2>2, <2>3, <2>4, <2>5, <2>6, OneFollower
<1>4. CASE Receive(f)
  <2>1. step[f] = "live" /\ channel[f] # <<>> /\ copy[f] = <<>>
    BY <1>0, <1>4 DEF Receive, FollowInv
  <2>2. Head(channel[f]) \in Event /\ Tail(channel[f]) \in Seq(Event) /\ Len(Tail(channel[f])) = Len(channel[f]) - 1
    BY <1>1, <2>1, HeadTailProperties
  <2>3. channel' = [channel EXCEPT ![f] = Tail(channel[f])] /\ copy' = copy
    BY <1>4 DEF Receive
  <2>4. /\ channel' \in [Followers -> Seq(Event)] /\ channel'[f] = Tail(channel[f])
        /\ Len(channel'[f]) <= Buffer
        /\ \A g \in Followers \ {f} : channel'[g] = channel[g]
    BY <1>0, <1>1, <2>2, <2>3, BoundAssumption DEF TypeOK
  <2>5. Append(got[f], Head(channel[f])) \o copy'[f] \o channel'[f] = Known(f)
    <3>1. Append(got[f], Head(channel[f])) \in Seq(Event)
      BY <1>1, <2>2, AppendProperties
    <3>2. Append(got[f], Head(channel[f])) \o copy'[f] = Append(got[f], Head(channel[f]))
      BY <2>1, <2>3, <3>1, ConcatEmptySeq
    <3>3. got[f] \o copy[f] = got[f]
      BY <1>1, <2>1, ConcatEmptySeq
    <3>4. Append(got[f], Head(channel[f])) \o Tail(channel[f]) = got[f] \o channel[f]
      BY <1>1, <2>1, MoveHead
    <3>. QED  BY <2>4, <3>2, <3>3, <3>4, Zenon DEF Known
  <2>6. /\ Written(f, Head(channel[f])) /\ UNCHANGED <<execution, subscribers, lost, follows>>
        /\ copy' \in [Followers -> Seq(Event)] /\ copy'[f] = <<>>
        /\ \A g \in Followers \ {f} : copy'[g] = copy[g]
    BY <1>0, <1>4, <2>1, <2>3 DEF Receive, TypeOK
  <2>. QED  BY <2>1, <2>2, <2>4, <2>5, <2>6, WrittenKeeps DEF Following
<1>5. CASE cancel(f)
  <2>1. /\ step' = [step EXCEPT ![f] = "idle"] /\ subscribers' = subscribers \ {f}
        /\ UNCHANGED <<execution, channel, lost, copy, got, whole, follows>>
    BY <1>5 DEF cancel
  <2>2. step'[f] = "idle" /\ \A g \in Followers \ {f} : step'[g] = step[g]
    BY <1>0, <2>1 DEF TypeOK
  <2>3. TypeOK'
    BY <1>0, <2>1 DEF TypeOK, execution
  <2>4. /\ whole'[f] => got'[f] # <<>> /\ got'[f][Len(got'[f])].final
        /\ \A i \in 1..Len(got'[f]) : got'[f][i].final => i = Len(got'[f]) /\ whole'[f]
    BY <1>0, <2>1 DEF EndsWithOutcome
  <2>. QED  BY <2>1, <2>2, <2>3, <2>4, OneFollower DEF Following
<1>. QED  BY <1>2, <1>3, <1>4, <1>5 DEF Serve

(* The client is gone, or the stream's deadline passes.                    *)
LEMMA DisconnectKeeps ==
  ASSUME IInv, NEW f \in Followers, Disconnect(f)
  PROVE  IInv'
<1>0. TypeOK /\ FollowInv /\ EndsWithOutcome
  BY DEF IInv
<1>1. /\ step' = [step EXCEPT ![f] = "leave"] /\ step[f] \in {"copy", "live"}
      /\ UNCHANGED <<execution, subscribers, channel, lost, copy, got, whole, follows>>
  BY DEF Disconnect
<1>2. step'[f] = "leave" /\ \A g \in Followers \ {f} : step'[g] = step[g]
  BY <1>0, <1>1 DEF TypeOK
<1>3. TypeOK'
  BY <1>0, <1>1 DEF TypeOK, execution
<1>4. /\ whole'[f] => got'[f] # <<>> /\ got'[f][Len(got'[f])].final
      /\ \A i \in 1..Len(got'[f]) : got'[f][i].final => i = Len(got'[f]) /\ whole'[f]
  BY <1>0, <1>1 DEF EndsWithOutcome
<1>5. f \in subscribers
  BY <1>0, <1>1 DEF FollowInv
<1>. QED  BY <1>1, <1>2, <1>3, <1>4, <1>5, OneFollower DEF Following

-----------------------------------------------------------------------------
(* ... and every step keeps it.                                            *)
LEMMA NextIInv == IInv /\ [Next]_vars => IInv'
<1>. SUFFICES ASSUME IInv, [Next]_vars PROVE IInv'
  OBVIOUS
<1>1. CASE UNCHANGED vars
  <2>1. UNCHANGED <<state, nextSeq, events, subscribers, channel, lost, step, copy, got, whole,
                    follows>>
    BY <1>1 DEF vars, execution, stream
  <2>2. TypeOK' /\ HistoryInv'
    BY <2>1 DEF IInv, TypeOK, HistoryInv, Contiguous
  <2>3. FollowInv' /\ EndsWithOutcome'
    BY <2>1 DEF IInv, FollowInv, EndsWithOutcome, Known
  <2>. QED  BY <2>2, <2>3 DEF IInv
<1>2. CASE create \/ runExecution
  BY <1>2, StoreKeeps
<1>3. ASSUME NEW f \in Followers, subscribe(f) \/ Serve(f) \/ Disconnect(f) PROVE IInv'
  BY <1>3, SubscribeKeeps, ServeKeeps, DisconnectKeeps
<1>. QED  BY <1>1, <1>2, <1>3 DEF Next

(* IInv holds in every state of the execution and its streams.             *)
THEOREM Invariance == Spec => []IInv
BY InitIInv, NextIInv, PTL DEF Spec

(* History, channels and streams keep their types: the history stays       *)
(* within maxExecutionEvents and a channel within its capacity.            *)
THEOREM TypeCorrect == Spec => []TypeOK
<1>1. IInv => TypeOK
  BY DEF IInv
<1>. QED  BY <1>1, Invariance, PTL

(* The invariant gives each part of what a client is promised.             *)
LEMMA IInvIsFaithful == IInv => StreamsAreFaithful
<1>. SUFFICES ASSUME IInv PROVE StreamsAreFaithful
  OBVIOUS
<1>1. NothingTwice
  BY DEF IInv, FollowInv, Following, Faithful, Known, NothingTwice
<1>2. NoSilentGap
  BY DEF IInv, FollowInv, Following, Faithful, Known, NoSilentGap
<1>3. HistoryIsNewest
  <2>1. /\ events \in Seq(Event) /\ Len(events) \in Nat /\ nextSeq \in Nat
        /\ MaxEvents \in Nat \ {0}
        /\ Len(events) <= MaxEvents /\ Len(events) <= nextSeq
        /\ Len(events) < MaxEvents => Len(events) = nextSeq
        /\ \A i \in 1..Len(events) : events[i].seq = nextSeq - Len(events) + i
    BY LenProperties, BoundAssumption DEF IInv, TypeOK, HistoryInv, Contiguous, MaxSeq
  <2>2. Increasing(events)
    BY <2>1 DEF Increasing
  <2>3. ASSUME NEW n \in Numbers(events) PROVE n \in 1..nextSeq /\ n + MaxEvents > nextSeq
    <3>1. PICK i \in 1..Len(events) : n = events[i].seq
      BY DEF Numbers
    <3>. QED  BY <2>1, <3>1
  <2>4. ASSUME NEW n \in 1..nextSeq, n + MaxEvents > nextSeq PROVE n \in Numbers(events)
    <3>1. n - (nextSeq - Len(events)) \in 1..Len(events)
      BY <2>1, <2>4
    <3>2. events[n - (nextSeq - Len(events))].seq = n
      BY <2>1, <3>1
    <3>. QED  BY <3>1, <3>2 DEF Numbers
  <2>5. Numbers(events) = {n \in 1..nextSeq : n + MaxEvents > nextSeq}
    BY <2>3, <2>4
  <2>. QED  BY <2>2, <2>5 DEF HistoryIsNewest, IInv, HistoryInv
<1>. QED  BY <1>1, <1>2, <1>3 DEF StreamsAreFaithful, IInv

(* Whenever a follower joins, however slow it is and however long the      *)
(* execution runs, its client reads the history of emitLocked without      *)
(* repetition, without a gap that a full channel does not account for,     *)
(* and with the outcome last (store.go, serveExecutionEvents).             *)
THEOREM FaithfulStreams == Spec => []StreamsAreFaithful
BY IInvIsFaithful, Invariance, PTL

-----------------------------------------------------------------------------
(* MachineTerminal *)

RequestSteps == {"idle", "authorized", "write", "file", "wrote", "stream", "wait"}
Request == [step : RequestSteps, terminal : Terminals, sequence : 0..MaxInput]

(* The request holds record.mu of its terminal.                            *)
Writing(q) == request[q].step \in {"write", "file", "wrote"}
Streams(q) == request[q].step \in {"stream", "wait"}

(* A terminal has its record until its PTY is closed, whoever ends it.     *)
LifeInv ==
  \A t \in Terminals :
    /\ open[t] \in {"new", "audit", "start"} => pty[t] = "none"
    /\ open[t] # "ended" => cleanup[t] = "none"
    /\ open[t] \in {"audit", "start", "set", "lifetime"} => t \in store
    /\ cleanup[t] \in {"remove", "audit", "done"} => pty[t] = "closed"
    /\ pty[t] \in {"running", "exited"} => t \in store
    /\ ready[t] => open[t] \in {"lifetime", "ended"}

(* What reserve counts.                                                    *)
BoundInv ==
  /\ IsFiniteSet(store) /\ Cardinality(store) <= MaxTotal
  /\ \A a \in Actors : Cardinality({t \in store : owner[t] = a}) <= MaxPerActor

(* One request at a time is past record.mu; a request on a session has one *)
LockInv ==
  /\ \A p, q \in Requests :
       Writing(p) /\ Writing(q) /\ request[p].terminal = request[q].terminal => p = q
  /\ \A q \in Requests : Writing(q) \/ Streams(q) => ready[request[q].terminal]

(* As long as the terminal lives, every consumed number but that of the    *)
(* request in progress has reached the process.                            *)
InputInv ==
  /\ \A t \in Terminals : live[t] /\ Unlocked(t) => Len(applied[t]) = input[t]
  /\ \A q \in Requests :
       LET t == request[q].terminal IN
       /\ request[q].step \in {"write", "file"} => request[q].sequence = input[t]
       /\ request[q].step = "write" /\ live[t] => Len(applied[t]) + 1 = input[t]
       /\ request[q].step = "file" => Len(applied[t]) + 1 = input[t]
       /\ request[q].step = "wrote" /\ live[t] => Len(applied[t]) = input[t]

AttachInv ==
  /\ \A q \in Requests : Streams(q) => attached[request[q].terminal]
  /\ \A p, q \in Requests :
       Streams(p) /\ Streams(q) /\ request[p].terminal = request[q].terminal => p = q

TerminalIInv ==
  /\ TerminalTypeOK /\ LifeInv /\ BoundInv /\ LockInv /\ InputInv /\ AttachInv /\ InputsInOrder

-----------------------------------------------------------------------------
(* A request at rest is one.                                               *)
LEMMA IdleTyped == Idle \in Request /\ Idle.step = "idle"
BY LimitAssumption DEF Idle, Request, RequestSteps

(* The type invariant speaks of that record.                               *)
LEMMA Typed ==
  ASSUME TerminalTypeOK
  PROVE  /\ request \in [Requests -> Request]
         /\ input \in [Terminals -> Nat] /\ applied \in [Terminals -> Seq(1..MaxInput)]
         /\ \A t \in Terminals : Len(applied[t]) \in Nat
BY LimitAssumption, LenProperties DEF TerminalTypeOK, Request, RequestSteps

(* Whoever ends a terminal, its inputs stay as they are.                   *)
LEMMA InputsStay ==
  ASSUME InputInv, InputsInOrder, UNCHANGED <<request, applied, input>>,
         \A t \in Terminals : live'[t] => live[t], request \in [Requests -> Request]
  PROVE  InputInv' /\ InputsInOrder'
BY DEF InputInv, InputsInOrder, Unlocked, Request

(* A record that is freed makes room.                                      *)
LEMMA FewerStay ==
  ASSUME BoundInv, owner' = owner, store' \subseteq store
  PROVE  BoundInv'
<1>1. IsFiniteSet(store) /\ IsFiniteSet(store') /\ Cardinality(store') <= Cardinality(store)
  BY FS_Subset DEF BoundInv
<1>2. \A S : IsFiniteSet(S) => Cardinality(S) \in Nat
  BY FS_CardinalityType
<1>3. ASSUME NEW a \in Actors
      PROVE  Cardinality({t \in store' : owner'[t] = a}) <= MaxPerActor
  <2>. DEFINE was == {t \in store : owner[t] = a}
              is == {t \in store' : owner'[t] = a}
  <2>1. IsFiniteSet(was)
    BY <1>1, FS_Subset
  <2>2. IsFiniteSet(is) /\ Cardinality(is) <= Cardinality(was)
    BY <2>1, FS_Subset
  <2>3. Cardinality(was) <= MaxPerActor
    BY DEF BoundInv
  <2>. QED  BY <1>2, <2>1, <2>2, <2>3, LimitAssumption
<1>. QED  BY <1>1, <1>2, <1>3, LimitAssumption DEF BoundInv

(* A new element adds at most one.                                         *)
LEMMA OneMore ==
  ASSUME NEW S, NEW x, IsFiniteSet(S)
  PROVE  /\ IsFiniteSet(S \cup {x}) /\ Cardinality(S \cup {x}) \in Nat
         /\ Cardinality(S \cup {x}) <= Cardinality(S) + 1
<1>1. IsFiniteSet(S \cup {x})
  BY FS_AddElement
<1>2. Cardinality(S) \in Nat /\ Cardinality(S \cup {x}) \in Nat
  BY <1>1, FS_CardinalityType
<1>3. Cardinality(S \cup {x}) = IF x \in S THEN Cardinality(S) ELSE Cardinality(S) + 1
  BY FS_AddElement
<1>. QED  BY <1>1, <1>2, <1>3

(* What a handler does to its own request.                                 *)
LEMMA Handled ==
  ASSUME request \in [Requests -> Request], NEW q \in Requests,
         NEW s \in RequestSteps
  PROVE  /\ Step(q, s) => /\ request' \in [Requests -> Request]
                          /\ \A r \in Requests \ {q} : request'[r] = request[r]
                          /\ request'[q].step = s
                          /\ request'[q].terminal = request[q].terminal
                          /\ request'[q].sequence = request[q].sequence
         /\ Done(q) => /\ request' \in [Requests -> Request]
                       /\ \A r \in Requests \ {q} : request'[r] = request[r]
                       /\ request'[q].step = "idle"
<1>1. request[q] \in Request
  OBVIOUS
<1>2. Step(q, s) => /\ request' \in [Requests -> Request]
                    /\ \A r \in Requests \ {q} : request'[r] = request[r]
                    /\ request'[q] = [request[q] EXCEPT !.step = s]
  BY <1>1 DEF Step, Request
<1>3. /\ [request[q] EXCEPT !.step = s].step = s
      /\ [request[q] EXCEPT !.step = s].terminal = request[q].terminal
      /\ [request[q] EXCEPT !.step = s].sequence = request[q].sequence
  BY <1>1 DEF Request
<1>. QED  BY <1>2, <1>3, IdleTyped DEF Done, Set

(* The number a request writes is the next one the process gets.           *)
LEMMA AppendInOrder ==
  ASSUME TerminalTypeOK, InputInv, InputsInOrder, NEW q \in Requests, request[q].step = "file"
  PROVE  LET at == request[q].terminal
             n == request[q].sequence IN
         /\ Append(applied[at], n) \in Seq(1..MaxInput)
         /\ Len(Append(applied[at], n)) = n /\ n = input[at]
         /\ \A i \in 1..n : Append(applied[at], n)[i] = i
<1>. DEFINE at == request[q].terminal
            n == request[q].sequence
<1>1. /\ at \in Terminals /\ n \in 0..MaxInput /\ input[at] \in Nat
      /\ applied[at] \in Seq(1..MaxInput) /\ Len(applied[at]) \in Nat
  BY Typed DEF Request
<1>2. n = input[at] /\ Len(applied[at]) + 1 = n
  BY DEF InputInv
<1>3. \A i \in 1..Len(applied[at]) : applied[at][i] = i
  BY <1>1 DEF InputsInOrder
<1>. HIDE DEF at, n
<1>4. n \in 1..MaxInput
  BY <1>1, <1>2, LimitAssumption
<1>5. /\ Append(applied[at], n) \in Seq(1..MaxInput)
      /\ Len(Append(applied[at], n)) = Len(applied[at]) + 1
      /\ \A i \in 1..Len(applied[at]) : Append(applied[at], n)[i] = applied[at][i]
      /\ Append(applied[at], n)[Len(applied[at]) + 1] = n
  BY <1>1, <1>4, AppendProperties
<1>6. \A i \in 1..n : Append(applied[at], n)[i] = i
  BY <1>1, <1>2, <1>3, <1>5
<1>. QED  BY <1>1, <1>2, <1>5, <1>6 DEF at, n

(* The record is reserved, or there is no room.                            *)
LEMMA ReserveKeeps ==
  ASSUME TerminalIInv, NEW t \in Terminals, Reserve(t)
  PROVE  TerminalIInv'
<1>0. TerminalTypeOK /\ LifeInv /\ BoundInv /\ LockInv /\ InputInv /\ AttachInv /\ InputsInOrder
  BY DEF TerminalIInv
<1>. USE IdleTyped DEF Set
<1>1. /\ request \in [Requests -> Request]
      /\ input \in [Terminals -> Nat] /\ applied \in [Terminals -> Seq(1..MaxInput)]
      /\ \A u \in Terminals : Len(applied[u]) \in Nat
  BY <1>0, Typed
<1>2. TerminalTypeOK'
  <2>1. /\ open' \in [Terminals -> {"new", "audit", "start", "set", "lifetime", "ended"}]
        /\ live' \in [Terminals -> BOOLEAN] /\ store' \subseteq Terminals
        /\ pty' \in [Terminals -> {"none", "running", "exited", "closed"}]
    <3>1. CASE TerminalRoom(owner[t])
      <4>1. /\ open' = Set(open, t, "audit")
            /\ live' = live /\ store' \subseteq store \cup {t}
            /\ pty' = pty
        BY <1>0, <3>1 DEF Reserve, life, TerminalTypeOK
      <4>. QED  BY <1>0, <4>1 DEF TerminalTypeOK
    <3>2. CASE ~TerminalRoom(owner[t])
      <4>1. /\ open' = Set(open, t, "ended")
            /\ live' = Set(live, t, FALSE) /\ store' \subseteq store /\ pty' = pty
        BY <1>0, <3>2 DEF Reserve, life, TerminalTypeOK
      <4>. QED  BY <1>0, <4>1 DEF TerminalTypeOK
    <3>. QED  BY <3>1, <3>2 DEF Reserve
  <2>. QED  BY <1>0, <2>1 DEF Reserve, record, life, TerminalTypeOK
<1>3. LifeInv'
  BY <1>0 DEF Reserve, record, life, LifeInv, TerminalTypeOK
<1>4. BoundInv'
  <2>1. CASE store' = store
    BY <1>0, <2>1, FewerStay DEF Reserve
  <2>2. CASE store' = store \cup {t} /\ TerminalRoom(owner[t])
    <3>1. /\ IsFiniteSet(store) /\ IsFiniteSet(store')
          /\ \A S : IsFiniteSet(S) => Cardinality(S) \in Nat
          /\ Cardinality(store') <= Cardinality(store) + 1
      BY <1>0, <2>2, OneMore, FS_CardinalityType DEF BoundInv
    <3>2. Cardinality(store') <= MaxTotal
      BY <2>2, <3>1, LimitAssumption DEF TerminalRoom
    <3>3. ASSUME NEW a \in Actors
          PROVE  Cardinality({u \in store' : owner'[u] = a}) <= MaxPerActor
      <4>. DEFINE was == {u \in store : owner[u] = a}
                  is == {u \in store' : owner'[u] = a}
      <4>1. IsFiniteSet(was) /\ Cardinality(was) \in Nat /\ Cardinality(was) <= MaxPerActor
        BY <1>0, <3>1, FS_Subset DEF BoundInv
      <4>2. CASE owner[t] = a
        <5>1. is = was \cup {t}
          BY <2>2, <4>2 DEF Reserve
        <5>2. Cardinality(was) < MaxPerActor
          BY <2>2, <4>2 DEF TerminalRoom
        <5>3. Cardinality(is) \in Nat /\ Cardinality(is) <= Cardinality(was) + 1
          BY <4>1, <5>1, OneMore
        <5>. QED  BY <4>1, <5>2, <5>3, LimitAssumption
      <4>3. CASE owner[t] # a
        <5>1. is = was
          BY <2>2, <4>3 DEF Reserve
        <5>. QED  BY <4>1, <5>1
      <4>. QED  BY <4>2, <4>3
    <3>. QED  BY <3>1, <3>2, <3>3 DEF BoundInv
  <2>. QED  BY <2>1, <2>2 DEF Reserve
<1>5. LockInv'
  BY <1>0, <1>1 DEF Reserve, record, life, LockInv, Writing, Streams, Request, Unlocked
<1>6. InputInv' /\ InputsInOrder'
  BY <1>0, <1>1, InputsStay DEF Reserve, record, life, TerminalTypeOK
<1>7. AttachInv'
  BY <1>0, <1>1 DEF Reserve, record, life, AttachInv, Streams, Request
<1>. QED  BY <1>2, <1>3, <1>4, <1>5, <1>6, <1>7 DEF TerminalIInv

(* The admission is audited.                                               *)
LEMMA AdmitKeeps ==
  ASSUME TerminalIInv, NEW t \in Terminals, Admit(t)
  PROVE  TerminalIInv'
<1>0. TerminalTypeOK /\ LifeInv /\ BoundInv /\ LockInv /\ InputInv /\ AttachInv /\ InputsInOrder
  BY DEF TerminalIInv
<1>. USE IdleTyped DEF Set
<1>1. /\ request \in [Requests -> Request]
      /\ input \in [Terminals -> Nat] /\ applied \in [Terminals -> Seq(1..MaxInput)]
      /\ \A u \in Terminals : Len(applied[u]) \in Nat
  BY <1>0, Typed
<1>2. TerminalTypeOK'
  <2>1. /\ open' \in [Terminals -> {"new", "audit", "start", "set", "lifetime", "ended"}]
        /\ live' \in [Terminals -> BOOLEAN] /\ store' \subseteq Terminals
        /\ pty' \in [Terminals -> {"none", "running", "exited", "closed"}]
    <3>1. CASE open' = Set(open, t, "start")
      <4>1. /\ open' = Set(open, t, "start")
            /\ live' = live /\ store' \subseteq store \cup {t}
            /\ pty' = pty
        BY <1>0, <3>1 DEF Admit, life, TerminalTypeOK
      <4>. QED  BY <1>0, <4>1 DEF TerminalTypeOK
    <3>2. CASE open' = Set(open, t, "ended")
      <4>1. /\ open' = Set(open, t, "ended")
            /\ live' = Set(live, t, FALSE) /\ store' \subseteq store /\ pty' = pty
        BY <1>0, <3>2 DEF Admit, life, TerminalTypeOK
      <4>. QED  BY <1>0, <4>1 DEF TerminalTypeOK
    <3>. QED  BY <3>1, <3>2 DEF Admit
  <2>. QED  BY <1>0, <2>1 DEF Admit, record, life, TerminalTypeOK
<1>3. LifeInv'
  BY <1>0 DEF Admit, record, life, LifeInv, TerminalTypeOK
<1>4. BoundInv'
  BY <1>0, <1>1, FewerStay DEF Admit, record, life
<1>5. LockInv'
  BY <1>0, <1>1 DEF Admit, record, life, LockInv, Writing, Streams, Request, Unlocked
<1>6. InputInv' /\ InputsInOrder'
  BY <1>0, <1>1, InputsStay DEF Admit, record, life, TerminalTypeOK
<1>7. AttachInv'
  BY <1>0, <1>1 DEF Admit, record, life, AttachInv, Streams, Request
<1>. QED  BY <1>2, <1>3, <1>4, <1>5, <1>6, <1>7 DEF TerminalIInv

(* The process is started.                                                 *)
LEMMA StartPTYKeeps ==
  ASSUME TerminalIInv, NEW t \in Terminals, StartPTY(t)
  PROVE  TerminalIInv'
<1>0. TerminalTypeOK /\ LifeInv /\ BoundInv /\ LockInv /\ InputInv /\ AttachInv /\ InputsInOrder
  BY DEF TerminalIInv
<1>. USE IdleTyped DEF Set
<1>1. /\ request \in [Requests -> Request]
      /\ input \in [Terminals -> Nat] /\ applied \in [Terminals -> Seq(1..MaxInput)]
      /\ \A u \in Terminals : Len(applied[u]) \in Nat
  BY <1>0, Typed
<1>2. TerminalTypeOK'
  <2>1. /\ open' \in [Terminals -> {"new", "audit", "start", "set", "lifetime", "ended"}]
        /\ live' \in [Terminals -> BOOLEAN] /\ store' \subseteq Terminals
        /\ pty' \in [Terminals -> {"none", "running", "exited", "closed"}]
    <3>1. CASE open' = Set(open, t, "set")
      <4>1. /\ open' = Set(open, t, "set")
            /\ live' = live /\ store' \subseteq store \cup {t}
            /\ pty' = Set(pty, t, "running")
        BY <1>0, <3>1 DEF StartPTY, life, TerminalTypeOK
      <4>. QED  BY <1>0, <4>1 DEF TerminalTypeOK
    <3>2. CASE open' = Set(open, t, "ended")
      <4>1. /\ open' = Set(open, t, "ended")
            /\ live' = Set(live, t, FALSE) /\ store' \subseteq store /\ pty' = pty
        BY <1>0, <3>2 DEF StartPTY, life, TerminalTypeOK
      <4>. QED  BY <1>0, <4>1 DEF TerminalTypeOK
    <3>. QED  BY <3>1, <3>2 DEF StartPTY
  <2>. QED  BY <1>0, <2>1 DEF StartPTY, record, life, TerminalTypeOK
<1>3. LifeInv'
  BY <1>0 DEF StartPTY, record, life, LifeInv, TerminalTypeOK
<1>4. BoundInv'
  BY <1>0, <1>1, FewerStay DEF StartPTY, record, life
<1>5. LockInv'
  BY <1>0, <1>1 DEF StartPTY, record, life, LockInv, Writing, Streams, Request, Unlocked
<1>6. InputInv' /\ InputsInOrder'
  BY <1>0, <1>1, InputsStay DEF StartPTY, record, life, TerminalTypeOK
<1>7. AttachInv'
  BY <1>0, <1>1 DEF StartPTY, record, life, AttachInv, Streams, Request
<1>. QED  BY <1>2, <1>3, <1>4, <1>5, <1>6, <1>7 DEF TerminalIInv

(* The session is set.                                                     *)
LEMMA SetSessionKeeps ==
  ASSUME TerminalIInv, NEW t \in Terminals, SetSession(t)
  PROVE  TerminalIInv'
<1>0. TerminalTypeOK /\ LifeInv /\ BoundInv /\ LockInv /\ InputInv /\ AttachInv /\ InputsInOrder
  BY DEF TerminalIInv
<1>. USE IdleTyped DEF Set
<1>1. /\ request \in [Requests -> Request]
      /\ input \in [Terminals -> Nat] /\ applied \in [Terminals -> Seq(1..MaxInput)]
      /\ \A u \in Terminals : Len(applied[u]) \in Nat
  BY <1>0, Typed
<1>2. TerminalTypeOK'
  BY <1>0, <1>1 DEF SetSession, record, life, TerminalTypeOK, Request, RequestSteps
<1>3. LifeInv'
  BY <1>0 DEF SetSession, record, life, LifeInv, TerminalTypeOK
<1>4. BoundInv'
  BY <1>0, <1>1, FewerStay DEF SetSession, record, life
<1>5. LockInv'
  BY <1>0, <1>1 DEF SetSession, record, life, LockInv, Writing, Streams, Request, Unlocked
<1>6. InputInv' /\ InputsInOrder'
  BY <1>0, <1>1, InputsStay DEF SetSession, record, life, TerminalTypeOK
<1>7. AttachInv'
  BY <1>0, <1>1 DEF SetSession, record, life, AttachInv, Streams, Request
<1>. QED  BY <1>2, <1>3, <1>4, <1>5, <1>6, <1>7 DEF TerminalIInv

(* The lifetime begins.                                                    *)
LEMMA startLifetimeKeeps ==
  ASSUME TerminalIInv, NEW t \in Terminals, startLifetime(t)
  PROVE  TerminalIInv'
<1>0. TerminalTypeOK /\ LifeInv /\ BoundInv /\ LockInv /\ InputInv /\ AttachInv /\ InputsInOrder
  BY DEF TerminalIInv
<1>. USE IdleTyped DEF Set
<1>1. /\ request \in [Requests -> Request]
      /\ input \in [Terminals -> Nat] /\ applied \in [Terminals -> Seq(1..MaxInput)]
      /\ \A u \in Terminals : Len(applied[u]) \in Nat
  BY <1>0, Typed
<1>2. TerminalTypeOK'
  BY <1>0, <1>1 DEF startLifetime, record, life, TerminalTypeOK, Request, RequestSteps
<1>3. LifeInv'
  BY <1>0 DEF startLifetime, record, life, LifeInv, TerminalTypeOK
<1>4. BoundInv'
  BY <1>0, <1>1, FewerStay DEF startLifetime, record, life
<1>5. LockInv'
  BY <1>0, <1>1 DEF startLifetime, record, life, LockInv, Writing, Streams, Request, Unlocked
<1>6. InputInv' /\ InputsInOrder'
  BY <1>0, <1>1, InputsStay DEF startLifetime, record, life, TerminalTypeOK
<1>7. AttachInv'
  BY <1>0, <1>1 DEF startLifetime, record, life, AttachInv, Streams, Request
<1>. QED  BY <1>2, <1>3, <1>4, <1>5, <1>6, <1>7 DEF TerminalIInv

(* The timer of an unattached terminal.                                    *)
LEMMA TimerReadsKeeps ==
  ASSUME TerminalIInv, NEW t \in Terminals, TimerReads(t)
  PROVE  TerminalIInv'
<1>0. TerminalTypeOK /\ LifeInv /\ BoundInv /\ LockInv /\ InputInv /\ AttachInv /\ InputsInOrder
  BY DEF TerminalIInv
<1>. USE IdleTyped DEF Set
<1>1. /\ request \in [Requests -> Request]
      /\ input \in [Terminals -> Nat] /\ applied \in [Terminals -> Seq(1..MaxInput)]
      /\ \A u \in Terminals : Len(applied[u]) \in Nat
  BY <1>0, Typed
<1>2. TerminalTypeOK'
  BY <1>0, <1>1 DEF TimerReads, record, life, TerminalTypeOK, Request, RequestSteps
<1>3. LifeInv'
  BY <1>0, <1>1 DEF TimerReads, record, life, LifeInv, LockInv, Writing, Streams, Request
<1>4. BoundInv'
  BY <1>0, <1>1, FewerStay DEF TimerReads, record, life
<1>5. LockInv'
  BY <1>0, <1>1 DEF TimerReads, record, life, LockInv, Writing, Streams, Request, Unlocked
<1>6. InputInv' /\ InputsInOrder'
  BY <1>0, <1>1, InputsStay DEF TimerReads, record, life, TerminalTypeOK
<1>7. AttachInv'
  BY <1>0, <1>1 DEF TimerReads, record, life, AttachInv, Streams, Request
<1>. QED  BY <1>2, <1>3, <1>4, <1>5, <1>6, <1>7 DEF TerminalIInv

(* ... and its end.                                                        *)
LEMMA TimerCancelsKeeps ==
  ASSUME TerminalIInv, NEW t \in Terminals, TimerCancels(t)
  PROVE  TerminalIInv'
<1>0. TerminalTypeOK /\ LifeInv /\ BoundInv /\ LockInv /\ InputInv /\ AttachInv /\ InputsInOrder
  BY DEF TerminalIInv
<1>. USE IdleTyped DEF Set
<1>1. /\ request \in [Requests -> Request]
      /\ input \in [Terminals -> Nat] /\ applied \in [Terminals -> Seq(1..MaxInput)]
      /\ \A u \in Terminals : Len(applied[u]) \in Nat
  BY <1>0, Typed
<1>2. TerminalTypeOK'
  BY <1>0, <1>1 DEF TimerCancels, record, life, TerminalTypeOK, Request, RequestSteps
<1>3. LifeInv'
  BY <1>0, <1>1 DEF TimerCancels, record, life, LifeInv, LockInv, Writing, Streams, Request
<1>4. BoundInv'
  BY <1>0, <1>1, FewerStay DEF TimerCancels, record, life
<1>5. LockInv'
  BY <1>0, <1>1 DEF TimerCancels, record, life, LockInv, Writing, Streams, Request, Unlocked
<1>6. InputInv' /\ InputsInOrder'
  BY <1>0, <1>1, InputsStay DEF TimerCancels, record, life, TerminalTypeOK
<1>7. AttachInv'
  BY <1>0, <1>1 DEF TimerCancels, record, life, AttachInv, Streams, Request
<1>. QED  BY <1>2, <1>3, <1>4, <1>5, <1>6, <1>7 DEF TerminalIInv

(* The deadline of the session.                                            *)
LEMMA DeadlineKeeps ==
  ASSUME TerminalIInv, NEW t \in Terminals, Deadline(t)
  PROVE  TerminalIInv'
<1>0. TerminalTypeOK /\ LifeInv /\ BoundInv /\ LockInv /\ InputInv /\ AttachInv /\ InputsInOrder
  BY DEF TerminalIInv
<1>. USE IdleTyped DEF Set
<1>1. /\ request \in [Requests -> Request]
      /\ input \in [Terminals -> Nat] /\ applied \in [Terminals -> Seq(1..MaxInput)]
      /\ \A u \in Terminals : Len(applied[u]) \in Nat
  BY <1>0, Typed
<1>2. TerminalTypeOK'
  BY <1>0, <1>1 DEF Deadline, record, life, TerminalTypeOK, Request, RequestSteps
<1>3. LifeInv'
  BY <1>0, <1>1 DEF Deadline, record, life, LifeInv, LockInv, Writing, Streams, Request
<1>4. BoundInv'
  BY <1>0, <1>1, FewerStay DEF Deadline, record, life
<1>5. LockInv'
  BY <1>0, <1>1 DEF Deadline, record, life, LockInv, Writing, Streams, Request, Unlocked
<1>6. InputInv' /\ InputsInOrder'
  BY <1>0, <1>1, InputsStay DEF Deadline, record, life, TerminalTypeOK
<1>7. AttachInv'
  BY <1>0, <1>1 DEF Deadline, record, life, AttachInv, Streams, Request
<1>. QED  BY <1>2, <1>3, <1>4, <1>5, <1>6, <1>7 DEF TerminalIInv

(* The cleanup closes the PTY,                                             *)
LEMMA CleanupClosesKeeps ==
  ASSUME TerminalIInv, NEW t \in Terminals, CleanupCloses(t)
  PROVE  TerminalIInv'
<1>0. TerminalTypeOK /\ LifeInv /\ BoundInv /\ LockInv /\ InputInv /\ AttachInv /\ InputsInOrder
  BY DEF TerminalIInv
<1>. USE IdleTyped DEF Set
<1>1. /\ request \in [Requests -> Request]
      /\ input \in [Terminals -> Nat] /\ applied \in [Terminals -> Seq(1..MaxInput)]
      /\ \A u \in Terminals : Len(applied[u]) \in Nat
  BY <1>0, Typed
<1>2. TerminalTypeOK'
  BY <1>0, <1>1 DEF CleanupCloses, record, life, TerminalTypeOK, Request, RequestSteps
<1>3. LifeInv'
  BY <1>0 DEF CleanupCloses, record, life, LifeInv, TerminalTypeOK
<1>4. BoundInv'
  BY <1>0, <1>1, FewerStay DEF CleanupCloses, record, life
<1>5. LockInv'
  BY <1>0, <1>1 DEF CleanupCloses, record, life, LockInv, Writing, Streams, Request, Unlocked
<1>6. InputInv' /\ InputsInOrder'
  BY <1>0, <1>1, InputsStay DEF CleanupCloses, record, life, TerminalTypeOK
<1>7. AttachInv'
  BY <1>0, <1>1 DEF CleanupCloses, record, life, AttachInv, Streams, Request
<1>. QED  BY <1>2, <1>3, <1>4, <1>5, <1>6, <1>7 DEF TerminalIInv

(* ... frees the record,                                                   *)
LEMMA CleanupRemovesKeeps ==
  ASSUME TerminalIInv, NEW t \in Terminals, CleanupRemoves(t)
  PROVE  TerminalIInv'
<1>0. TerminalTypeOK /\ LifeInv /\ BoundInv /\ LockInv /\ InputInv /\ AttachInv /\ InputsInOrder
  BY DEF TerminalIInv
<1>. USE IdleTyped DEF Set
<1>1. /\ request \in [Requests -> Request]
      /\ input \in [Terminals -> Nat] /\ applied \in [Terminals -> Seq(1..MaxInput)]
      /\ \A u \in Terminals : Len(applied[u]) \in Nat
  BY <1>0, Typed
<1>2. TerminalTypeOK'
  BY <1>0, <1>1 DEF CleanupRemoves, record, life, TerminalTypeOK, Request, RequestSteps
<1>3. LifeInv'
  BY <1>0, <1>1 DEF CleanupRemoves, record, life, LifeInv, LockInv, Writing, Streams, Request
<1>4. BoundInv'
  BY <1>0, <1>1, FewerStay DEF CleanupRemoves, record, life
<1>5. LockInv'
  BY <1>0, <1>1 DEF CleanupRemoves, record, life, LockInv, Writing, Streams, Request, Unlocked
<1>6. InputInv' /\ InputsInOrder'
  BY <1>0, <1>1, InputsStay DEF CleanupRemoves, record, life, TerminalTypeOK
<1>7. AttachInv'
  BY <1>0, <1>1 DEF CleanupRemoves, record, life, AttachInv, Streams, Request
<1>. QED  BY <1>2, <1>3, <1>4, <1>5, <1>6, <1>7 DEF TerminalIInv

(* ... and audits.                                                         *)
LEMMA CleanupAuditsKeeps ==
  ASSUME TerminalIInv, NEW t \in Terminals, CleanupAudits(t)
  PROVE  TerminalIInv'
<1>0. TerminalTypeOK /\ LifeInv /\ BoundInv /\ LockInv /\ InputInv /\ AttachInv /\ InputsInOrder
  BY DEF TerminalIInv
<1>. USE IdleTyped DEF Set
<1>1. /\ request \in [Requests -> Request]
      /\ input \in [Terminals -> Nat] /\ applied \in [Terminals -> Seq(1..MaxInput)]
      /\ \A u \in Terminals : Len(applied[u]) \in Nat
  BY <1>0, Typed
<1>2. TerminalTypeOK'
  BY <1>0, <1>1 DEF CleanupAudits, record, life, TerminalTypeOK, Request, RequestSteps
<1>3. LifeInv'
  BY <1>0, <1>1 DEF CleanupAudits, record, life, LifeInv, LockInv, Writing, Streams, Request
<1>4. BoundInv'
  BY <1>0, <1>1, FewerStay DEF CleanupAudits, record, life
<1>5. LockInv'
  BY <1>0, <1>1 DEF CleanupAudits, record, life, LockInv, Writing, Streams, Request, Unlocked
<1>6. InputInv' /\ InputsInOrder'
  BY <1>0, <1>1, InputsStay DEF CleanupAudits, record, life, TerminalTypeOK
<1>7. AttachInv'
  BY <1>0, <1>1 DEF CleanupAudits, record, life, AttachInv, Streams, Request
<1>. QED  BY <1>2, <1>3, <1>4, <1>5, <1>6, <1>7 DEF TerminalIInv

(* The PTY closes with its context.                                        *)
LEMMA PTYClosesKeeps ==
  ASSUME TerminalIInv, NEW t \in Terminals, PTYCloses(t)
  PROVE  TerminalIInv'
<1>0. TerminalTypeOK /\ LifeInv /\ BoundInv /\ LockInv /\ InputInv /\ AttachInv /\ InputsInOrder
  BY DEF TerminalIInv
<1>. USE IdleTyped DEF Set
<1>1. /\ request \in [Requests -> Request]
      /\ input \in [Terminals -> Nat] /\ applied \in [Terminals -> Seq(1..MaxInput)]
      /\ \A u \in Terminals : Len(applied[u]) \in Nat
  BY <1>0, Typed
<1>2. TerminalTypeOK'
  BY <1>0, <1>1 DEF PTYCloses, record, life, TerminalTypeOK, Request, RequestSteps
<1>3. LifeInv'
  BY <1>0, <1>1 DEF PTYCloses, record, life, LifeInv, LockInv, Writing, Streams, Request
<1>4. BoundInv'
  BY <1>0, <1>1, FewerStay DEF PTYCloses, record, life
<1>5. LockInv'
  BY <1>0, <1>1 DEF PTYCloses, record, life, LockInv, Writing, Streams, Request, Unlocked
<1>6. InputInv' /\ InputsInOrder'
  BY <1>0, <1>1, InputsStay DEF PTYCloses, record, life, TerminalTypeOK
<1>7. AttachInv'
  BY <1>0, <1>1 DEF PTYCloses, record, life, AttachInv, Streams, Request
<1>. QED  BY <1>2, <1>3, <1>4, <1>5, <1>6, <1>7 DEF TerminalIInv

(* The process exits.                                                      *)
LEMMA ExitsKeeps ==
  ASSUME TerminalIInv, NEW t \in Terminals, Exits(t)
  PROVE  TerminalIInv'
<1>0. TerminalTypeOK /\ LifeInv /\ BoundInv /\ LockInv /\ InputInv /\ AttachInv /\ InputsInOrder
  BY DEF TerminalIInv
<1>. USE IdleTyped DEF Set
<1>1. /\ request \in [Requests -> Request]
      /\ input \in [Terminals -> Nat] /\ applied \in [Terminals -> Seq(1..MaxInput)]
      /\ \A u \in Terminals : Len(applied[u]) \in Nat
  BY <1>0, Typed
<1>2. TerminalTypeOK'
  BY <1>0, <1>1 DEF Exits, record, life, TerminalTypeOK, Request, RequestSteps
<1>3. LifeInv'
  BY <1>0, <1>1 DEF Exits, record, life, LifeInv, LockInv, Writing, Streams, Request
<1>4. BoundInv'
  BY <1>0, <1>1, FewerStay DEF Exits, record, life
<1>5. LockInv'
  BY <1>0, <1>1 DEF Exits, record, life, LockInv, Writing, Streams, Request, Unlocked
<1>6. InputInv' /\ InputsInOrder'
  BY <1>0, <1>1, InputsStay DEF Exits, record, life, TerminalTypeOK
<1>7. AttachInv'
  BY <1>0, <1>1 DEF Exits, record, life, AttachInv, Streams, Request
<1>. QED  BY <1>2, <1>3, <1>4, <1>5, <1>6, <1>7 DEF TerminalIInv

(* A request finds its record.                                             *)
LEMMA ArriveKeeps ==
  ASSUME TerminalIInv, NEW q \in Requests, NEW t \in Terminals, Arrive(q, t)
  PROVE  TerminalIInv'
<1>0. TerminalTypeOK /\ LifeInv /\ BoundInv /\ LockInv /\ InputInv /\ AttachInv /\ InputsInOrder
  BY DEF TerminalIInv
<1>. USE IdleTyped DEF Set
<1>1. /\ request \in [Requests -> Request]
      /\ input \in [Terminals -> Nat] /\ applied \in [Terminals -> Seq(1..MaxInput)]
      /\ \A u \in Terminals : Len(applied[u]) \in Nat
  BY <1>0, Typed
<1>2. TerminalTypeOK'
  BY <1>0, <1>1 DEF Arrive, record, life, TerminalTypeOK, Request, RequestSteps
<1>3. LifeInv'
  BY <1>0, <1>1 DEF Arrive, record, life, LifeInv, LockInv, Writing, Streams, Request
<1>4. BoundInv'
  BY <1>0, <1>1, FewerStay DEF Arrive, record, life
<1>5. LockInv'
  BY <1>0, <1>1 DEF Arrive, record, life, LockInv, Writing, Streams, Request, Unlocked
<1>6. InputInv' /\ InputsInOrder'
  <2>1. /\ \A r \in Requests \ {q} : request'[r] = request[r]
        /\ request[q].step = "idle" /\ request'[q].step = "authorized"
    BY <1>1 DEF Arrive
  <2>2. \A u \in Terminals : Unlocked(u)' => Unlocked(u)
    BY <2>1 DEF Unlocked
  <2>. QED  BY <1>0, <2>1, <2>2 DEF Arrive, record, life, InputInv, InputsInOrder
<1>7. AttachInv'
  BY <1>0, <1>1 DEF Arrive, record, life, AttachInv, Streams, Request
<1>. QED  BY <1>2, <1>3, <1>4, <1>5, <1>6, <1>7 DEF TerminalIInv

(* A denied request.                                                       *)
LEMMA DeniedKeeps ==
  ASSUME TerminalIInv, NEW q \in Requests, Denied(q)
  PROVE  TerminalIInv'
<1>0. TerminalTypeOK /\ LifeInv /\ BoundInv /\ LockInv /\ InputInv /\ AttachInv /\ InputsInOrder
  BY DEF TerminalIInv
<1>. USE IdleTyped DEF Set
<1>1. /\ request \in [Requests -> Request]
      /\ input \in [Terminals -> Nat] /\ applied \in [Terminals -> Seq(1..MaxInput)]
      /\ \A u \in Terminals : Len(applied[u]) \in Nat
  BY <1>0, Typed
<1>2. TerminalTypeOK'
  BY <1>0, <1>1 DEF Denied, Done, record, life, TerminalTypeOK, Request, RequestSteps
<1>3. LifeInv'
  BY <1>0, <1>1 DEF Denied, Done, record, life, LifeInv, LockInv, Writing, Streams, Request
<1>4. BoundInv'
  BY <1>0, <1>1, FewerStay DEF Denied, Done, record, life
<1>5. LockInv'
  BY <1>0, <1>1 DEF Denied, Done, record, life, LockInv, Writing, Streams, Request, Unlocked
<1>6. InputInv' /\ InputsInOrder'
  BY <1>0, <1>1
  DEF Denied, Done, record, life, InputInv, InputsInOrder, LockInv, Writing, Unlocked, Request,
     TerminalTypeOK
<1>7. AttachInv'
  BY <1>0, <1>1 DEF Denied, Done, record, life, AttachInv, Streams, Request
<1>. QED  BY <1>2, <1>3, <1>4, <1>5, <1>6, <1>7 DEF TerminalIInv

(* A request before the session is set.                                    *)
LEMMA StartingKeeps ==
  ASSUME TerminalIInv, NEW q \in Requests, Starting(q)
  PROVE  TerminalIInv'
<1>0. TerminalTypeOK /\ LifeInv /\ BoundInv /\ LockInv /\ InputInv /\ AttachInv /\ InputsInOrder
  BY DEF TerminalIInv
<1>. USE IdleTyped DEF Set
<1>1. /\ request \in [Requests -> Request]
      /\ input \in [Terminals -> Nat] /\ applied \in [Terminals -> Seq(1..MaxInput)]
      /\ \A u \in Terminals : Len(applied[u]) \in Nat
  BY <1>0, Typed
<1>2. TerminalTypeOK'
  BY <1>0, <1>1 DEF Starting, Done, record, life, TerminalTypeOK, Request, RequestSteps
<1>3. LifeInv'
  BY <1>0, <1>1 DEF Starting, Done, record, life, LifeInv, LockInv, Writing, Streams, Request
<1>4. BoundInv'
  BY <1>0, <1>1, FewerStay DEF Starting, Done, record, life
<1>5. LockInv'
  BY <1>0, <1>1 DEF Starting, Done, record, life, LockInv, Writing, Streams, Request, Unlocked
<1>6. InputInv' /\ InputsInOrder'
  BY <1>0, <1>1
  DEF Starting, Done, record, life, InputInv, InputsInOrder, LockInv, Writing, Unlocked, Request,
     TerminalTypeOK
<1>7. AttachInv'
  BY <1>0, <1>1 DEF Starting, Done, record, life, AttachInv, Streams, Request
<1>. QED  BY <1>2, <1>3, <1>4, <1>5, <1>6, <1>7 DEF TerminalIInv

(* A closing request.                                                      *)
LEMMA handleTerminalCloseKeeps ==
  ASSUME TerminalIInv, NEW q \in Requests, handleTerminalClose(q)
  PROVE  TerminalIInv'
<1>0. TerminalTypeOK /\ LifeInv /\ BoundInv /\ LockInv /\ InputInv /\ AttachInv /\ InputsInOrder
  BY DEF TerminalIInv
<1>. USE IdleTyped DEF Set
<1>1. /\ request \in [Requests -> Request]
      /\ input \in [Terminals -> Nat] /\ applied \in [Terminals -> Seq(1..MaxInput)]
      /\ \A u \in Terminals : Len(applied[u]) \in Nat
  BY <1>0, Typed
<1>2. TerminalTypeOK'
  BY <1>0, <1>1
  DEF handleTerminalClose, Done, Authorized, record, life, TerminalTypeOK, Request, RequestSteps
<1>3. LifeInv'
  BY <1>0, <1>1
  DEF handleTerminalClose, Done, Authorized, record, life, LifeInv, LockInv, Writing, Streams,
     Request
<1>4. BoundInv'
  BY <1>0, <1>1, FewerStay DEF handleTerminalClose, Done, Authorized, record, life
<1>5. LockInv'
  BY <1>0, <1>1
  DEF handleTerminalClose, Done, Authorized, record, life, LockInv, Writing, Streams, Request,
     Unlocked
<1>6. InputInv' /\ InputsInOrder'
  BY ZenonT(60), <1>0, <1>1
  DEF handleTerminalClose, Done, Authorized, record, life, InputInv, InputsInOrder, LockInv,
     Writing, Unlocked, Request, TerminalTypeOK
<1>7. AttachInv'
  BY <1>0, <1>1
  DEF handleTerminalClose, Done, Authorized, record, life, AttachInv, Streams, Request
<1>. QED  BY <1>2, <1>3, <1>4, <1>5, <1>6, <1>7 DEF TerminalIInv

(* A request attaches, or finds another attached.                          *)
LEMMA AttachKeeps ==
  ASSUME TerminalIInv, NEW q \in Requests, Attach(q)
  PROVE  TerminalIInv'
<1>0. TerminalTypeOK /\ LifeInv /\ BoundInv /\ LockInv /\ InputInv /\ AttachInv /\ InputsInOrder
  BY DEF TerminalIInv
<1>. USE IdleTyped DEF Set
<1>1. /\ request \in [Requests -> Request]
      /\ input \in [Terminals -> Nat] /\ applied \in [Terminals -> Seq(1..MaxInput)]
      /\ \A u \in Terminals : Len(applied[u]) \in Nat
  BY <1>0, Typed
<1>a. /\ request' \in [Requests -> Request]
      /\ \A r \in Requests \ {q} : request'[r] = request[r]
      /\ request[q].step = "authorized" /\ ready[request[q].terminal] /\ Unlocked(request[q].terminal)
      /\ \/ request'[q].step = "idle"
         \/ /\ request'[q].step = "stream" /\ request'[q].terminal = request[q].terminal
            /\ ~attached[request[q].terminal]
  <2>1. "stream" \in RequestSteps /\ request[q] \in Request
    BY <1>1 DEF RequestSteps
  <2>2. CASE Done(q)
    BY <1>1, <2>1, <2>2, Handled DEF Attach, Authorized
  <2>3. CASE Step(q, "stream") /\ ~attached[request[q].terminal]
    BY <1>1, <2>1, <2>3, Handled DEF Attach, Authorized
  <2>. QED  BY <2>2, <2>3 DEF Attach
<1>b. request[q].terminal \in Terminals
  BY <1>1 DEF Request
<1>2. TerminalTypeOK'
  BY <1>0, <1>a DEF Attach, record, life, TerminalTypeOK, Request, RequestSteps
<1>3. LifeInv'
  BY <1>0, <1>1
  DEF Attach, Done, Step, Authorized, record, life, LifeInv, LockInv, Writing, Streams, Request
<1>4. BoundInv'
  BY <1>0, <1>1, FewerStay DEF Attach, Done, Step, Authorized, record, life
<1>5. LockInv'
  BY <1>0, <1>a DEF Attach, record, life, LockInv, Writing, Streams
<1>6. InputInv' /\ InputsInOrder'
  <2>1. \A u \in Terminals : Unlocked(u)' => Unlocked(u)
    BY <1>a DEF Unlocked
  <2>. QED  BY <1>0, <1>a, <2>1 DEF Attach, record, life, InputInv, InputsInOrder
<1>7. AttachInv'
  <2>1. attached' = Set(attached, request[q].terminal, TRUE) /\ attached \in [Terminals -> BOOLEAN]
    BY <1>0 DEF Attach, TerminalTypeOK
  <2>2. \A r \in Requests : request[r].terminal \in Terminals
    BY <1>1 DEF Request
  <2>3. \A u \in Terminals : attached[u] => attached'[u]
    BY <2>1
  <2>4. attached'[request[q].terminal]
    BY <1>b, <2>1
  <2>. QED  BY <1>0, <1>a, <2>2, <2>3, <2>4 DEF AttachInv, Streams
<1>. QED  BY <1>2, <1>3, <1>4, <1>5, <1>6, <1>7 DEF TerminalIInv

(* The attachment ends.                                                    *)
LEMMA DetachKeeps ==
  ASSUME TerminalIInv, NEW q \in Requests, Detach(q)
  PROVE  TerminalIInv'
<1>0. TerminalTypeOK /\ LifeInv /\ BoundInv /\ LockInv /\ InputInv /\ AttachInv /\ InputsInOrder
  BY DEF TerminalIInv
<1>. USE IdleTyped DEF Set
<1>1. /\ request \in [Requests -> Request]
      /\ input \in [Terminals -> Nat] /\ applied \in [Terminals -> Seq(1..MaxInput)]
      /\ \A u \in Terminals : Len(applied[u]) \in Nat
  BY <1>0, Typed
<1>2. TerminalTypeOK'
  BY <1>0, <1>1 DEF Detach, Done, record, life, TerminalTypeOK, Request, RequestSteps
<1>3. LifeInv'
  BY <1>0, <1>1 DEF Detach, Done, record, life, LifeInv, LockInv, Writing, Streams, Request
<1>4. BoundInv'
  BY <1>0, <1>1, FewerStay DEF Detach, Done, record, life
<1>5. LockInv'
  BY <1>0, <1>1 DEF Detach, Done, record, life, LockInv, Writing, Streams, Request, Unlocked
<1>6. InputInv' /\ InputsInOrder'
  BY ZenonT(60), <1>0, <1>1
  DEF Detach, Done, record, life, InputInv, InputsInOrder, LockInv, Writing, Unlocked, Request,
     TerminalTypeOK
<1>7. AttachInv'
  BY <1>0, <1>1 DEF Detach, Done, record, life, AttachInv, Streams, Request
<1>. QED  BY <1>2, <1>3, <1>4, <1>5, <1>6, <1>7 DEF TerminalIInv

(* The output ends.                                                        *)
LEMMA ReadFailsKeeps ==
  ASSUME TerminalIInv, NEW q \in Requests, ReadFails(q)
  PROVE  TerminalIInv'
<1>0. TerminalTypeOK /\ LifeInv /\ BoundInv /\ LockInv /\ InputInv /\ AttachInv /\ InputsInOrder
  BY DEF TerminalIInv
<1>. USE IdleTyped DEF Set
<1>1. /\ request \in [Requests -> Request]
      /\ input \in [Terminals -> Nat] /\ applied \in [Terminals -> Seq(1..MaxInput)]
      /\ \A u \in Terminals : Len(applied[u]) \in Nat
  BY <1>0, Typed
<1>2. TerminalTypeOK'
  BY <1>0, <1>1 DEF ReadFails, Step, record, life, TerminalTypeOK, Request, RequestSteps
<1>3. LifeInv'
  BY <1>0, <1>1 DEF ReadFails, Step, record, life, LifeInv, LockInv, Writing, Streams, Request
<1>4. BoundInv'
  BY <1>0, <1>1, FewerStay DEF ReadFails, Step, record, life
<1>5. LockInv'
  BY <1>0, <1>1 DEF ReadFails, Step, record, life, LockInv, Writing, Streams, Request, Unlocked
<1>6. InputInv' /\ InputsInOrder'
  BY <1>0, <1>1
  DEF ReadFails, Step, record, life, InputInv, InputsInOrder, LockInv, Writing, Unlocked, Request,
     TerminalTypeOK
<1>7. AttachInv'
  BY <1>0, <1>1 DEF ReadFails, Step, record, life, AttachInv, Streams, Request
<1>. QED  BY <1>2, <1>3, <1>4, <1>5, <1>6, <1>7 DEF TerminalIInv

(* The outcome of the process.                                             *)
LEMMA WaitKeeps ==
  ASSUME TerminalIInv, NEW q \in Requests, Wait(q)
  PROVE  TerminalIInv'
<1>0. TerminalTypeOK /\ LifeInv /\ BoundInv /\ LockInv /\ InputInv /\ AttachInv /\ InputsInOrder
  BY DEF TerminalIInv
<1>. USE IdleTyped DEF Set
<1>1. /\ request \in [Requests -> Request]
      /\ input \in [Terminals -> Nat] /\ applied \in [Terminals -> Seq(1..MaxInput)]
      /\ \A u \in Terminals : Len(applied[u]) \in Nat
  BY <1>0, Typed
<1>2. TerminalTypeOK'
  BY <1>0, <1>1 DEF Wait, Done, record, life, TerminalTypeOK, Request, RequestSteps
<1>3. LifeInv'
  BY <1>0, <1>1 DEF Wait, Done, record, life, LifeInv, LockInv, Writing, Streams, Request
<1>4. BoundInv'
  BY <1>0, <1>1, FewerStay DEF Wait, Done, record, life
<1>5. LockInv'
  BY <1>0, <1>1 DEF Wait, Done, record, life, LockInv, Writing, Streams, Request, Unlocked
<1>6. InputInv' /\ InputsInOrder'
  BY <1>0, <1>1
  DEF Wait, Done, record, life, InputInv, InputsInOrder, LockInv, Writing, Unlocked, Request,
     TerminalTypeOK
<1>7. AttachInv'
  BY <1>0, <1>1 DEF Wait, Done, record, life, AttachInv, Streams, Request
<1>. QED  BY <1>2, <1>3, <1>4, <1>5, <1>6, <1>7 DEF TerminalIInv

(* An input takes its number.                                              *)
LEMMA ConsumeKeeps ==
  ASSUME TerminalIInv, NEW q \in Requests, Consume(q)
  PROVE  TerminalIInv'
<1>0. TerminalTypeOK /\ LifeInv /\ BoundInv /\ LockInv /\ InputInv /\ AttachInv /\ InputsInOrder
  BY DEF TerminalIInv
<1>. USE IdleTyped DEF Set
<1>1. /\ request \in [Requests -> Request]
      /\ input \in [Terminals -> Nat] /\ applied \in [Terminals -> Seq(1..MaxInput)]
      /\ \A u \in Terminals : Len(applied[u]) \in Nat
  BY <1>0, Typed
<1>a. /\ request' \in [Requests -> Request]
      /\ \A r \in Requests \ {q} : request'[r] = request[r]
      /\ request[q].step = "authorized" /\ ready[request[q].terminal] /\ Unlocked(request[q].terminal)
      /\ request[q].terminal \in Terminals
      /\ \/ request'[q].step = "idle" /\ input' = input
         \/ /\ request'[q].step = "write" /\ request'[q].terminal = request[q].terminal
            /\ request'[q].sequence = request[q].sequence
            /\ request[q].sequence = input[request[q].terminal] + 1
            /\ input' = [input EXCEPT ![request[q].terminal] = request[q].sequence]
  <2>1. /\ "write" \in RequestSteps /\ request[q] \in Request
        /\ request[q].terminal \in Terminals
    BY <1>1 DEF RequestSteps, Request
  <2>2. CASE Done(q) /\ input' = input
    BY <1>1, <2>1, <2>2, Handled DEF Consume, Authorized
  <2>3. CASE /\ Step(q, "write") /\ request[q].sequence = input[request[q].terminal] + 1
             /\ input' = [input EXCEPT ![request[q].terminal] = request[q].sequence]
    BY <1>1, <2>1, <2>3, Handled DEF Consume, Authorized
  <2>. QED  BY <2>2, <2>3 DEF Consume
<1>2. TerminalTypeOK'
  BY <1>0, <1>1, <1>a DEF Consume, record, life, TerminalTypeOK, Request, RequestSteps
<1>3. LifeInv'
  BY <1>0, <1>1
  DEF Consume, Done, Step, Authorized, record, life, LifeInv, LockInv, Writing, Streams, Request
<1>4. BoundInv'
  BY <1>0, <1>1, FewerStay DEF Consume, Done, Step, Authorized, record, life
<1>5. LockInv'
  BY <1>0, <1>a DEF Consume, record, life, LockInv, Writing, Streams, Unlocked
<1>6. InputInv' /\ InputsInOrder'
  <2>. DEFINE at == request[q].terminal
  <2>1. UNCHANGED <<live, applied>>
    BY DEF Consume
  <2>2. InputsInOrder'
    BY <1>0, <2>1 DEF InputsInOrder
  <2>3. CASE request'[q].step = "idle" /\ input' = input
    <3>1. \A u \in Terminals : Unlocked(u)' => Unlocked(u)
      BY <1>a, <2>3 DEF Unlocked
    <3>. QED  BY <1>0, <1>a, <2>1, <2>2, <2>3, <3>1 DEF InputInv
  <2>4. CASE /\ request'[q].step = "write" /\ request'[q].terminal = at
             /\ request'[q].sequence = request[q].sequence
             /\ request[q].sequence = input[at] + 1
             /\ input' = [input EXCEPT ![at] = request[q].sequence]
    <3>1. \A u \in Terminals : u = at => ~Unlocked(u)'
      BY <2>4 DEF Unlocked
    <3>2. \A u \in Terminals \ {at} : (Unlocked(u)' => Unlocked(u)) /\ input'[u] = input[u]
      BY <1>1, <1>a, <2>4 DEF Unlocked
    <3>3. \A r \in Requests \ {q} : Writing(r) => request[r].terminal # at /\ request[r].terminal \in Terminals
      BY <1>1, <1>a DEF Unlocked, Writing, Request
    <3>4. live[at] => Len(applied[at]) + 1 = input'[at]
      BY <1>0, <1>1, <1>a, <2>4 DEF InputInv
    <3>5. ASSUME NEW u \in Terminals, live'[u], Unlocked(u)' PROVE Len(applied'[u]) = input'[u]
      BY <1>0, <2>1, <3>1, <3>2, <3>5 DEF InputInv
    <3>6. ASSUME NEW r \in Requests
          PROVE  LET u == request'[r].terminal IN
                 /\ request'[r].step \in {"write", "file"} => request'[r].sequence = input'[u]
                 /\ request'[r].step = "write" /\ live'[u] => Len(applied'[u]) + 1 = input'[u]
                 /\ request'[r].step = "file" => Len(applied'[u]) + 1 = input'[u]
                 /\ request'[r].step = "wrote" /\ live'[u] => Len(applied'[u]) = input'[u]
      <4>1. CASE r = q
        BY <1>1, <1>a, <2>1, <2>4, <3>4, <4>1
      <4>2. CASE r # q /\ Writing(r)
        BY <1>0, <1>a, <2>1, <3>2, <3>3, <4>2 DEF InputInv
      <4>3. CASE r # q /\ ~Writing(r)
        BY <1>a, <4>3 DEF Writing
      <4>. QED  BY <4>1, <4>2, <4>3
    <3>. QED  BY <2>2, <3>5, <3>6 DEF InputInv
  <2>. QED  BY <1>a, <2>3, <2>4
<1>7. AttachInv'
  BY <1>0, <1>a DEF Consume, record, life, AttachInv, Streams
<1>. QED  BY <1>2, <1>3, <1>4, <1>5, <1>6, <1>7 DEF TerminalIInv

(* The context is looked at.                                               *)
LEMMA CheckedWriteKeeps ==
  ASSUME TerminalIInv, NEW q \in Requests, CheckedWrite(q)
  PROVE  TerminalIInv'
<1>0. TerminalTypeOK /\ LifeInv /\ BoundInv /\ LockInv /\ InputInv /\ AttachInv /\ InputsInOrder
  BY DEF TerminalIInv
<1>. USE IdleTyped DEF Set
<1>1. /\ request \in [Requests -> Request]
      /\ input \in [Terminals -> Nat] /\ applied \in [Terminals -> Seq(1..MaxInput)]
      /\ \A u \in Terminals : Len(applied[u]) \in Nat
  BY <1>0, Typed
<1>2. TerminalTypeOK'
  BY <1>0, <1>1 DEF CheckedWrite, Step, record, life, TerminalTypeOK, Request, RequestSteps
<1>3. LifeInv'
  BY <1>0, <1>1 DEF CheckedWrite, Step, record, life, LifeInv, LockInv, Writing, Streams, Request
<1>4. BoundInv'
  BY <1>0, <1>1, FewerStay DEF CheckedWrite, Step, record, life
<1>5. LockInv'
  BY <1>0, <1>1 DEF CheckedWrite, Step, record, life, LockInv, Writing, Streams, Request, Unlocked
<1>6. InputInv' /\ InputsInOrder'
  BY <1>0, <1>1
  DEF CheckedWrite, Step, record, life, InputInv, InputsInOrder, LockInv, Writing, Unlocked,
     Request, TerminalTypeOK
<1>7. AttachInv'
  BY <1>0, <1>1 DEF CheckedWrite, Step, record, life, AttachInv, Streams, Request
<1>. QED  BY <1>2, <1>3, <1>4, <1>5, <1>6, <1>7 DEF TerminalIInv

(* The input reaches the process.                                          *)
LEMMA FileWriteKeeps ==
  ASSUME TerminalIInv, NEW q \in Requests, FileWrite(q)
  PROVE  TerminalIInv'
<1>0. TerminalTypeOK /\ LifeInv /\ BoundInv /\ LockInv /\ InputInv /\ AttachInv /\ InputsInOrder
  BY DEF TerminalIInv
<1>. USE IdleTyped DEF Set
<1>1. /\ request \in [Requests -> Request]
      /\ input \in [Terminals -> Nat] /\ applied \in [Terminals -> Seq(1..MaxInput)]
      /\ \A u \in Terminals : Len(applied[u]) \in Nat
  BY <1>0, Typed
<1>. DEFINE at == request[q].terminal
            n == request[q].sequence
<1>a. /\ request' \in [Requests -> Request]
      /\ \A r \in Requests \ {q} : request'[r] = request[r]
      /\ request[q].step \in {"write", "file"} /\ at \in Terminals
      /\ request'[q].step = "wrote" /\ request'[q].terminal = at /\ request[q].step = "file"
  BY <1>1 DEF FileWrite, Step, record, life, Request, RequestSteps
<1>b. /\ UNCHANGED <<open, owner, store, ready, attached, input, pty, timer, cleanup>>
      /\ live' = live
      /\ applied' = [applied EXCEPT ![at] = Append(applied[at], n)]
  BY DEF FileWrite, Step, record, life, record, life
<1>c. live' \in [Terminals -> BOOLEAN] /\ \A u \in Terminals : live'[u] => live[u]
  BY <1>0, <1>a, <1>b DEF TerminalTypeOK
<1>. HIDE DEF at, n
<1>d. /\ applied' \in [Terminals -> Seq(1..MaxInput)]
      /\ \A u \in Terminals \ {at} : applied'[u] = applied[u]
      /\ \A i \in 1..Len(applied'[at]) : applied'[at][i] = i
      /\ Len(applied'[at]) = input[at]
  <2>2. CASE applied' = [applied EXCEPT ![at] = Append(applied[at], n)] /\ request[q].step = "file"
    <3>1. /\ Append(applied[at], n) \in Seq(1..MaxInput)
          /\ Len(Append(applied[at], n)) = n /\ n = input[at]
          /\ \A i \in 1..n : Append(applied[at], n)[i] = i
      BY <1>0, <2>2, AppendInOrder DEF at, n
    <3>. QED  BY <1>1, <1>a, <2>2, <3>1
  <2>. QED  BY <1>a, <1>b, <2>2
<1>2. TerminalTypeOK'
  BY <1>0, <1>a, <1>b, <1>c, <1>d DEF TerminalTypeOK, Request, RequestSteps
<1>3. LifeInv'
  BY <1>0, <1>b DEF LifeInv
<1>4. BoundInv'
  BY <1>0, <1>b, FewerStay
<1>5. LockInv'
  BY <1>0, <1>a, <1>b DEF LockInv, Writing, Streams, at
<1>6. InputInv' /\ InputsInOrder'
  <2>1. InputsInOrder'
    <3>. SUFFICES ASSUME NEW u \in Terminals, NEW i \in 1..Len(applied'[u]) PROVE applied'[u][i] = i
      BY DEF InputsInOrder
    <3>1. CASE u = at
      BY <1>d, <3>1
    <3>2. CASE u # at
      BY <1>0, <1>d, <3>2 DEF InputsInOrder
    <3>. QED  BY <3>1, <3>2
  <2>2. \A r \in Requests \ {q} : Writing(r) => request[r].terminal # at /\ request[r].terminal \in Terminals
    BY <1>0, <1>1, <1>a DEF LockInv, Writing, Request, at
  <2>3. ASSUME NEW u \in Terminals, live'[u], Unlocked(u)' PROVE Len(applied'[u]) = input'[u]
    <3>1. u # at
      BY <1>a, <1>c, <2>3 DEF Unlocked
    <3>2. Unlocked(u)
      BY <1>a, <2>3, <3>1 DEF Unlocked, at
    <3>. QED  BY <1>0, <1>b, <1>c, <1>d, <2>3, <3>1, <3>2 DEF InputInv
  <2>4. ASSUME NEW r \in Requests
        PROVE  LET u == request'[r].terminal IN
               /\ request'[r].step \in {"write", "file"} => request'[r].sequence = input'[u]
               /\ request'[r].step = "write" /\ live'[u] => Len(applied'[u]) + 1 = input'[u]
               /\ request'[r].step = "file" => Len(applied'[u]) + 1 = input'[u]
               /\ request'[r].step = "wrote" /\ live'[u] => Len(applied'[u]) = input'[u]
    <3>1. CASE r = q
      BY <1>a, <1>b, <1>d, <3>1
    <3>2. CASE r # q /\ Writing(r)
      BY <1>0, <1>a, <1>b, <1>c, <1>d, <2>2, <3>2 DEF InputInv
    <3>3. CASE r # q /\ ~Writing(r)
      BY <1>a, <3>3 DEF Writing
    <3>. QED  BY <3>1, <3>2, <3>3
  <2>. QED  BY <2>1, <2>3, <2>4 DEF InputInv
<1>7. AttachInv'
  BY <1>0, <1>a, <1>b DEF AttachInv, Streams
<1>. QED  BY <1>2, <1>3, <1>4, <1>5, <1>6, <1>7 DEF TerminalIInv

(* The input fails.                                                        *)
LEMMA WriteFailsKeeps ==
  ASSUME TerminalIInv, NEW q \in Requests, WriteFails(q)
  PROVE  TerminalIInv'
<1>0. TerminalTypeOK /\ LifeInv /\ BoundInv /\ LockInv /\ InputInv /\ AttachInv /\ InputsInOrder
  BY DEF TerminalIInv
<1>. USE IdleTyped DEF Set
<1>1. /\ request \in [Requests -> Request]
      /\ input \in [Terminals -> Nat] /\ applied \in [Terminals -> Seq(1..MaxInput)]
      /\ \A u \in Terminals : Len(applied[u]) \in Nat
  BY <1>0, Typed
<1>. DEFINE at == request[q].terminal
            n == request[q].sequence
<1>a. /\ request' \in [Requests -> Request]
      /\ \A r \in Requests \ {q} : request'[r] = request[r]
      /\ request[q].step \in {"write", "file"} /\ at \in Terminals
      /\ request'[q].step = "idle"
  BY <1>1 DEF WriteFails, Done, record, life, Request, RequestSteps
<1>b. /\ UNCHANGED <<open, owner, store, ready, attached, input, pty, timer, cleanup>>
      /\ live' = [live EXCEPT ![at] = FALSE]
      /\ applied' = applied \/ (request[q].step = "file" /\ applied' = [applied EXCEPT ![at] = Append(applied[at], n)])
  BY DEF WriteFails, Done, record, life, record, life
<1>c. live' \in [Terminals -> BOOLEAN] /\ \A u \in Terminals : live'[u] => live[u] /\ (u = at => ~live'[u])
  BY <1>0, <1>a, <1>b DEF TerminalTypeOK
<1>. HIDE DEF at, n
<1>d. /\ applied' \in [Terminals -> Seq(1..MaxInput)]
      /\ \A u \in Terminals \ {at} : applied'[u] = applied[u]
      /\ \A i \in 1..Len(applied'[at]) : applied'[at][i] = i
  <2>1. CASE applied' = applied
    BY <1>0, <1>1, <1>a, <2>1 DEF InputsInOrder
  <2>2. CASE applied' = [applied EXCEPT ![at] = Append(applied[at], n)] /\ request[q].step = "file"
    <3>1. /\ Append(applied[at], n) \in Seq(1..MaxInput)
          /\ Len(Append(applied[at], n)) = n /\ n = input[at]
          /\ \A i \in 1..n : Append(applied[at], n)[i] = i
      BY <1>0, <2>2, AppendInOrder DEF at, n
    <3>. QED  BY <1>1, <1>a, <2>2, <3>1
  <2>. QED  BY <1>a, <1>b, <2>1, <2>2
<1>2. TerminalTypeOK'
  BY <1>0, <1>a, <1>b, <1>c, <1>d DEF TerminalTypeOK, Request, RequestSteps
<1>3. LifeInv'
  BY <1>0, <1>b DEF LifeInv
<1>4. BoundInv'
  BY <1>0, <1>b, FewerStay
<1>5. LockInv'
  BY <1>0, <1>a, <1>b DEF LockInv, Writing, Streams, at
<1>6. InputInv' /\ InputsInOrder'
  <2>1. InputsInOrder'
    <3>. SUFFICES ASSUME NEW u \in Terminals, NEW i \in 1..Len(applied'[u]) PROVE applied'[u][i] = i
      BY DEF InputsInOrder
    <3>1. CASE u = at
      BY <1>d, <3>1
    <3>2. CASE u # at
      BY <1>0, <1>d, <3>2 DEF InputsInOrder
    <3>. QED  BY <3>1, <3>2
  <2>2. \A r \in Requests \ {q} : Writing(r) => request[r].terminal # at /\ request[r].terminal \in Terminals
    BY <1>0, <1>1, <1>a DEF LockInv, Writing, Request, at
  <2>3. ASSUME NEW u \in Terminals, live'[u], Unlocked(u)' PROVE Len(applied'[u]) = input'[u]
    <3>1. u # at
      BY <1>a, <1>c, <2>3 DEF Unlocked
    <3>2. Unlocked(u)
      BY <1>a, <2>3, <3>1 DEF Unlocked, at
    <3>. QED  BY <1>0, <1>b, <1>c, <1>d, <2>3, <3>1, <3>2 DEF InputInv
  <2>4. ASSUME NEW r \in Requests
        PROVE  LET u == request'[r].terminal IN
               /\ request'[r].step \in {"write", "file"} => request'[r].sequence = input'[u]
               /\ request'[r].step = "write" /\ live'[u] => Len(applied'[u]) + 1 = input'[u]
               /\ request'[r].step = "file" => Len(applied'[u]) + 1 = input'[u]
               /\ request'[r].step = "wrote" /\ live'[u] => Len(applied'[u]) = input'[u]
    <3>1. CASE r = q
      BY <1>a, <1>b, <1>d, <3>1
    <3>2. CASE r # q /\ Writing(r)
      BY <1>0, <1>a, <1>b, <1>c, <1>d, <2>2, <3>2 DEF InputInv
    <3>3. CASE r # q /\ ~Writing(r)
      BY <1>a, <3>3 DEF Writing
    <3>. QED  BY <3>1, <3>2, <3>3
  <2>. QED  BY <2>1, <2>3, <2>4 DEF InputInv
<1>7. AttachInv'
  BY <1>0, <1>a, <1>b DEF AttachInv, Streams
<1>. QED  BY <1>2, <1>3, <1>4, <1>5, <1>6, <1>7 DEF TerminalIInv

(* The PTY is closed under a write.                                        *)
LEMMA WriteDeadlineKeeps ==
  ASSUME TerminalIInv, NEW q \in Requests, WriteDeadline(q)
  PROVE  TerminalIInv'
<1>0. TerminalTypeOK /\ LifeInv /\ BoundInv /\ LockInv /\ InputInv /\ AttachInv /\ InputsInOrder
  BY DEF TerminalIInv
<1>. USE IdleTyped DEF Set
<1>1. /\ request \in [Requests -> Request]
      /\ input \in [Terminals -> Nat] /\ applied \in [Terminals -> Seq(1..MaxInput)]
      /\ \A u \in Terminals : Len(applied[u]) \in Nat
  BY <1>0, Typed
<1>2. TerminalTypeOK'
  BY <1>0, <1>1 DEF WriteDeadline, record, life, TerminalTypeOK, Request, RequestSteps
<1>3. LifeInv'
  BY <1>0, <1>1 DEF WriteDeadline, record, life, LifeInv, LockInv, Writing, Streams, Request
<1>4. BoundInv'
  BY <1>0, <1>1, FewerStay DEF WriteDeadline, record, life
<1>5. LockInv'
  BY <1>0, <1>1 DEF WriteDeadline, record, life, LockInv, Writing, Streams, Request, Unlocked
<1>6. InputInv' /\ InputsInOrder'
  BY <1>0, <1>1
  DEF WriteDeadline, record, life, InputInv, InputsInOrder, LockInv, Writing, Unlocked, Request,
     TerminalTypeOK
<1>7. AttachInv'
  BY <1>0, <1>1 DEF WriteDeadline, record, life, AttachInv, Streams, Request
<1>. QED  BY <1>2, <1>3, <1>4, <1>5, <1>6, <1>7 DEF TerminalIInv

(* The input is accepted.                                                  *)
LEMMA AcceptedKeeps ==
  ASSUME TerminalIInv, NEW q \in Requests, Accepted(q)
  PROVE  TerminalIInv'
<1>0. TerminalTypeOK /\ LifeInv /\ BoundInv /\ LockInv /\ InputInv /\ AttachInv /\ InputsInOrder
  BY DEF TerminalIInv
<1>. USE IdleTyped DEF Set
<1>1. /\ request \in [Requests -> Request]
      /\ input \in [Terminals -> Nat] /\ applied \in [Terminals -> Seq(1..MaxInput)]
      /\ \A u \in Terminals : Len(applied[u]) \in Nat
  BY <1>0, Typed
<1>a. /\ request' \in [Requests -> Request]
      /\ \A r \in Requests \ {q} : request'[r] = request[r]
      /\ request[q].step = "wrote" /\ request[q].terminal \in Terminals /\ request'[q].step = "idle"
  BY <1>1 DEF Accepted, Done, record, life, Request, RequestSteps
<1>2. TerminalTypeOK'
  BY <1>0, <1>1 DEF Accepted, Done, record, life, TerminalTypeOK, Request, RequestSteps
<1>3. LifeInv'
  BY <1>0, <1>1 DEF Accepted, Done, record, life, LifeInv, LockInv, Writing, Streams, Request
<1>4. BoundInv'
  BY <1>0, <1>1, FewerStay DEF Accepted, Done, record, life
<1>5. LockInv'
  BY <1>0, <1>1 DEF Accepted, Done, record, life, LockInv, Writing, Streams, Request, Unlocked
<1>6. InputInv' /\ InputsInOrder'
  <2>1. ASSUME NEW u \in Terminals, live[u], Unlocked(u)' PROVE Len(applied[u]) = input[u]
    <3>1. CASE u = request[q].terminal
      BY <1>0, <1>a, <2>1, <3>1 DEF InputInv
    <3>2. CASE u # request[q].terminal
      BY <1>0, <1>a, <2>1, <3>2 DEF InputInv, Unlocked
    <3>. QED  BY <3>1, <3>2
  <2>. QED  BY <1>0, <1>a, <2>1 DEF Accepted, record, life, InputInv, InputsInOrder
<1>7. AttachInv'
  BY <1>0, <1>1 DEF Accepted, Done, record, life, AttachInv, Streams, Request
<1>. QED  BY <1>2, <1>3, <1>4, <1>5, <1>6, <1>7 DEF TerminalIInv

-----------------------------------------------------------------------------
(* The first state satisfies the invariant ...                             *)
LEMMA TerminalInitIInv == TerminalInit => TerminalIInv
<1>. SUFFICES ASSUME TerminalInit PROVE TerminalIInv
  OBVIOUS
<1>. USE IdleTyped, LimitAssumption
<1>1. request \in [Requests -> Request] /\ \A q \in Requests : request[q].step = "idle"
  BY DEF TerminalInit
<1>2. applied \in [Terminals -> Seq(1..MaxInput)] /\ \A t \in Terminals : Len(applied[t]) = 0
  BY DEF TerminalInit
<1>3. input \in [Terminals -> 0..MaxInput] /\ \A t \in Terminals : input[t] = 0
  BY DEF TerminalInit
<1>4. TerminalTypeOK
  BY <1>1, <1>2, <1>3 DEF TerminalInit, TerminalTypeOK, Request, RequestSteps
<1>5. LifeInv
  BY DEF TerminalInit, LifeInv
<1>6. BoundInv
  <2>1. store = {} /\ \A a \in Actors : {t \in store : owner[t] = a} = {}
    BY DEF TerminalInit
  <2>. QED  BY <2>1, FS_EmptySet DEF BoundInv
<1>7. LockInv /\ AttachInv
  BY <1>1 DEF LockInv, AttachInv, Writing, Streams
<1>8. InputInv /\ InputsInOrder
  BY <1>1, <1>2, <1>3 DEF InputInv, InputsInOrder
<1>. QED  BY <1>4, <1>5, <1>6, <1>7, <1>8 DEF TerminalIInv

(* ... and every step keeps it.                                            *)
LEMMA TerminalNextIInv == TerminalIInv /\ [TerminalNext]_terminalVars => TerminalIInv'
<1>. SUFFICES ASSUME TerminalIInv, [TerminalNext]_terminalVars PROVE TerminalIInv'
  OBVIOUS
<1>1. CASE UNCHANGED terminalVars
  BY <1>1
  DEF terminalVars, record, life, TerminalIInv, TerminalTypeOK, LifeInv, BoundInv, LockInv,
     InputInv, AttachInv,
       InputsInOrder, Writing, Streams, Unlocked
<1>2. ASSUME NEW t \in Terminals, Opening(t) PROVE TerminalIInv'
  BY <1>2, ReserveKeeps, AdmitKeeps, StartPTYKeeps, SetSessionKeeps, startLifetimeKeeps
     DEF Opening
<1>3. ASSUME NEW t \in Terminals, Timers(t) \/ Deadline(t) \/ Exits(t) PROVE TerminalIInv'
  BY <1>3, TimerReadsKeeps, TimerCancelsKeeps, DeadlineKeeps, ExitsKeeps DEF Timers
<1>4. ASSUME NEW t \in Terminals, Cleanup(t) PROVE TerminalIInv'
  BY <1>4, CleanupClosesKeeps, CleanupRemovesKeeps, CleanupAuditsKeeps, PTYClosesKeeps
     DEF Cleanup
<1>5. ASSUME NEW q \in Requests, Handle(q) PROVE TerminalIInv'
  BY <1>5, DeniedKeeps, StartingKeeps, handleTerminalCloseKeeps, AttachKeeps, ConsumeKeeps,
     CheckedWriteKeeps, FileWriteKeeps, WriteFailsKeeps, AcceptedKeeps DEF Handle
<1>6. ASSUME NEW q \in Requests, Streaming(q) \/ Detach(q) \/ WriteDeadline(q) PROVE TerminalIInv'
  BY <1>6, ReadFailsKeeps, WaitKeeps, DetachKeeps, WriteDeadlineKeeps DEF Streaming
<1>7. ASSUME NEW q \in Requests, NEW t \in Used, Arrive(q, t) PROVE TerminalIInv'
  BY <1>7, ArriveKeeps, LimitAssumption
<1>. QED  BY <1>1, <1>2, <1>3, <1>4, <1>5, <1>6, <1>7 DEF TerminalNext

(* IInv holds in every state of the terminals.                             *)
THEOREM TerminalInvariance == TerminalSpec => []TerminalIInv
BY TerminalInitIInv, TerminalNextIInv, PTL DEF TerminalSpec

(* The state of handlers, records, timers and requests keeps its type.     *)
THEOREM TerminalTypeCorrect == TerminalSpec => []TerminalTypeOK
<1>1. TerminalIInv => TerminalTypeOK
  BY DEF TerminalIInv
<1>. QED  BY <1>1, TerminalInvariance, PTL

(* The PTYs that are not closed belong to records that are still counted.  *)
LEMMA HeldIsCounted == TerminalIInv => PTYsBounded
<1>. SUFFICES ASSUME TerminalIInv PROVE PTYsBounded
  OBVIOUS
<1>. DEFINE held == {t \in Terminals : pty[t] \in {"running", "exited"}}
<1>1. held \subseteq store /\ IsFiniteSet(store) /\ Cardinality(store) <= MaxTotal
  BY DEF TerminalIInv, LifeInv, BoundInv
<1>2. \A S : IsFiniteSet(S) => Cardinality(S) \in Nat
  BY FS_CardinalityType
<1>3. IsFiniteSet(held) /\ Cardinality(held) <= Cardinality(store)
  BY <1>1, FS_Subset
<1>4. ASSUME NEW a \in Actors PROVE Cardinality({t \in held : owner[t] = a}) <= MaxPerActor
  <2>. DEFINE mine == {t \in held : owner[t] = a}
              kept == {t \in store : owner[t] = a}
  <2>1. IsFiniteSet(kept) /\ mine \subseteq kept
    BY <1>1, FS_Subset
  <2>2. IsFiniteSet(mine) /\ Cardinality(mine) <= Cardinality(kept)
    BY <2>1, FS_Subset
  <2>3. Cardinality(kept) <= MaxPerActor
    BY DEF TerminalIInv, BoundInv
  <2>. QED  BY <1>2, <2>1, <2>2, <2>3, LimitAssumption
<1>5. Cardinality(held) <= MaxTotal
  BY <1>1, <1>2, <1>3, LimitAssumption
<1>. QED  BY <1>4, <1>5 DEF PTYsBounded

(* Whatever order requests, timers, failures and the cleanup come in:      *)
(* reserve's limits (terminal_store.go) bound the PTYs that are open, the  *)
(* inputs that reach a process are 1, 2, ... without gap or repetition,    *)
(* and one request at a time is attached to a terminal's output.           *)
THEOREM Safety == TerminalSpec => []TerminalSafety
<1>1. TerminalIInv => InputsInOrder
  BY DEF TerminalIInv
<1>2. TerminalIInv => OneAttachment
  BY DEF TerminalIInv, AttachInv, OneAttachment, Streams
<1>3. TerminalIInv => TerminalSafety
  BY <1>1, <1>2, HeldIsCounted DEF TerminalSafety
<1>. QED  BY <1>3, TerminalInvariance, PTL

=============================================================================
