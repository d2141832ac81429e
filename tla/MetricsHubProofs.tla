-------------------------- MODULE MetricsHubProofs --------------------------
(***************************************************************************)
(* What MetricsHub keeps for any number of connections and samples, any    *)
(* room in the channel and on the wires, and however the map is raced for. *)
(*                                                                         *)
(* The order of the samples is proved along their way: the ones a client   *)
(* was sent are older than the one in the hub, unless that is the last of  *)
(* them, which is older than those in the channel, which are older than    *)
(* the one metricsLoop is about to offer.                                  *)
(***************************************************************************)
EXTENDS MetricsHub, SequenceTheorems, FiniteSetTheorems, TLAPS

-----------------------------------------------------------------------------
(* Sequences                                                               *)

LEMMA AppendBehind ==
  ASSUME NEW S, NEW r \in Seq(S), NEW b \in Seq(S), NEW s \in S
  PROVE  r \o Append(b, s) = Append(r \o b, s)
<1>1. <<s>> \in Seq(S) /\ r \o b \in Seq(S)
  BY ConcatProperties
<1> QED BY <1>1, AppendIsConcat, ConcatAssociative

LEMMA MoveHead ==
  ASSUME NEW S, NEW r \in Seq(S), NEW b \in Seq(S), b # <<>>
  PROVE  /\ Append(r, Head(b)) \o Tail(b) = r \o b
         /\ Head(b) \in S /\ Tail(b) \in Seq(S)
<1>1. Head(b) \in S /\ Tail(b) \in Seq(S) /\ <<Head(b)>> \in Seq(S)
  BY HeadTailProperties
<1>2. <<Head(b)>> \o Tail(b) = b
  <2>1. /\ Len(Tail(b)) = Len(b) - 1 /\ Len(b) \in Nat \ {0}
        /\ \A i \in 1 .. Len(Tail(b)) : Tail(b)[i] = b[i + 1]
    BY HeadTailProperties, EmptySeq
  <2>2. \A i \in 1 .. Len(b) : (<<Head(b)>> \o Tail(b))[i] = b[i]
    BY <1>1, <2>1, ConcatProperties
  <2>3. <<Head(b)>> \o Tail(b) \in Seq(S) /\ Len(<<Head(b)>> \o Tail(b)) = Len(b)
    BY <1>1, <2>1, ConcatProperties
  <2> QED BY <2>2, <2>3, SeqEqual
<1> QED BY <1>1, <1>2, AppendIsConcat, ConcatAssociative

LEMMA MoreElements ==
  ASSUME NEW S, NEW q \in Seq(S), NEW s \in S
  PROVE  Elements(Append(q, s)) = Elements(q) \cup {s}
<1>1. DOMAIN Append(q, s) = 1 .. Len(q) + 1 /\ DOMAIN q = 1 .. Len(q) /\ Len(q) \in Nat
  BY AppendProperties, LenProperties
<1>2. \A i \in 1 .. Len(q) : Append(q, s)[i] = q[i]
  BY AppendProperties
<1>3. Append(q, s)[Len(q) + 1] = s
  BY AppendProperties
<1> QED BY <1>1, <1>2, <1>3 DEF Elements

LEMMA FewerElements ==
  ASSUME NEW S, NEW q \in Seq(S), q # <<>>
  PROVE  Elements(q) = {Head(q)} \cup Elements(Tail(q))
<1>1. /\ DOMAIN q = 1 .. Len(q) /\ Len(q) \in Nat \ {0} /\ Head(q) = q[1]
      /\ DOMAIN Tail(q) = 1 .. Len(q) - 1
      /\ \A i \in 1 .. Len(q) - 1 : Tail(q)[i] = q[i + 1]
  BY HeadTailProperties, LenProperties, EmptySeq
<1>2. ASSUME NEW i \in DOMAIN q PROVE q[i] \in {Head(q)} \cup Elements(Tail(q))
  <2>1. CASE i = 1
    BY <1>1, <2>1
  <2>2. CASE i # 1
    <3>1. i - 1 \in DOMAIN Tail(q) /\ Tail(q)[i - 1] = q[i]
      BY <1>1, <2>2
    <3> QED BY <3>1 DEF Elements
  <2> QED BY <2>1, <2>2
<1>3. ASSUME NEW i \in DOMAIN Tail(q) PROVE Tail(q)[i] \in Elements(q)
  <2>1. i + 1 \in DOMAIN q /\ Tail(q)[i] = q[i + 1]
    BY <1>1
  <2> QED BY <2>1 DEF Elements
<1>4. Head(q) \in Elements(q)
  BY <1>1 DEF Elements
<1> QED BY <1>2, <1>3, <1>4 DEF Elements

LEMMA Emptied == Elements(<<>>) = {}
BY DEF Elements

-----------------------------------------------------------------------------
(* Types                                                                   *)

\* A sample is on its way only once it has been stored, and to somebody.
OnItsWay ==
  /\ loop = "broadcast" => stored \in Samples
  /\ hub.at \in {"range", "write"} => hub.sample \in Samples
  /\ hub.at = "write" => hub.conn \in Conns

TypeInv == TypeOK /\ OnItsWay

LEMMA InitType == Init => TypeInv
BY MetricsHubConstants, EmptySeq DEF Init, Waiting, TypeInv, TypeOK, OnItsWay, Samples

LEMMA LoopType == TypeInv /\ Loop => TypeInv'
<1> SUFFICES ASSUME TypeInv, Loop PROVE TypeInv'
  OBVIOUS
<1> USE DEF TypeInv, Loop, wires
<1>1. CASE CaptureMetrics
  BY <1>1, MetricsHubConstants DEF CaptureMetrics, TypeOK, OnItsWay, Samples
<1>2. CASE Broadcast
  <2>1. CASE Len(queue) < Slots
    <3>1. queue' \in Seq(Samples) /\ Len(queue') <= Slots
      <4>1. stored \in Samples /\ queue \in Seq(Samples) /\ queue' = Append(queue, stored)
        BY <1>2, <2>1 DEF Broadcast, TypeOK, OnItsWay
      <4>2. Append(queue, stored) \in Seq(Samples) /\ Len(Append(queue, stored)) = Len(queue) + 1
            /\ Len(queue) \in Nat
        BY <4>1, AppendProperties, LenProperties
      <4> QED BY <2>1, <4>1, <4>2, MetricsHubConstants
    <3> QED BY <1>2, <2>1, <3>1 DEF Broadcast, TypeOK, OnItsWay
  <2>2. CASE ~(Len(queue) < Slots)
    BY <1>2, <2>2 DEF Broadcast, TypeOK, OnItsWay
  <2> QED BY <2>1, <2>2
<1>3. CASE StopLoop
  BY <1>3 DEF StopLoop, TypeOK, OnItsWay
<1> QED BY <1>1, <1>2, <1>3

LEMMA HandlerType == ASSUME TypeInv, NEW c \in Conns, Handler(c) PROVE TypeInv'
<1> USE DEF TypeInv, Handler, wires, program, TypeOK, OnItsWay
<1>1. CASE Refuse(c)
  BY <1>1 DEF Refuse
<1>2. CASE BeginAdd(c) \/ BeginRemove(c)
  <2>1. Writing \cup {c} \subseteq Conns
    BY DEF Writing
  <2>2. raced' \subseteq Conns
    BY <1>2, <2>1 DEF BeginAdd, BeginRemove, Meeting
  <2> QED BY <1>2, <2>2 DEF BeginAdd, BeginRemove
<1>3. CASE EndAdd(c) \/ EndRemove(c)
  <2>1. clients' \subseteq Conns
    BY <1>3 DEF EndAdd, EndRemove
  <2>2. since' \in [Conns -> 0 .. MaxSamples]
    BY <1>3, MetricsHubConstants DEF EndAdd, EndRemove
  <2> QED BY <1>3, <2>1, <2>2 DEF EndAdd, EndRemove
<1> QED BY <1>1, <1>2, <1>3

LEMMA RunType == TypeInv /\ Run => TypeInv'
<1> SUFFICES ASSUME TypeInv, Run PROVE TypeInv'
  OBVIOUS
<1> USE DEF TypeInv, Run, TypeOK, OnItsWay
<1>1. Writing \subseteq Conns
  BY DEF Writing
<1>2. CASE Take
  <2>1. Head(queue) \in Samples /\ Tail(queue) \in Seq(Samples) /\ Len(Tail(queue)) <= Slots
    BY <1>2, HeadTailProperties, LenProperties, MetricsHubConstants DEF Take
  <2>2. hub'.at = "range" /\ hub'.sample = Head(queue) /\ hub'.conn = Null /\ hub'.due = clients
        /\ hub'.seen = {}
    BY <1>2 DEF Take, Waiting
  <2>3. hub' \in [at : {"select", "range", "write", "done"}, sample : Samples \cup {0},
                  conn : Conns \cup {Null}, due : SUBSET Conns, seen : SUBSET Conns]
    BY <1>2, <2>1 DEF Take, Waiting
  <2> QED BY <1>1, <1>2, <2>1, <2>2, <2>3 DEF Take, Meeting
<1>3. ASSUME NEW c \in Conns, NextClient(c) PROVE TypeInv'
  <2>1. hub' = [hub EXCEPT !.at = "write", !.conn = c, !.seen = @ \cup {c}]
    BY <1>3 DEF NextClient
  <2>2. hub' \in [at : {"select", "range", "write", "done"}, sample : Samples \cup {0},
                  conn : Conns \cup {Null}, due : SUBSET Conns, seen : SUBSET Conns]
        /\ hub'.conn = c /\ hub'.sample = hub.sample
    <3>1. hub.seen \cup {c} \in SUBSET Conns /\ c \in Conns \cup {Null}
      OBVIOUS
    <3>2. hub' = [at |-> "write", sample |-> hub.sample, conn |-> c, due |-> hub.due,
                  seen |-> hub.seen \cup {c}]
      BY <2>1
    <3> QED BY <3>1, <3>2
  <2>3. hub.at = "range"
    BY <1>3 DEF NextClient
  <2> QED BY <1>1, <1>3, <2>2, <2>3 DEF NextClient, Meeting
<1>4. CASE EndRange
  BY <1>1, <1>4 DEF EndRange, Meeting, Waiting
<1>5. CASE WriteJSON
  <2>1. buffered' \in [Conns -> Seq(Samples)] /\ \A c \in Conns : Len(buffered'[c]) <= Wire
    <3>1. CASE Broken(hub.conn) /\ UNCHANGED buffered
      BY <3>1
    <3>2. CASE Len(buffered[hub.conn]) < Wire
               /\ buffered' = [buffered EXCEPT ![hub.conn] = Append(@, hub.sample)]
      <4>1. /\ hub.conn \in Conns /\ hub.sample \in Samples /\ buffered[hub.conn] \in Seq(Samples)
        BY <1>5 DEF WriteJSON
      <4>2. Append(buffered[hub.conn], hub.sample) \in Seq(Samples)
            /\ Len(Append(buffered[hub.conn], hub.sample)) <= Wire
        BY <3>2, <4>1, AppendProperties, LenProperties, MetricsHubConstants
      <4> QED BY <3>2, <4>1, <4>2
    <3> QED BY <1>5, <3>1, <3>2 DEF WriteJSON
  <2>2. hub' = [hub EXCEPT !.at = "range", !.conn = Null] /\ hub.at = "write"
    BY <1>5 DEF WriteJSON
  <2> QED BY <1>5, <2>1, <2>2 DEF WriteJSON
<1>6. CASE StopHub
  BY <1>6 DEF StopHub, Waiting
<1> QED BY <1>2, <1>3, <1>4, <1>5, <1>6

LEMMA PeerType == ASSUME TypeInv, NEW c \in Conns, Peer(c) PROVE TypeInv'
<1> USE DEF TypeInv, Peer, program, TypeOK, OnItsWay
<1>1. CASE Receive(c)
  <2>1. /\ buffered[c] \in Seq(Samples) /\ received[c] \in Seq(Samples) /\ buffered[c] # <<>>
        /\ Len(buffered[c]) <= Wire
    BY <1>1 DEF Receive
  <2>2. /\ Append(received[c], Head(buffered[c])) \in Seq(Samples)
        /\ Tail(buffered[c]) \in Seq(Samples) /\ Len(Tail(buffered[c])) <= Wire
    BY <2>1, HeadTailProperties, AppendProperties, LenProperties, MetricsHubConstants
  <2>3. /\ received' = [received EXCEPT ![c] = Append(received[c], Head(buffered[c]))]
        /\ buffered' = [buffered EXCEPT ![c] = Tail(buffered[c])]
        /\ UNCHANGED <<alive, gone, stored, loop, queue, dropped, clients, hub, conn, since, raced>>
    BY <1>1 DEF Receive
  <2>4. received' \in [Conns -> Seq(Samples)] /\ buffered' \in [Conns -> Seq(Samples)]
        /\ \A d \in Conns : Len(buffered'[d]) <= Wire
    BY <2>2, <2>3
  <2> QED BY <2>3, <2>4
<1>2. CASE HangUp(c)
  BY <1>2 DEF HangUp
<1> QED BY <1>1, <1>2

LEMMA NextType == TypeInv /\ [Next]_vars => TypeInv'
<1> SUFFICES ASSUME TypeInv, [Next]_vars PROVE TypeInv'
  OBVIOUS
<1>1. CASE UNCHANGED vars
  BY <1>1 DEF vars, TypeInv, TypeOK, OnItsWay
<1>2. CASE Die /\ UNCHANGED <<program, clients, hub, conn, wires, since, raced>>
  BY <1>2 DEF Die, program, wires, TypeInv, TypeOK, OnItsWay
<1> QED BY <1>1, <1>2, LoopType, RunType, HandlerType, PeerType DEF Next

LEMMA TypeInvariance == Spec => []TypeInv
BY InitType, NextType, PTL DEF Spec

\* Every variable keeps its type: the channel and the wires hold no more than
\* they have room for.
THEOREM HubType == Spec => []TypeOK
<1>1. TypeInv => TypeOK
  BY DEF TypeInv
<1> QED BY <1>1, TypeInvariance, PTL

-----------------------------------------------------------------------------
(* The order of the samples                                                *)

\* The hub's sample is older than those in the channel, which are in order, and
\* they than the one that metricsLoop has in hand.
QueueInOrder ==
  /\ \A i, j \in 1 .. Len(queue) : i < j => queue[i] < queue[j]
  /\ \A q \in Elements(queue) : hub.sample < q /\ q <= stored /\ (loop = "broadcast" => q < stored)
  /\ hub.sample <= stored /\ (loop = "broadcast" => hub.sample < stored)

\* A sample x that c was sent is no newer than the hub's, nor that one before
\* the hub has served c.
Behind(c, x) ==
  /\ x <= stored /\ (loop = "broadcast" => x < stored)
  /\ \A q \in Elements(queue) : x < q
  /\ hub.at \in {"range", "write"} =>
       x <= hub.sample /\ (c \notin hub.seen \ {hub.conn} => x < hub.sample)

SentInOrder == \A c \in Conns : \A x \in Elements(Sent(c)) : Behind(c, x)

\* The hub has a client only while it writes, and counts it as served.
HubShape ==
  /\ hub.at = "write" => hub.conn \in hub.seen
  /\ hub.at # "write" => hub.conn = Null

\* A client that was there before the hub's sample was taken from the channel,
\* and could be told of it, is one that the hub has to serve.
Told(c) == c \in clients \ (raced \cup gone) /\ conn[c] = "open"

DueIsKnown ==
  hub.at \in {"range", "write"} =>
    \A c \in Conns : Told(c) => since[c] >= hub.sample \/ c \in hub.due

\* What has become of sample s, or will, as far as c is concerned.
Accounted(c, s) ==
  \/ s \in dropped \cup Elements(Sent(c)) \cup Elements(queue)
  \/ loop = "broadcast" /\ s = stored
  \/ hub.at \in {"range", "write"} /\ s = hub.sample /\ c \notin (hub.seen \ {hub.conn})

NoGap == \A c \in Conns : Told(c) => \A s \in since[c] + 1 .. stored : Accounted(c, s)

IInv == TypeInv /\ QueueInOrder /\ SentInOrder /\ HubShape /\ DueIsKnown /\ NoGap

LEMMA Numbers ==
  ASSUME TypeInv
  PROVE  /\ stored \in Nat /\ hub.sample \in Nat /\ Samples \subseteq Nat \ {0}
         /\ \A q \in Elements(queue) : q \in Samples
         /\ \A c \in Conns : /\ since[c] \in Nat /\ Sent(c) \in Seq(Samples)
                             /\ \A x \in Elements(Sent(c)) : x \in Samples
<1>1. stored \in Nat /\ hub.sample \in Nat /\ Samples \subseteq Nat \ {0}
  BY MetricsHubConstants DEF TypeInv, TypeOK, Samples
<1>2. \A s \in Seq(Samples) : \A q \in Elements(s) : q \in Samples
  BY LenProperties, ElementOfSeq DEF Elements
<1>3. \A c \in Conns : since[c] \in Nat /\ Sent(c) \in Seq(Samples)
  BY MetricsHubConstants, ConcatProperties DEF TypeInv, TypeOK, Sent
<1> QED BY <1>1, <1>2, <1>3 DEF TypeInv, TypeOK

LEMMA InvInit == Init => IInv
<1> SUFFICES ASSUME Init PROVE IInv
  OBVIOUS
<1>1. TypeInv
  BY InitType
<1>2. Elements(queue) = {} /\ \A c \in Conns : Elements(Sent(c)) = {}
  BY Emptied, ConcatEmptySeq, EmptySeq DEF Init, Sent
<1> QED BY <1>1, <1>2
        DEF Init, Waiting, IInv, QueueInOrder, SentInOrder, HubShape, DueIsKnown, NoGap, Told

-----------------------------------------------------------------------------
(* metricsLoop                                                             *)

LEMMA InvLoop == IInv /\ Loop => IInv'
<1> SUFFICES ASSUME IInv, Loop PROVE IInv'
  OBVIOUS
<1>0. TypeInv' /\ TypeInv
  BY LoopType DEF IInv
<1>1. UNCHANGED <<clients, hub, conn, gone, since, raced>> /\ \A c \in Conns : Sent(c)' = Sent(c)
  BY DEF Loop, wires, Sent
<1>2. HubShape' /\ DueIsKnown'
  BY <1>1 DEF IInv, HubShape, DueIsKnown, Told
<1>3. CASE CaptureMetrics
  <2>1. stored' = stored + 1 /\ loop' = "broadcast" /\ UNCHANGED <<queue, dropped>>
    BY <1>3 DEF CaptureMetrics
  <2>2. QueueInOrder' /\ SentInOrder'
    BY <1>0, <1>1, <2>1, Numbers DEF IInv, QueueInOrder, SentInOrder, Behind
  <2>3. ASSUME NEW c \in Conns, Told(c)', NEW s \in since'[c] + 1 .. stored' PROVE Accounted(c, s)'
    <3>1. Told(c) /\ since'[c] = since[c] /\ loop # "broadcast"
      BY <1>1, <1>3, <2>3 DEF Told, CaptureMetrics
    <3>2. CASE s = stored + 1
      BY <2>1, <3>2 DEF Accounted
    <3>3. CASE s # stored + 1
      <4>1. s \in since[c] + 1 .. stored
        BY <1>0, <2>1, <2>3, <3>1, <3>3, Numbers
      <4>2. Accounted(c, s)
        BY <3>1, <4>1 DEF IInv, NoGap
      <4> QED BY <1>1, <2>1, <3>1, <4>2 DEF Accounted
    <3> QED BY <3>2, <3>3
  <2> QED BY <1>0, <1>2, <2>2, <2>3 DEF IInv, NoGap
<1>4. CASE Broadcast
  <2>1. loop = "broadcast" /\ loop' = "tick" /\ stored' = stored /\ stored \in Samples
    BY <1>0, <1>4 DEF Broadcast, TypeInv, OnItsWay
  <2>2. CASE queue' = Append(queue, stored) /\ UNCHANGED dropped
    <3>1. Elements(queue') = Elements(queue) \cup {stored}
      BY <1>0, <2>1, <2>2, MoreElements DEF TypeInv, TypeOK
    <3>2. /\ Len(queue') = Len(queue) + 1 /\ queue'[Len(queue) + 1] = stored /\ Len(queue) \in Nat
          /\ \A i \in 1 .. Len(queue) : queue'[i] = queue[i] /\ queue[i] \in Elements(queue)
      BY <1>0, <2>1, <2>2, AppendProperties, LenProperties DEF TypeInv, TypeOK, Elements
    <3>3. \A i, j \in 1 .. Len(queue') : i < j => queue'[i] < queue'[j]
      BY <2>1, <3>2 DEF IInv, QueueInOrder
    <3>4. QueueInOrder' /\ SentInOrder'
      BY <1>0, <1>1, <2>1, <3>1, <3>3, Numbers DEF IInv, QueueInOrder, SentInOrder, Behind
    <3>5. NoGap'
      <4>1. \A c \in Conns, s \in Nat : Accounted(c, s) => Accounted(c, s)'
        BY <1>1, <2>1, <2>2, <3>1 DEF Accounted
      <4> QED BY <1>0, <1>1, <2>1, <4>1, Numbers DEF IInv, NoGap, Told
    <3> QED BY <1>0, <1>2, <3>4, <3>5 DEF IInv
  <2>3. CASE dropped' = dropped \cup {stored} /\ UNCHANGED queue
    <3>1. QueueInOrder' /\ SentInOrder'
      BY <1>1, <2>1, <2>3 DEF IInv, QueueInOrder, SentInOrder, Behind
    <3>2. NoGap'
      <4>1. \A c \in Conns, s \in Nat : Accounted(c, s) => Accounted(c, s)'
        BY <1>1, <2>1, <2>3 DEF Accounted
      <4> QED BY <1>0, <1>1, <2>1, <4>1, Numbers DEF IInv, NoGap, Told
    <3> QED BY <1>0, <1>2, <3>1, <3>2 DEF IInv
  <2> QED BY <1>4, <2>2, <2>3 DEF Broadcast
<1>5. CASE StopLoop
  <2>1. loop = "tick" /\ loop' = "done" /\ UNCHANGED <<stored, queue, dropped>>
    BY <1>5 DEF StopLoop
  <2>2. QueueInOrder' /\ SentInOrder'
    BY <1>1, <2>1 DEF IInv, QueueInOrder, SentInOrder, Behind
  <2>3. NoGap'
    BY <1>1, <2>1 DEF IInv, NoGap, Told, Accounted
  <2> QED BY <1>0, <1>2, <2>2, <2>3 DEF IInv
<1> QED BY <1>3, <1>4, <1>5 DEF Loop

-----------------------------------------------------------------------------
(* The handlers and the peers                                              *)

LEMMA InvHandler == ASSUME IInv, NEW d \in Conns, Handler(d) PROVE IInv'
<1>0. TypeInv' /\ TypeInv
  BY HandlerType DEF IInv
<1>1. /\ UNCHANGED <<stored, loop, queue, dropped, hub, gone>> /\ raced \subseteq raced'
      /\ \A c \in Conns : Sent(c)' = Sent(c)
  BY DEF Handler, program, wires, Sent, Refuse, BeginAdd, BeginRemove, EndAdd, EndRemove, Meeting
<1>2. QueueInOrder' /\ SentInOrder' /\ HubShape'
  BY <1>1 DEF IInv, QueueInOrder, SentInOrder, Behind, HubShape
\* A client that is new, or is still one.
<1>3. ASSUME NEW c \in Conns, Told(c)'
      PROVE  since'[c] = stored \/ (Told(c) /\ since'[c] = since[c])
  <2>1. CASE EndAdd(d)
    <3>1. /\ clients' \subseteq clients \cup {d} /\ raced' = raced
          /\ conn' = [conn EXCEPT ![d] = "open"] /\ since' = [since EXCEPT ![d] = stored]
      BY <2>1 DEF EndAdd
    <3>2. CASE c = d
      <4>1. since \in [Conns -> 0 .. MaxSamples]
        BY <1>0 DEF TypeInv, TypeOK
      <4>2. since'[d] = stored
        BY <3>1, <4>1
      <4> QED BY <3>2, <4>2
    <3>3. CASE c # d
      BY <1>0, <1>1, <1>3, <3>1, <3>3 DEF Told, TypeInv, TypeOK
    <3> QED BY <3>2, <3>3
  <2>2. CASE EndRemove(d)
    BY <1>0, <1>1, <1>3, <2>2 DEF EndRemove, Told, TypeInv, TypeOK
  <2>3. CASE Refuse(d) \/ BeginAdd(d) \/ BeginRemove(d)
    BY <1>0, <1>1, <1>3, <2>3 DEF Refuse, BeginAdd, BeginRemove, Told, TypeInv, TypeOK
  <2> QED BY <2>1, <2>2, <2>3 DEF Handler
<1>4. DueIsKnown'
  BY <1>1, <1>3 DEF IInv, DueIsKnown, QueueInOrder
<1>5. ASSUME NEW c \in Conns, Told(c)', NEW s \in since'[c] + 1 .. stored' PROVE Accounted(c, s)'
  <2>1. since'[c] # stored
    BY <1>0, <1>1, <1>5, Numbers
  <2>2. Accounted(c, s)
    BY <1>1, <1>3, <1>5, <2>1 DEF IInv, NoGap
  <2> QED BY <1>1, <2>2 DEF Accounted
<1> QED BY <1>0, <1>2, <1>4, <1>5 DEF IInv, NoGap

\* What is read from a wire has been sent before, and still counts as sent.
LEMMA PeerSends ==
  ASSUME TypeInv, NEW d \in Conns, Peer(d)
  PROVE  \A c \in Conns : Sent(c)' = Sent(c)
<1>1. CASE Receive(d)
  <2>1. /\ received[d] \in Seq(Samples) /\ buffered[d] \in Seq(Samples) /\ buffered[d] # <<>>
        /\ received'[d] = Append(received[d], Head(buffered[d])) /\ buffered'[d] = Tail(buffered[d])
        /\ \A c \in Conns : c # d => received'[c] = received[c] /\ buffered'[c] = buffered[c]
    BY <1>1 DEF Receive, TypeInv, TypeOK
  <2>2. received'[d] \o buffered'[d] = received[d] \o buffered[d]
    BY <2>1, MoveHead
  <2> QED BY <2>1, <2>2 DEF Sent
<1>2. CASE HangUp(d)
  BY <1>2 DEF HangUp, Sent
<1> QED BY <1>1, <1>2 DEF Peer

LEMMA InvPeer == ASSUME IInv, NEW d \in Conns, Peer(d) PROVE IInv'
<1>0. TypeInv' /\ TypeInv
  BY PeerType DEF IInv
<1>1. UNCHANGED <<stored, loop, queue, dropped, clients, hub, conn, since, raced>> /\ gone \subseteq gone'
  BY DEF Peer, program, Receive, HangUp
<1>2. \A c \in Conns : Sent(c)' = Sent(c)
  BY <1>0, PeerSends
<1>3. QueueInOrder' /\ SentInOrder' /\ HubShape'
  BY <1>1, <1>2 DEF IInv, QueueInOrder, SentInOrder, Behind, HubShape
<1>4. DueIsKnown'
  BY <1>1 DEF IInv, DueIsKnown, Told
<1>5. NoGap'
  BY <1>1, <1>2 DEF IInv, NoGap, Told, Accounted
<1> QED BY <1>0, <1>3, <1>4, <1>5 DEF IInv

-----------------------------------------------------------------------------
(* Run                                                                     *)

LEMMA InvTake == ASSUME IInv, Run, Take PROVE IInv'
<1>0. TypeInv' /\ TypeInv /\ queue \in Seq(Samples) /\ queue # <<>>
  BY RunType DEF IInv, TypeInv, TypeOK, Take
<1>1. /\ UNCHANGED <<stored, loop, dropped, clients, conn, gone, since>> /\ raced \subseteq raced'
      /\ \A c \in Conns : Sent(c)' = Sent(c)
  BY DEF Run, Take, Sent, Meeting
<1>2. /\ hub.at = "select" /\ hub'.at = "range" /\ hub'.sample = Head(queue) /\ hub'.conn = Null
      /\ hub'.due = clients /\ hub'.seen = {} /\ queue' = Tail(queue)
  BY DEF Take, Waiting
<1>3. /\ Elements(queue) = {Head(queue)} \cup Elements(queue')
      /\ Len(queue') = Len(queue) - 1 /\ Len(queue) \in Nat \ {0} /\ Head(queue) = queue[1]
      /\ \A i \in 1 .. Len(queue') : queue'[i] = queue[i + 1]
      /\ DOMAIN queue' = 1 .. Len(queue')
  BY <1>0, <1>2, FewerElements, HeadTailProperties, LenProperties, EmptySeq
<1>4. QueueInOrder'
  <2>1. \A i, j \in 1 .. Len(queue') : i < j => queue'[i] < queue'[j]
    <3> SUFFICES ASSUME NEW i \in 1 .. Len(queue'), NEW j \in 1 .. Len(queue'), i < j
                 PROVE  queue[i + 1] < queue[j + 1]
      BY <1>3
    <3>1. i + 1 \in 1 .. Len(queue) /\ j + 1 \in 1 .. Len(queue) /\ i + 1 < j + 1
      BY <1>3
    <3> QED BY <3>1 DEF IInv, QueueInOrder
  <2>2. \A q \in Elements(queue') : Head(queue) < q
    <3> SUFFICES ASSUME NEW i \in 1 .. Len(queue') PROVE queue[1] < queue[i + 1]
      BY <1>3 DEF Elements
    <3>1. 1 \in 1 .. Len(queue) /\ i + 1 \in 1 .. Len(queue) /\ 1 < i + 1
      BY <1>3
    <3> QED BY <3>1 DEF IInv, QueueInOrder
  <2>3. \A q \in Elements(queue) : q <= stored /\ (loop = "broadcast" => q < stored)
    BY DEF IInv, QueueInOrder
  <2> QED BY <1>1, <1>2, <1>3, <2>1, <2>2, <2>3 DEF QueueInOrder
<1>5. SentInOrder'
  <2>1. ASSUME NEW c \in Conns, NEW x \in Elements(Sent(c)) PROVE Behind(c, x)'
    <3>1. Behind(c, x)
      BY DEF IInv, SentInOrder
    <3>2. x < Head(queue) /\ x \in Nat /\ Head(queue) \in Nat
      BY <1>0, <1>3, <3>1, Numbers DEF Behind
    <3> QED BY <1>1, <1>2, <1>3, <3>1, <3>2 DEF Behind
  <2> QED BY <1>1, <2>1 DEF SentInOrder
<1>6. HubShape'
  BY <1>2 DEF HubShape
<1>7. DueIsKnown'
  BY <1>1, <1>2 DEF DueIsKnown, Told
<1>8. NoGap'
  <2>1. \A c \in Conns, s \in Nat : Accounted(c, s) => Accounted(c, s)'
    BY <1>1, <1>2, <1>3 DEF Accounted
  <2>2. \A c \in Conns : Told(c)' => Told(c)
    BY <1>1 DEF Told
  <2> QED BY <1>0, <1>1, <2>1, <2>2, Numbers DEF IInv, NoGap
<1> QED BY <1>0, <1>4, <1>5, <1>6, <1>7, <1>8 DEF IInv

LEMMA InvNextClient == ASSUME IInv, Run, NEW d \in Conns, NextClient(d) PROVE IInv'
<1>0. TypeInv' /\ TypeInv /\ hub \in [at : {"select", "range", "write", "done"},
        sample : Samples \cup {0}, conn : Conns \cup {Null}, due : SUBSET Conns, seen : SUBSET Conns]
  BY RunType DEF IInv, TypeInv, TypeOK
<1>1. /\ UNCHANGED <<stored, loop, queue, dropped, clients, conn, gone, since>>
      /\ raced \subseteq raced' /\ \A c \in Conns : Sent(c)' = Sent(c)
  BY DEF Run, NextClient, Sent, Meeting
<1>2. /\ hub.at = "range" /\ hub'.at = "write" /\ hub'.sample = hub.sample /\ hub'.conn = d
      /\ hub'.due = hub.due /\ hub'.seen = hub.seen \cup {d} /\ d \notin hub.seen /\ hub.conn = Null
  BY <1>0 DEF NextClient, IInv, HubShape
<1>3. hub'.seen \ {hub'.conn} = hub.seen /\ hub.seen \ {hub.conn} = hub.seen
  BY <1>0, <1>2, MetricsHubConstants
<1>4. QueueInOrder' /\ HubShape' /\ DueIsKnown'
  BY <1>1, <1>2 DEF IInv, QueueInOrder, HubShape, DueIsKnown, Told
<1>5. SentInOrder'
  BY <1>1, <1>2, <1>3 DEF IInv, SentInOrder, Behind
<1>6. NoGap'
  BY <1>1, <1>2, <1>3 DEF IInv, NoGap, Told, Accounted
<1> QED BY <1>0, <1>4, <1>5, <1>6 DEF IInv

\* Who the range leaves out was added after its sample was stored.
LEMMA InvEndRange == ASSUME IInv, Run, EndRange PROVE IInv'
<1>0. TypeInv' /\ TypeInv
  BY RunType DEF IInv
<1>1. /\ UNCHANGED <<stored, loop, queue, dropped, clients, conn, gone, since>>
      /\ raced \subseteq raced' /\ \A c \in Conns : Sent(c)' = Sent(c)
  BY DEF Run, EndRange, Sent, Meeting
<1>2. /\ hub.at = "range" /\ hub' = Waiting /\ hub.due \cap clients \subseteq hub.seen
      /\ hub.conn = Null
  BY DEF EndRange, IInv, HubShape
<1>3. hub'.at = "select" /\ hub'.sample = 0 /\ hub'.conn = Null
  BY <1>2 DEF Waiting
<1>4. QueueInOrder' /\ SentInOrder' /\ HubShape' /\ DueIsKnown'
  BY <1>0, <1>1, <1>3, Numbers
     DEF IInv, QueueInOrder, SentInOrder, Behind, HubShape, DueIsKnown
<1>5. ASSUME NEW c \in Conns, Told(c)', NEW s \in since'[c] + 1 .. stored' PROVE Accounted(c, s)'
  <2>1. Told(c) /\ s \in since[c] + 1 .. stored
    BY <1>1, <1>5 DEF Told
  <2>2. Accounted(c, s)
    BY <2>1 DEF IInv, NoGap
  <2>3. s # hub.sample \/ c \in hub.seen \ {hub.conn}
    <3>1. CASE c \in hub.due
      BY <1>0, <1>2, <2>1, <3>1, MetricsHubConstants DEF Told
    <3>2. CASE since[c] >= hub.sample
      BY <1>0, <2>1, <3>2, Numbers
    <3> QED BY <1>2, <2>1, <3>1, <3>2 DEF IInv, DueIsKnown
  <2> QED BY <1>1, <2>2, <2>3 DEF Accounted
<1> QED BY <1>0, <1>4, <1>5 DEF IInv, NoGap

\* The client the hub writes to is sent its sample, or is broken, and no other
\* client is sent anything.
LEMMA WriteSends ==
  ASSUME TypeInv, Run, WriteJSON, NEW d \in Conns, d = hub.conn
  PROVE  /\ \A c \in Conns : c # d => Sent(c)' = Sent(c)
         /\ Sent(d) \in Seq(Samples) /\ hub.sample \in Samples
         /\ \/ Broken(d) /\ Sent(d)' = Sent(d)
            \/ Sent(d)' = Append(Sent(d), hub.sample)
<1>1. /\ received' = received /\ hub.sample \in Samples
      /\ buffered \in [Conns -> Seq(Samples)] /\ received \in [Conns -> Seq(Samples)]
  BY DEF Run, TypeInv, TypeOK, OnItsWay, WriteJSON
<1>2. Sent(d) \in Seq(Samples)
  BY <1>1, ConcatProperties DEF Sent
<1>3. CASE Broken(d) /\ UNCHANGED buffered
  BY <1>1, <1>2, <1>3 DEF Sent
<1>4. CASE buffered' = [buffered EXCEPT ![d] = Append(@, hub.sample)]
  <2>1. /\ buffered'[d] = Append(buffered[d], hub.sample)
        /\ \A c \in Conns : c # d => buffered'[c] = buffered[c]
    BY <1>1, <1>4
  <2>2. Sent(d)' = received[d] \o Append(buffered[d], hub.sample)
    BY <1>1, <2>1 DEF Sent
  <2>3. Sent(d)' = Append(Sent(d), hub.sample)
    BY <1>1, <2>2, AppendBehind DEF Sent
  <2> QED BY <1>1, <1>2, <2>1, <2>3 DEF Sent
<1> QED BY <1>3, <1>4 DEF WriteJSON

LEMMA InvWriteJSON == ASSUME IInv, Run, WriteJSON PROVE IInv'
<1>0. TypeInv' /\ TypeInv /\ hub.conn \in Conns /\ hub.sample \in Samples
  BY RunType DEF IInv, TypeInv, TypeOK, OnItsWay, WriteJSON
<1> PICK d \in Conns : d = hub.conn
  BY <1>0
<1>1. UNCHANGED <<stored, loop, queue, dropped, clients, conn, gone, since, raced>>
  BY DEF Run, WriteJSON
<1>2. /\ hub.at = "write" /\ hub'.at = "range" /\ hub'.sample = hub.sample /\ hub'.conn = Null
      /\ hub'.due = hub.due /\ hub'.seen = hub.seen /\ d \in hub.seen
  BY <1>0 DEF WriteJSON, IInv, HubShape, TypeInv, TypeOK
<1>3. /\ \A c \in Conns : c # d => Sent(c)' = Sent(c)
      /\ \/ Broken(d) /\ Sent(d)' = Sent(d)
         \/ Elements(Sent(d)') = Elements(Sent(d)) \cup {hub.sample}
  <2>1. Sent(d) \in Seq(Samples) /\ hub.sample \in Samples
    BY <1>0, WriteSends
  <2>2. Elements(Append(Sent(d), hub.sample)) = Elements(Sent(d)) \cup {hub.sample}
    BY <2>1, MoreElements
  <2> QED BY <1>0, <2>2, WriteSends
<1>4. QueueInOrder' /\ HubShape' /\ DueIsKnown'
  BY <1>1, <1>2 DEF IInv, QueueInOrder, HubShape, DueIsKnown, Told
<1>5. ASSUME NEW c \in Conns, NEW x \in Elements(Sent(c)') PROVE Behind(c, x)'
  <2>1. CASE x \in Elements(Sent(c))
    <3>1. Behind(c, x) /\ x \in Nat /\ hub.sample \in Nat
      BY <1>0, <2>1, Numbers DEF IInv, SentInOrder
    <3>2. c \notin hub.seen \ {Null} => c \notin hub.seen \ {d}
      BY <1>0, MetricsHubConstants
    <3> QED BY <1>1, <1>2, <3>1, <3>2 DEF Behind
  <2>2. CASE x = hub.sample /\ c = d
    BY <1>0, <1>1, <1>2, <2>2, MetricsHubConstants, Numbers DEF Behind, IInv, QueueInOrder
  <2> QED BY <1>3, <2>1, <2>2
<1>6. ASSUME NEW c \in Conns, Told(c)', NEW s \in since'[c] + 1 .. stored' PROVE Accounted(c, s)'
  <2>1. Told(c) /\ Accounted(c, s)
    BY <1>1, <1>6 DEF Told, IInv, NoGap
  <2>2. CASE c = d
    <3>1. Elements(Sent(d)') = Elements(Sent(d)) \cup {hub.sample}
      BY <1>3, <2>1, <2>2 DEF Told, Broken
    <3> QED BY <1>1, <1>2, <2>1, <2>2, <3>1 DEF Accounted
  <2>3. CASE c # d
    <3>1. Sent(c)' = Sent(c) /\ (c \notin hub.seen \ {d} => c \notin hub.seen \ {Null})
      BY <1>3, <2>3
    <3> QED BY <1>1, <1>2, <2>1, <3>1 DEF Accounted
  <2> QED BY <2>2, <2>3
<1> QED BY <1>0, <1>4, <1>5, <1>6 DEF IInv, SentInOrder, NoGap

LEMMA InvStopHub == ASSUME IInv, Run, StopHub PROVE IInv'
<1>0. TypeInv' /\ TypeInv
  BY RunType DEF IInv
<1>1. /\ UNCHANGED <<stored, loop, queue, dropped, clients, conn, gone, since, raced>>
      /\ \A c \in Conns : Sent(c)' = Sent(c)
  BY DEF Run, StopHub, Sent
<1>2. hub.at = "select" /\ hub'.at = "done" /\ hub'.sample = 0 /\ hub'.conn = Null
  BY DEF StopHub, Waiting
<1>3. QueueInOrder' /\ SentInOrder' /\ HubShape' /\ DueIsKnown'
  BY <1>0, <1>1, <1>2, Numbers
     DEF IInv, QueueInOrder, SentInOrder, Behind, HubShape, DueIsKnown
<1>4. NoGap'
  BY <1>1, <1>2 DEF IInv, NoGap, Told, Accounted
<1> QED BY <1>0, <1>3, <1>4 DEF IInv

LEMMA InvNext == IInv /\ [Next]_vars => IInv'
<1> SUFFICES ASSUME IInv, [Next]_vars PROVE IInv'
  OBVIOUS
<1>1. CASE UNCHANGED vars \/ (Die /\ UNCHANGED <<program, clients, hub, conn, wires, since, raced>>)
  <2>1. /\ UNCHANGED <<stored, loop, queue, dropped, clients, hub, conn, gone, since, raced>>
        /\ \A c \in Conns : Sent(c)' = Sent(c)
    BY <1>1 DEF vars, program, wires, Sent
  <2>2. TypeInv'
    BY NextType DEF IInv
  <2>3. QueueInOrder' /\ SentInOrder' /\ HubShape' /\ DueIsKnown'
    BY <2>1 DEF IInv, QueueInOrder, SentInOrder, Behind, HubShape, DueIsKnown, Told
  <2>4. NoGap'
    BY <2>1 DEF IInv, NoGap, Told, Accounted
  <2> QED BY <2>2, <2>3, <2>4 DEF IInv
<1>2. CASE Run
  BY <1>2, InvTake, InvNextClient, InvEndRange, InvWriteJSON, InvStopHub DEF Run
<1> QED BY <1>1, <1>2, InvLoop, InvHandler, InvPeer DEF Next

LEMMA Invariance == Spec => []IInv
BY InvInit, InvNext, PTL DEF Spec

-----------------------------------------------------------------------------
(* Theorems                                                                *)

\* A client the map was not raced for is sent all that is taken while it is
\* connected, but for what the channel had no room for.
THEOREM NoGapIsSilent == Spec => []NoSilentGap
<1>1. IInv => NoSilentGap
  BY DEF IInv, NoGap, Told, Accounted, NoSilentGap, TypeInv, TypeOK
<1> QED BY <1>1, Invariance, PTL

\* The hub implements LossyBroadcast: samples of the history, in order and none
\* twice, whatever is dropped or raced for.
THEOREM HubIsLossyBroadcast == Spec => IsLossyBroadcast
<1> DEFINE S == [c \in Conns |-> Sent(c)]
<1>1. Init => Promise!Init
  BY ConcatEmptySeq, EmptySeq DEF Init, Promise!Init, Sent
<1>2. ASSUME IInv, [Next]_vars PROVE [Promise!Next]_<<stored, S>>
  <2>0. TypeInv /\ TypeInv'
    BY <1>2, NextType DEF IInv
  <2>1. ASSUME stored' = stored, \A c \in Conns : Sent(c)' = Sent(c)
        PROVE  [Promise!Next]_<<stored, S>>
    BY <2>1
  <2>2. CASE stored' = stored + 1 /\ \A c \in Conns : Sent(c)' = Sent(c)
    <3>1. S' = S
      BY <2>2
    <3> QED BY <2>2, <3>1 DEF Promise!Next, Promise!Store
  <2>3. ASSUME WriteJSON, Run PROVE [Promise!Next]_<<stored, S>>
    <3>1. /\ hub.conn \in Conns /\ stored' = stored /\ hub.at = "write"
      BY <2>0, <2>3 DEF TypeInv, TypeOK, OnItsWay, WriteJSON, Run
    <3>2. hub.sample \in 1 .. stored
      <4>1. hub.sample \in Samples /\ hub.sample <= stored
        BY <1>2, <2>0, <3>1 DEF IInv, QueueInOrder, TypeInv, OnItsWay
      <4> QED BY <2>0, <4>1, Numbers, MetricsHubConstants DEF Samples, TypeInv, TypeOK
    <3> PICK d \in Conns : d = hub.conn
      BY <3>1
    <3>3. /\ \A c \in Conns : c # d => Sent(c)' = Sent(c)
          /\ Sent(d) \in Seq(Samples) /\ hub.sample \in Samples
          /\ Sent(d)' = Sent(d) \/ Sent(d)' = Append(Sent(d), hub.sample)
      BY <2>0, <2>3, WriteSends
    <3>4. CASE Sent(d)' = Sent(d)
      BY <2>1, <3>1, <3>3, <3>4
    <3>5. CASE Sent(d)' = Append(Sent(d), hub.sample)
      <4>1. S' = [S EXCEPT ![d] = Append(S[d], hub.sample)]
        BY <3>3, <3>5
      <4>2. Promise!Last(d) < hub.sample
        <5>1. CASE Sent(d) = <<>>
          BY <3>2, <5>1 DEF Promise!Last
        <5>2. CASE Sent(d) # <<>>
          <6>1. Sent(d)[Len(Sent(d))] \in Elements(Sent(d))
            BY <3>3, <5>2, LenProperties, EmptySeq DEF Elements
          <6>2. Sent(d)[Len(Sent(d))] < hub.sample
            <7>1. Behind(d, Sent(d)[Len(Sent(d))])
              BY <1>2, <6>1 DEF IInv, SentInOrder
            <7> QED BY <3>1, <7>1, MetricsHubConstants DEF Behind
          <6> QED BY <5>2, <6>2 DEF Promise!Last
        <5> QED BY <5>1, <5>2
      <4>3. Promise!Send(d, hub.sample)
        BY <3>1, <4>1, <4>2 DEF Promise!Send
      <4> QED BY <3>2, <4>3 DEF Promise!Next
    <3> QED BY <3>3, <3>4, <3>5
  <2>4. ASSUME Run, ~WriteJSON PROVE [Promise!Next]_<<stored, S>>
    <3>1. stored' = stored /\ \A c \in Conns : Sent(c)' = Sent(c)
      BY <2>4 DEF Run, Take, NextClient, EndRange, StopHub, Sent
    <3> QED BY <2>1, <3>1
  <2>5. ASSUME Loop PROVE [Promise!Next]_<<stored, S>>
    BY <2>1, <2>2, <2>5 DEF Loop, wires, CaptureMetrics, Broadcast, StopLoop, Sent
  <2>6. ASSUME NEW c \in Conns, Handler(c) PROVE [Promise!Next]_<<stored, S>>
    BY <2>1, <2>6 DEF Handler, program, wires, Sent
  <2>7. ASSUME NEW c \in Conns, Peer(c) PROVE [Promise!Next]_<<stored, S>>
    BY <2>0, <2>1, <2>7, PeerSends DEF Peer, program
  <2>8. CASE UNCHANGED vars \/ (Die /\ UNCHANGED <<program, clients, hub, conn, wires, since, raced>>)
    BY <2>1, <2>8 DEF vars, program, wires, Sent
  <2> QED BY <1>2, <2>3, <2>4, <2>5, <2>6, <2>7, <2>8 DEF Next
<1> QED BY <1>1, <1>2, Invariance, PTL DEF Spec, IsLossyBroadcast, Promise!Spec

\* So each client has samples of the history, each newer than the ones before it:
\* what LossyBroadcast keeps is kept here.
THEOREM SamplesInOrder == Spec => []Promise!InOrder
<1> DEFINE S == [c \in Conns |-> Sent(c)]
<1>1. Init => Promise!InOrder
  BY ConcatEmptySeq, EmptySeq DEF Init, Sent, Promise!InOrder
<1>2. ASSUME TypeInv, TypeInv', Promise!InOrder, [Promise!Next]_<<stored, S>>
      PROVE  Promise!InOrder'
  <2>0. stored \in Nat /\ \A c \in Conns : Sent(c) \in Seq(Samples)
    BY <1>2, Numbers
  <2>1. CASE UNCHANGED <<stored, S>>
    BY <1>2, <2>1 DEF Promise!InOrder
  <2>2. CASE Promise!Store
    BY <1>2, <2>0, <2>2 DEF Promise!InOrder, Promise!Store
  <2>3. ASSUME NEW d \in Conns, NEW s \in 1 .. stored, Promise!Send(d, s)
        PROVE  Promise!InOrder'
    <3>1. S' = [S EXCEPT ![d] = Append(S[d], s)] /\ stored' = stored /\ Promise!Last(d) < s
      BY <2>3 DEF Promise!Send
    <3>2. /\ S[d] \in Seq(Samples) /\ DOMAIN S[d] = 1 .. Len(S[d]) /\ Len(S[d]) \in Nat
          /\ \A j \in DOMAIN S[d] : S[d][j] \in 1 .. stored /\ \A i \in 1 .. j - 1 : S[d][i] < S[d][j]
      BY <1>2, <2>0, LenProperties DEF Promise!InOrder
    <3>3. \A i \in DOMAIN S[d] : S[d][i] < s
      <4> SUFFICES ASSUME NEW i \in DOMAIN S[d] PROVE S[d][i] < s
        OBVIOUS
      <4>1. Len(S[d]) \in DOMAIN S[d] /\ S[d] # <<>> /\ S[d][Len(S[d])] < s
        BY <3>1, <3>2, EmptySeq DEF Promise!Last
      <4>2. S[d][i] \in Nat /\ S[d][Len(S[d])] \in Nat /\ s \in Nat
        BY <2>0, <3>2, <4>1
      <4>3. i = Len(S[d]) \/ S[d][i] < S[d][Len(S[d])]
        BY <3>2, <4>1
      <4> HIDE DEF S
      <4> QED BY <4>1, <4>2, <4>3
    <3>4. /\ S'[d] = Append(S[d], s) /\ \A c \in Conns : c # d => S'[c] = S[c]
      BY <3>1
    <3>5. /\ DOMAIN S'[d] = 1 .. Len(S[d]) + 1 /\ S'[d][Len(S[d]) + 1] = s
          /\ \A i \in DOMAIN S[d] : S'[d][i] = S[d][i]
      BY <2>0, <3>2, <3>4, AppendProperties, LenProperties, MetricsHubConstants DEF Samples
    <3>6. ASSUME NEW j \in DOMAIN S'[d]
          PROVE  S'[d][j] \in 1 .. stored /\ \A i \in 1 .. j - 1 : S'[d][i] < S'[d][j]
      <4> HIDE DEF S
      <4>1. CASE j = Len(S[d]) + 1
        BY <3>2, <3>3, <3>5, <4>1
      <4>2. CASE j # Len(S[d]) + 1
        <5>1. j \in DOMAIN S[d] /\ \A i \in 1 .. j - 1 : i \in DOMAIN S[d]
          BY <3>2, <3>5, <3>6, <4>2
        <5> QED BY <3>2, <3>5, <5>1
      <4> QED BY <4>1, <4>2
    <3>7. \A c \in Conns : \A j \in DOMAIN S'[c] :
            S'[c][j] \in 1 .. stored' /\ \A i \in 1 .. j - 1 : S'[c][i] < S'[c][j]
      <4>1. \A c \in Conns : \A j \in DOMAIN S[c] :
              S[c][j] \in 1 .. stored /\ \A i \in 1 .. j - 1 : S[c][i] < S[c][j]
        BY <1>2 DEF Promise!InOrder
      <4> HIDE DEF S
      <4> QED BY <3>1, <3>4, <3>6, <4>1
    <3> QED BY <3>7 DEF Promise!InOrder
  <2> QED BY <1>2, <2>1, <2>2, <2>3 DEF Promise!Next
<1> QED BY <1>1, <1>2, TypeInvariance, HubIsLossyBroadcast, PTL
        DEF Spec, IsLossyBroadcast, Promise!Spec

-----------------------------------------------------------------------------
(* The map                                                                 *)

\* The map has the connections whose Add has ended and whose Remove has not, but
\* for those whose entry was raced for.
MapIsExact ==
  \A c \in Conns \ raced : c \in clients <=> conn[c] \in {"open", "removing"}

\* One access at a time is all that the map needs: whoever is added is there
\* until it is removed, and is gone from then on (services/metrics.go:116).
THEOREM MapIsKept == Spec => []MapIsExact
<1>1. Init => MapIsExact
  BY DEF Init, MapIsExact
<1>2. ASSUME TypeInv, MapIsExact, [Next]_vars PROVE MapIsExact'
  <2>1. ASSUME NEW d \in Conns, Handler(d) PROVE MapIsExact'
    <3>1. CASE Refuse(d) \/ BeginAdd(d) \/ BeginRemove(d)
      BY <1>2, <3>1 DEF Refuse, BeginAdd, BeginRemove, Meeting, MapIsExact, TypeInv, TypeOK
    <3>2. CASE EndAdd(d)
      BY <1>2, <3>2 DEF EndAdd, MapIsExact, TypeInv, TypeOK
    <3>3. CASE EndRemove(d)
      BY <1>2, <3>3 DEF EndRemove, MapIsExact, TypeInv, TypeOK
    <3> QED BY <2>1, <3>1, <3>2, <3>3 DEF Handler
  <2>2. ASSUME UNCHANGED <<clients, conn>>, raced \subseteq raced' PROVE MapIsExact'
    BY <1>2, <2>2 DEF MapIsExact
  <2>3. CASE Run
    BY <2>2, <2>3 DEF Run, Take, NextClient, EndRange, WriteJSON, StopHub, Meeting
  <2>4. CASE Loop \/ (\E c \in Conns : Peer(c)) \/ UNCHANGED vars
             \/ (Die /\ UNCHANGED <<program, clients, hub, conn, wires, since, raced>>)
    BY <2>2, <2>4 DEF Loop, Peer, vars
  <2> QED BY <1>2, <2>1, <2>3, <2>4 DEF Next
<1> QED BY <1>1, <1>2, TypeInvariance, PTL DEF Spec

-----------------------------------------------------------------------------
(* The hub's turns                                                         *)

\* The samples the hub takes before s.
Ahead(s) == {q \in Elements(queue) : q < s}

\* What the hub has left of its turn: two steps at most for each client it has not
\* served, whoever comes meanwhile.
Left == Cardinality(Conns \ hub.seen)

Turn == CASE hub.at = "done"   -> 0
          [] hub.at = "select" -> 1
          [] hub.at = "range"  -> 2 + 2 * Left
          [] hub.at = "write"  -> 3 + 2 * Left

\* Sample s is taken, or fewer are ahead of it, or the turn is nearer its end.
Nearer(s) ==
  \/ s \notin Elements(queue)'
  \/ Ahead(s)' \subseteq Ahead(s) /\ Ahead(s)' # Ahead(s)
  \/ Ahead(s)' = Ahead(s) /\ Turn' < Turn

\* Nothing is put before it and the turn is no longer.
NoFarther(s) ==
  s \in Elements(queue)' /\ Ahead(s)' = Ahead(s) /\ Turn' = Turn

LEMMA LeftIsNumber == ASSUME IsFiniteSet(Conns) PROVE Left \in Nat
BY FS_Subset, FS_CardinalityType DEF Left

LEMMA TakeBringsNearer ==
  ASSUME IInv, Run, Take, NEW s \in Elements(queue)
  PROVE  Nearer(s)
<1>1. queue \in Seq(Samples) /\ queue # <<>> /\ queue' = Tail(queue)
  BY DEF Take, IInv, TypeInv, TypeOK
<1>2. Elements(queue) = {Head(queue)} \cup Elements(queue')
  BY <1>1, FewerElements
<1>3. QueueInOrder' /\ hub'.sample = Head(queue) /\ TypeInv'
  BY InvTake DEF IInv, Take, Waiting
<1>4. \A q \in Elements(queue) : q \in Nat
  BY Numbers DEF IInv
<1>5. \A q \in Elements(queue') : Head(queue) < q
  BY <1>3 DEF QueueInOrder
<1> QED BY <1>2, <1>4, <1>5 DEF Nearer, Ahead

LEMMA RunBringsNearer ==
  ASSUME IInv, Run, IsFiniteSet(Conns), NEW s \in Elements(queue)
  PROVE  Nearer(s)
<1>0. TypeInv
  BY DEF IInv
<1>1. CASE Take
  BY <1>1, TakeBringsNearer
<1>2. CASE ~Take
  <2>1. Ahead(s)' = Ahead(s)
    <3>1. queue' = queue
      BY <1>2 DEF Run, NextClient, EndRange, WriteJSON, StopHub
    <3> QED BY <3>1 DEF Ahead, Elements
  <2>2. Turn' < Turn
    <3>1. ASSUME NEW c \in Conns, NextClient(c) PROVE Turn' < Turn
      <4>1. /\ hub.at = "range" /\ hub'.at = "write" /\ hub'.seen = hub.seen \cup {c}
            /\ c \in Conns \ hub.seen
        BY <1>0, <3>1 DEF NextClient, TypeInv, TypeOK
      <4>2. Conns \ hub'.seen = (Conns \ hub.seen) \ {c} /\ IsFiniteSet(Conns \ hub.seen)
        BY <4>1, FS_Subset
      <4>3. Left' = Left - 1 /\ Left \in Nat
        <5>1. Cardinality((Conns \ hub.seen) \ {c}) = Cardinality(Conns \ hub.seen) - 1
          BY <4>1, <4>2, FS_RemoveElement
        <5> QED BY <4>2, <5>1, LeftIsNumber DEF Left
      <4> QED BY <4>1, <4>3 DEF Turn
    <3>2. CASE WriteJSON
      <4>1. hub.at = "write" /\ hub'.at = "range" /\ hub'.seen = hub.seen
        BY <1>0, <3>2 DEF WriteJSON, TypeInv, TypeOK
      <4>2. Left' = Left
        BY <4>1 DEF Left
      <4> QED BY <4>1, <4>2, LeftIsNumber DEF Turn
    <3>3. CASE EndRange
      BY <3>3, LeftIsNumber DEF EndRange, Waiting, Turn
    <3>4. CASE StopHub
      <4>1. hub.at = "select" /\ hub'.at = "done"
        BY <3>4 DEF StopHub, Waiting
      <4> QED BY <4>1 DEF Turn
    <3> QED BY <1>2, <3>1, <3>2, <3>3, <3>4 DEF Run
  <2> QED BY <2>1, <2>2 DEF Nearer
<1> QED BY <1>1, <1>2

LEMMA OthersKeepAway ==
  ASSUME IInv, [Next]_vars, ~Run, NEW s \in Elements(queue)
  PROVE  NoFarther(s)
<1>0. TypeInv
  BY DEF IInv
<1>1. ASSUME UNCHANGED <<queue, hub>> PROVE NoFarther(s)
  BY <1>1 DEF NoFarther, Ahead, Turn, Left, Elements
<1>2. CASE Loop /\ Broadcast
  <2>1. /\ UNCHANGED hub /\ loop = "broadcast" /\ stored \in Samples /\ queue \in Seq(Samples)
        /\ queue' = queue \/ queue' = Append(queue, stored)
    BY <1>0, <1>2 DEF Loop, Broadcast, TypeInv, TypeOK, OnItsWay
  <2>2. CASE queue' = queue
    BY <1>1, <2>1, <2>2
  <2>3. CASE queue' = Append(queue, stored)
    <3>1. Elements(queue)' = Elements(queue) \cup {stored}
      BY <2>1, <2>3, MoreElements
    <3>2. s < stored /\ s \in Nat /\ stored \in Nat
      BY <1>0, <2>1, Numbers DEF IInv, QueueInOrder
    <3>3. Ahead(s)' = Ahead(s)
      BY <3>1, <3>2 DEF Ahead
    <3>4. Turn' = Turn
      BY <2>1 DEF Turn, Left
    <3> QED BY <3>1, <3>3, <3>4 DEF NoFarther
  <2> QED BY <2>1, <2>2, <2>3
<1>3. CASE (Loop /\ ~Broadcast) \/ (\E c \in Conns : Handler(c) \/ Peer(c)) \/ UNCHANGED vars
           \/ (Die /\ UNCHANGED <<program, clients, hub, conn, wires, since, raced>>)
  BY <1>1, <1>3 DEF Loop, CaptureMetrics, StopLoop, Handler, Peer, vars, program
<1> QED BY <1>2, <1>3 DEF Next

\* Every step of the hub brings each sample in its channel nearer to being taken,
\* until it stops, and nobody else puts it off: neither the samples that follow
\* nor the clients that come while the hub serves others.
THEOREM TurnsEnd ==
  ASSUME IsFiniteSet(Conns)
  PROVE  Spec => [][\A s \in Elements(queue) :
                      (Run => Nearer(s)) /\ (~Run => NoFarther(s))]_vars
<1>1. IInv /\ [Next]_vars => [\A s \in Elements(queue) :
                                (Run => Nearer(s)) /\ (~Run => NoFarther(s))]_vars
  BY RunBringsNearer, OthersKeepAway
<1> QED BY <1>1, Invariance, PTL DEF Spec
=============================================================================
