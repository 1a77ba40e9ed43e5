------------------------- MODULE EventFanout_proofs -------------------------
(***************************************************************************)
(* Proofs about the way of an accepted bid from its Redis stream to the    *)
(* WebSocket clients, for any number of clients, auctions, shards, events  *)
(* and outages and any capacities of the channels.                         *)
(***************************************************************************)
EXTENDS EventFanout, TLAPS

Event == Nat \ {0}
Message == [auction : Auctions, event : Event]

-----------------------------------------------------------------------------
(* The dispatcher reads each stream in order.                              *)

\* What was read of a stream follows its offset and is on the stream, and what
\* is on the broadcast channel was read.
ReadInv ==
  /\ \A a \in Auctions : offsets[a] <= stream[a]
  /\ \A a \in Auctions : \A i \in 1 .. Len(batch[a]) :
       batch[a][i] = offsets[a] + i /\ batch[a][i] <= stream[a]
  /\ \A a \in Auctions : batch[a] # << >> => offsets[a] # Absent
  /\ \A i \in 1 .. Len(broadcast) :
       broadcast[i].event <= stream[broadcast[i].auction]

\* An event leaves a sequence at its head.
LEMMA TailParts ==
  ASSUME NEW S, NEW s \in Seq(S), s # << >>
  PROVE  /\ Tail(s) \in Seq(S) /\ Head(s) \in S /\ Head(s) = s[1]
         /\ Len(s) \in Nat \ {0} /\ Len(Tail(s)) = Len(s) - 1
         /\ \A i \in 1 .. Len(s) - 1 : Tail(s)[i] = s[i + 1]
  OBVIOUS

\* An event joins a sequence at its end.
LEMMA AppendParts ==
  ASSUME NEW S, NEW s \in Seq(S), NEW e \in S
  PROVE  /\ Append(s, e) \in Seq(S) /\ Append(s, e) # << >>
         /\ Len(s) \in Nat /\ Len(Append(s, e)) = Len(s) + 1
         /\ Append(s, e)[Len(s) + 1] = e
         /\ \A i \in 1 .. Len(s) : Append(s, e)[i] = s[i]
  OBVIOUS

\* XREAD gives the events that follow the offset and are on the stream.
LEMMA XReadParts ==
  ASSUME TypeOK, ReadInv, NEW a \in Auctions
  PROVE  /\ XRead(a) \in Seq(Event)
         /\ XRead(a) # << >> => offsets[a] # Absent
         /\ \A i \in 1 .. Len(XRead(a)) :
              XRead(a)[i] = offsets[a] + i /\ XRead(a)[i] <= stream[a]
<1>1. CASE offsets[a] = Absent
  BY <1>1 DEF XRead
<1>2. CASE offsets[a] # Absent
  <2> DEFINE rest == stream[a] - offsets[a]
             n == IF rest < StreamCount THEN rest ELSE StreamCount
  <2>1. offsets[a] \in Nat /\ stream[a] \in Nat /\ n \in Nat /\ offsets[a] + n <= stream[a]
    BY <1>2, FanoutAssumption DEF TypeOK, ReadInv
  <2>2. XRead(a) = [i \in 1 .. n |-> offsets[a] + i]
    BY <1>2 DEF XRead
  <2> HIDE DEF n
  <2>3. \A i \in 1 .. n : offsets[a] + i \in Event /\ offsets[a] + i <= stream[a]
    BY <2>1 DEF Event
  <2>4. XRead(a) \in Seq(Event) /\ Len(XRead(a)) = n
    BY <2>1, <2>2, <2>3
  <2> QED  BY <1>2, <2>2, <2>3, <2>4
<1> QED  BY <1>1, <1>2

\* Offsets, events read and events on the channel are numbers.
LEMMA ReadTypes ==
  ASSUME TypeOK
  PROVE  /\ \A a \in Auctions : stream[a] \in Nat /\ offsets[a] \in Int
         /\ \A a \in Auctions : \A i \in 1 .. Len(batch[a]) : batch[a][i] \in Event
         /\ \A i \in 1 .. Len(broadcast) :
              broadcast[i].event \in Event /\ broadcast[i].auction \in Auctions
<1>1. \A a \in Auctions : stream[a] \in Nat /\ offsets[a] \in Int
  BY DEF TypeOK, Absent
<1>2. \A a \in Auctions : batch[a] \in Seq(Event)
  BY DEF TypeOK, Event
<1>3. broadcast \in Seq(Message)
  BY DEF TypeOK, Message, Event
<1>4. \A i \in 1 .. Len(broadcast) : broadcast[i] \in Message
  BY <1>3
<1> QED  BY <1>1, <1>2, <1>4 DEF Message

\* The steps of Redis and of the dispatcher keep the types.
LEMMA DispatcherTyped ==
  ASSUME TypeOK, ReadInv, Next, ~HubStep
  PROVE  TypeOK' /\ ReadInv'
<1> USE DEF TypeOK, ReadInv
<1>1. ASSUME NEW a \in Auctions, AppendEvent(a) PROVE TypeOK' /\ ReadInv'
  <2>1. /\ stream' = [stream EXCEPT ![a] = @ + 1]
        /\ UNCHANGED <<hubVars, offsets, asking, batch, down, outages, joinedAt>>
    BY <1>1 DEF AppendEvent
  <2>2. /\ stream' \in [Auctions -> Nat]
        /\ \A b \in Auctions : stream[b] <= stream'[b]
    BY <2>1
  <2>3. TypeOK'
    BY <2>1, <2>2 DEF hubVars
  <2>4. \A b \in Auctions : \A x \in Int : x <= stream[b] => x <= stream'[b]
    BY <2>2
  <2>5. \A b \in Auctions : offsets[b] <= stream'[b]
    BY <2>4, ReadTypes
  <2>6. \A b \in Auctions : \A i \in 1 .. Len(batch[b]) : batch[b][i] <= stream'[b]
    <3> SUFFICES ASSUME NEW b \in Auctions, NEW i \in 1 .. Len(batch[b])
                 PROVE  batch[b][i] <= stream'[b]
      OBVIOUS
    <3> HIDE DEF TypeOK, ReadInv
    <3>1. batch[b][i] \in Event
      BY ReadTypes, Zenon
    <3>2. batch[b][i] <= stream[b]
      BY DEF ReadInv
    <3> QED  BY <2>4, <3>1, <3>2 DEF Event
  <2>7. \A i \in 1 .. Len(broadcast) :
          broadcast[i].event <= stream'[broadcast[i].auction]
    <3> SUFFICES ASSUME NEW i \in 1 .. Len(broadcast)
                 PROVE  broadcast[i].event <= stream'[broadcast[i].auction]
      OBVIOUS
    <3> HIDE DEF TypeOK, ReadInv
    <3>1. broadcast[i].event \in Event /\ broadcast[i].auction \in Auctions
      BY ReadTypes, Zenon
    <3>2. broadcast[i].event <= stream[broadcast[i].auction]
      BY DEF ReadInv
    <3> QED  BY <2>4, <3>1, <3>2 DEF Event
  <2>8. ReadInv'
    BY <2>1, <2>5, <2>6, <2>7 DEF hubVars
  <2> QED  BY <2>3, <2>8
<1>2. ASSUME NEW s \in Shards, ShardFails(s) \/ ShardRecovers(s)
      PROVE  TypeOK' /\ ReadInv'
  <2>1. /\ down' \subseteq Shards /\ outages' \in 0 .. MaxOutages
        /\ UNCHANGED <<hubVars, stream, offsets, asking, batch, joinedAt>>
    <3>1. CASE ShardFails(s)
      BY <3>1, FanoutAssumption DEF ShardFails
    <3>2. CASE ShardRecovers(s)
      BY <3>2 DEF ShardRecovers
    <3> QED  BY <1>2, <3>1, <3>2
  <2>2. TypeOK'
    BY <2>1 DEF hubVars
  <2>3. ReadInv'
    BY <2>1 DEF hubVars
  <2> QED  BY <2>2, <2>3
<1>3. CASE Poll
  <2>1. offsets' \in [Auctions -> Nat \cup {Absent}]
        /\ \A a \in Auctions : offsets'[a] <= stream[a]
    BY <1>3 DEF Poll, Refreshed, Absent
  <2>2. asking' \subseteq Shards
    <3>1. \A a \in Auctions : shard(a) \in Shards
      BY FanoutAssumption DEF shard, Shards
    <3> QED  BY <1>3, <3>1 DEF Poll, KnownAuctions
  <2> QED  BY <1>3, <2>1, <2>2 DEF Poll, hubVars
<1>4. ASSUME NEW s \in Shards, ReadShard(s) PROVE TypeOK' /\ ReadInv'
  <2>1. batch' \in [Auctions -> Seq(Event)]
    BY <1>4, XReadParts DEF ReadShard, Event
  <2>2. \A a \in Auctions : batch'[a] \in {XRead(a), batch[a]}
    BY <1>4 DEF ReadShard
  <2>3. UNCHANGED <<hubVars, stream, offsets, down, outages, joinedAt>>
        /\ asking' \subseteq asking
    BY <1>4 DEF ReadShard
  <2>4. TypeOK'
    BY <2>1, <2>3 DEF hubVars, Event
  <2>5. ReadInv'
    <3>1. \A a \in Auctions :
            /\ batch'[a] # << >> => offsets[a] # Absent
            /\ \A i \in 1 .. Len(batch'[a]) :
                 batch'[a][i] = offsets[a] + i /\ batch'[a][i] <= stream[a]
      <4> SUFFICES ASSUME NEW a \in Auctions
                   PROVE  /\ batch'[a] # << >> => offsets[a] # Absent
                          /\ \A i \in 1 .. Len(batch'[a]) :
                               batch'[a][i] = offsets[a] + i /\ batch'[a][i] <= stream[a]
        OBVIOUS
      <4>1. CASE batch'[a] = batch[a]
        BY <4>1
      <4>2. CASE batch'[a] = XRead(a)
        BY <4>2, XReadParts
      <4> QED  BY <2>2, <4>1, <4>2
    <3> QED  BY <2>3, <3>1 DEF hubVars
  <2> QED  BY <2>4, <2>5
<1>5. ASSUME NEW s \in Shards, ShardError(s) PROVE TypeOK' /\ ReadInv'
  BY <1>5 DEF ShardError, hubVars
<1>6. ASSUME NEW a \in Auctions, Publish(a) PROVE TypeOK' /\ ReadInv'
  <2> DEFINE e == Head(batch[a])
  <2>1. /\ batch[a] \in Seq(Event) /\ batch[a] # << >>
        /\ offsets' = [offsets EXCEPT ![a] = e]
        /\ broadcast' = Append(broadcast, [auction |-> a, event |-> e])
        /\ Len(broadcast) < BroadcastCap
        /\ batch' = [batch EXCEPT ![a] = Tail(@)]
        /\ UNCHANGED <<subs, register, unregister, dropping, send, conn, reader,
                       writer, got, stream, asking, down, outages, joinedAt>>
    BY <1>6 DEF Publish, Broadcast, Event
  <2>2. /\ Tail(batch[a]) \in Seq(Event) /\ e \in Event /\ e = batch[a][1]
        /\ Len(batch[a]) \in Nat \ {0} /\ Len(Tail(batch[a])) = Len(batch[a]) - 1
        /\ \A i \in 1 .. Len(batch[a]) - 1 : Tail(batch[a])[i] = batch[a][i + 1]
    BY <2>1, TailParts
  <2>3. e = offsets[a] + 1 /\ e <= stream[a] /\ offsets[a] # Absent
    BY <2>1, <2>2
  <2>4. [auction |-> a, event |-> e] \in Message /\ broadcast \in Seq(Message)
    BY <2>2 DEF Message, Event
  <2>5. /\ broadcast' \in Seq(Message) /\ Len(broadcast') = Len(broadcast) + 1
        /\ broadcast'[Len(broadcast) + 1] = [auction |-> a, event |-> e]
        /\ \A i \in 1 .. Len(broadcast) : broadcast'[i] = broadcast[i]
        /\ Len(broadcast) \in Nat
    BY <2>1, <2>4, AppendParts
  <2> HIDE DEF e
  <2>6. TypeOK'
    <3>1. /\ offsets' \in [Auctions -> Nat \cup {Absent}]
          /\ batch' \in [Auctions -> Seq(Event)]
      BY <2>1, <2>2 DEF Event
    <3>2. broadcast' \in Seq([auction : Auctions, event : Nat \ {0}])
          /\ Len(broadcast') <= BroadcastCap
      BY <2>1, <2>5, HubAssumption DEF Message, Event
    <3> QED  BY <2>1, <3>1, <3>2 DEF Event
  <2>7. \A i \in 1 .. Len(broadcast') :
          broadcast'[i].event <= stream'[broadcast'[i].auction]
    <3> SUFFICES ASSUME NEW i \in 1 .. Len(broadcast) + 1
                 PROVE  broadcast'[i].event <= stream[broadcast'[i].auction]
      BY <2>1, <2>5
    <3>1. CASE i = Len(broadcast) + 1
      BY <2>3, <2>5, <3>1
    <3>2. CASE i # Len(broadcast) + 1
      <4>1. i \in 1 .. Len(broadcast)
        BY <2>5, <3>2
      <4> QED  BY <2>5, <4>1
    <3> QED  BY <3>1, <3>2
  <2>8. \A b \in Auctions : \A i \in 1 .. Len(batch'[b]) :
          batch'[b][i] = offsets'[b] + i /\ batch'[b][i] <= stream'[b]
    <3> SUFFICES ASSUME NEW b \in Auctions, NEW i \in 1 .. Len(batch'[b])
                 PROVE  batch'[b][i] = offsets'[b] + i /\ batch'[b][i] <= stream'[b]
      OBVIOUS
    <3>1. CASE b # a
      BY <2>1, <3>1
    <3>2. CASE b = a
      <4>1. batch'[a] = Tail(batch[a]) /\ offsets'[a] = e
        BY <2>1
      <4>2. i \in 1 .. Len(batch[a]) - 1 /\ i + 1 \in 1 .. Len(batch[a])
        BY <2>2, <3>2, <4>1
      <4>3. batch[a][i + 1] = offsets[a] + (i + 1) /\ batch[a][i + 1] <= stream[a]
        BY <4>2
      <4> QED  BY <2>1, <2>2, <2>3, <3>2, <4>1, <4>2, <4>3 DEF Absent
    <3> QED  BY <3>1, <3>2
  <2>9. ReadInv'
    <3>1. \A b \in Auctions : /\ offsets'[b] <= stream'[b]
                              /\ batch'[b] # << >> => offsets'[b] # Absent
      BY <2>1, <2>2, <2>3 DEF Absent, Event
    <3> QED  BY <2>7, <2>8, <3>1
  <2> QED  BY <2>6, <2>9
<1> QED
  BY <1>1, <1>2, <1>3, <1>4, <1>5, <1>6 DEF Next, ReadEvents

\* A client that joins a channel or leaves it, and an event a client's queue
\* takes or gives, are of the type of the others.
LEMMA JoinTyped ==
  ASSUME NEW S, NEW s \in Seq(S), NEW e \in S, NEW n \in Nat, Len(s) < n
  PROVE  Append(s, e) \in Seq(S) /\ Len(Append(s, e)) <= n
  OBVIOUS

LEMMA LeaveTyped ==
  ASSUME NEW S, NEW s \in Seq(S), NEW n \in Nat, Len(s) <= n, s # << >>
  PROVE  Tail(s) \in Seq(S) /\ Len(Tail(s)) <= n /\ Head(s) \in S
  OBVIOUS

\* The steps of the hub and of the connections keep the types.
LEMMA HubTyped ==
  ASSUME TypeOK, ReadInv, HubStep
  PROVE  TypeOK' /\ ReadInv'
<1> USE DEF TypeOK
<1>1. /\ UNCHANGED <<stream, offsets, asking, batch, down, outages>>
      /\ joinedAt' \in [Clients -> Nat]
  BY HubAssumption DEF HubStep, Beside
<1>2. ASSUME UNCHANGED broadcast PROVE ReadInv'
  BY <1>1, <1>2 DEF ReadInv
<1>3. ASSUME NEW c \in Clients, Upgrade(c) PROVE TypeOK' /\ ReadInv'
  BY <1>1, <1>2, <1>3 DEF Upgrade
<1>4. ASSUME NEW c \in Clients, PeerGone(c) PROVE TypeOK' /\ ReadInv'
  BY <1>1, <1>2, <1>4 DEF PeerGone
<1>5. ASSUME NEW c \in Clients, Register(c) PROVE TypeOK' /\ ReadInv'
  <2>1. register' \in Seq(Clients) /\ Len(register') <= RegisterCap
    BY <1>5, JoinTyped, HubAssumption DEF Register
  <2> QED  BY <1>1, <1>2, <1>5, <2>1 DEF Register
<1>6. ASSUME NEW c \in Clients, ReadFails(c) PROVE TypeOK' /\ ReadInv'
  BY <1>1, <1>2, <1>6 DEF ReadFails
<1>7. ASSUME NEW c \in Clients, CloseClient(c)
      PROVE  /\ unregister' \in Seq(Clients) /\ Len(unregister') <= UnregisterCap
             /\ conn' \in [Clients -> {"none", "open", "gone"}]
  BY <1>7, JoinTyped, HubAssumption DEF CloseClient, Unregister
<1>8. ASSUME NEW c \in Clients, ReaderCloses(c) PROVE TypeOK' /\ ReadInv'
  BY <1>1, <1>2, <1>7, <1>8 DEF ReaderCloses
<1>9. ASSUME NEW c \in Clients, Write(c) PROVE TypeOK' /\ ReadInv'
  <2>1. Tail(send[c]) \in Seq(Event) /\ Len(Tail(send[c])) <= QueueDepth
        /\ Head(send[c]) \in Event
    BY <1>9, LeaveTyped, HubAssumption DEF Write, Event
  <2>2. send' \in [Clients -> Seq(Event)]
        /\ \A d \in Clients : Len(send'[d]) <= QueueDepth
    BY <1>9, <2>1 DEF Write, Event
  <2>3. Append(got[c], Head(send[c])) \in Seq(Event)
    BY <2>1, AppendParts DEF Event
  <2>4. got' \in [Clients -> Seq(Event)]
    BY <1>9, <2>3 DEF Write, Event
  <2>5. writer' \in [Clients -> {"none", "wait", "close", "done"}]
    BY <1>9 DEF Write
  <2>6. UNCHANGED <<subs, register, unregister, broadcast, dropping, conn, reader>>
    BY <1>9 DEF Write
  <2> QED  BY <1>1, <1>2, <2>2, <2>4, <2>5, <2>6 DEF Event
<1>10. ASSUME NEW c \in Clients, Ping(c) PROVE TypeOK' /\ ReadInv'
  BY <1>1, <1>2, <1>10 DEF Ping
<1>11. ASSUME NEW c \in Clients, WriterCloses(c) PROVE TypeOK' /\ ReadInv'
  BY <1>1, <1>2, <1>7, <1>11 DEF WriterCloses
<1>12. CASE HubRegister
  <2>1. register' \in Seq(Clients) /\ Len(register') <= RegisterCap
        /\ Head(register) \in Clients
    BY <1>12, LeaveTyped, HubAssumption DEF HubRegister
  <2>2. subs' \in [Auctions -> SUBSET Clients]
    BY <1>12, <2>1 DEF HubRegister
  <2> QED  BY <1>1, <1>2, <1>12, <2>1, <2>2 DEF HubRegister
<1>13. CASE HubUnregister
  <2>1. unregister' \in Seq(Clients) /\ Len(unregister') <= UnregisterCap
        /\ Head(unregister) \in Clients
    BY <1>13, LeaveTyped, HubAssumption DEF HubUnregister
  <2>2. subs' \in [Auctions -> SUBSET Clients]
    BY <1>13, <2>1 DEF HubUnregister
  <2> QED  BY <1>1, <1>2, <1>13, <2>1, <2>2 DEF HubUnregister
<1>14. CASE HubBroadcast
  <2> DEFINE msg == Head(broadcast)
  <2>1. broadcast \in Seq(Message) /\ broadcast # << >>
    BY <1>14 DEF HubBroadcast, Message, Event
  <2>2. broadcast' \in Seq(Message) /\ Len(broadcast') <= BroadcastCap
        /\ msg \in Message /\ broadcast' = Tail(broadcast)
    BY <1>14, <2>1, LeaveTyped, HubAssumption DEF HubBroadcast
  <2>3. send' \in [Clients -> Seq(Event)]
        /\ \A d \in Clients : Len(send'[d]) <= QueueDepth
    <3> SUFFICES ASSUME NEW d \in Clients
                 PROVE  send'[d] \in Seq(Event) /\ Len(send'[d]) <= QueueDepth
      BY <1>14 DEF HubBroadcast
    <3>1. send[d] \in Seq(Event) /\ Len(send[d]) <= QueueDepth
      BY DEF Event
    <3>2. send'[d] = IF d \in subs[msg.auction] /\ Len(send[d]) < QueueDepth
                     THEN Append(send[d], msg.event) ELSE send[d]
      BY <1>14 DEF HubBroadcast
    <3>3. msg.event \in Event
      BY <2>2 DEF Message
    <3> HIDE DEF msg
    <3>4. CASE d \in subs[msg.auction] /\ Len(send[d]) < QueueDepth
      <4>1. Append(send[d], msg.event) \in Seq(Event)
            /\ Len(Append(send[d], msg.event)) <= QueueDepth
        BY <3>1, <3>3, <3>4, JoinTyped, HubAssumption
      <4> QED  BY <3>2, <3>4, <4>1
    <3>5. CASE ~(d \in subs[msg.auction] /\ Len(send[d]) < QueueDepth)
      BY <3>1, <3>2, <3>5
    <3> QED  BY <3>4, <3>5
  <2>4. dropping' \subseteq Clients
    BY <1>14, <2>2 DEF HubBroadcast, Drops, Message
  <2>5. TypeOK'
    BY <1>1, <1>14, <2>2, <2>3, <2>4 DEF HubBroadcast, Message, Event
  <2>6. ReadInv'
    <3>1. \A i \in 1 .. Len(broadcast') : i + 1 \in 1 .. Len(broadcast)
                                          /\ broadcast'[i] = broadcast[i + 1]
      BY <2>1, <2>2, TailParts
    <3>2. \A i \in 1 .. Len(broadcast') :
            broadcast'[i].event <= stream[broadcast'[i].auction]
      BY <3>1 DEF ReadInv
    <3> QED  BY <1>1, <3>2 DEF ReadInv
  <2> QED  BY <2>5, <2>6
<1>15. ASSUME NEW c \in Clients, HubDrop(c) PROVE TypeOK' /\ ReadInv'
  <2>1. subs' \in [Auctions -> SUBSET Clients] /\ dropping' \subseteq Clients
    BY <1>15 DEF HubDrop
  <2> QED  BY <1>1, <1>2, <1>7, <1>15, <2>1 DEF HubDrop
<1> QED
  BY <1>3, <1>4, <1>5, <1>6, <1>8, <1>9, <1>10, <1>11, <1>12, <1>13, <1>14, <1>15
  DEF HubStep, HubNext, HubRun, ReadPump, WritePump

\* Types and read order hold in every state: no channel overflows, and the
\* dispatcher never runs ahead of a stream.
THEOREM FanoutInvariance == Safe => [](TypeOK /\ ReadInv)
<1>1. Init => TypeOK /\ ReadInv
  BY HubAssumption, FanoutAssumption DEF Init, HubInit, TypeOK, ReadInv, Absent
<1>2. TypeOK /\ ReadInv /\ [Next]_vars => TypeOK' /\ ReadInv'
  <2> SUFFICES ASSUME TypeOK, ReadInv, [Next]_vars PROVE TypeOK' /\ ReadInv'
    OBVIOUS
  <2>1. CASE HubStep
    BY <2>1, HubTyped
  <2>2. CASE Next /\ ~HubStep
    BY <2>2, DispatcherTyped
  <2>3. CASE UNCHANGED vars
    BY <2>3 DEF vars, hubVars, fanVars, TypeOK, ReadInv
  <2> QED  BY <2>1, <2>2, <2>3
<1> QED  BY <1>1, <1>2, PTL DEF Safe

\* The state of the hub, of the clients and of the dispatcher keeps its shape,
\* and none of the channels of hub.go ever holds more than its capacity.
THEOREM FanoutTypeCorrect == Safe => []TypeOK
  BY FanoutInvariance, PTL

-----------------------------------------------------------------------------
(* No event is missed: the events wait in order, and each client's queue   *)
(* goes on where the last event it took ended.                             *)

\* y may come after x: it is the next event, or a replay starts.
Follows(x, y) == y \in {x + 1, 1}

\* Each event of s may come after the one before.
Chain(s) == \A i \in 1 .. Len(s) - 1 : Follows(s[i], s[i + 1])

\* With b on the broadcast channel and u the next event of auction a to be read,
\* the events of a wait at the places i: those of a's messages, and one behind.
Waits(b, a, i) ==
  /\ i \in 1 .. Len(b) + 1
  /\ i # Len(b) + 1 => b[i].auction = a
EventAt(b, u, i) == IF i = Len(b) + 1 THEN u ELSE b[i].event

\* Place i is the first at which an event of a waits, j is the next after i.
FirstAt(b, a, i) == Waits(b, a, i) /\ \A k \in 1 .. i - 1 : ~Waits(b, a, k)
NextAt(b, a, i, j) ==
  /\ Waits(b, a, i) /\ Waits(b, a, j) /\ i < j
  /\ \A k \in i + 1 .. j - 1 : ~Waits(b, a, k)

\* The waiting events of a follow each other.
InLine(b, a, u) ==
  \A i, j \in 1 .. Len(b) + 1 :
    NextAt(b, a, i, j) => Follows(EventAt(b, u, i), EventAt(b, u, j))

\* The message at the head of the channel leaves it.
LEMMA HeadLeaves ==
  ASSUME NEW b \in Seq(Message), b # << >>, NEW a, NEW u
  PROVE  \A i \in 1 .. Len(Tail(b)) + 1 :
           /\ i + 1 \in 1 .. Len(b) + 1
           /\ Waits(Tail(b), a, i) <=> Waits(b, a, i + 1)
           /\ EventAt(Tail(b), u, i) = EventAt(b, u, i + 1)
<1> DEFINE t == Tail(b)
           n == Len(b)
<1>1. /\ n \in Nat \ {0} /\ Len(t) = n - 1
      /\ \A i \in 1 .. n - 1 : t[i] = b[i + 1]
  BY TailParts
<1> SUFFICES ASSUME NEW i \in 1 .. Len(t) + 1
             PROVE  /\ i + 1 \in 1 .. n + 1
                    /\ Waits(t, a, i) <=> Waits(b, a, i + 1)
                    /\ EventAt(t, u, i) = EventAt(b, u, i + 1)
  OBVIOUS
<1> HIDE DEF t
<1>2. i + 1 \in 1 .. n + 1 /\ (i = Len(t) + 1 <=> i + 1 = n + 1)
  <2> HIDE DEF n
  <2> QED  BY <1>1
<1>3. CASE i = Len(t) + 1
  BY <1>2, <1>3 DEF Waits, EventAt
<1>4. CASE i # Len(t) + 1
  <2>1. t[i] = b[i + 1]
    <3> HIDE DEF n
    <3> QED  BY <1>1, <1>4
  <2> QED  BY <1>2, <1>4, <2>1 DEF Waits, EventAt
<1> QED  BY <1>3, <1>4

\* The order of the waiting events survives the departure of the head.
LEMMA TailInLine ==
  ASSUME NEW b \in Seq(Message), b # << >>, NEW a, NEW u, InLine(b, a, u)
  PROVE  InLine(Tail(b), a, u)
<1> SUFFICES ASSUME NEW i \in 1 .. Len(Tail(b)) + 1, NEW j \in 1 .. Len(Tail(b)) + 1,
                    NextAt(Tail(b), a, i, j)
             PROVE  Follows(EventAt(Tail(b), u, i), EventAt(Tail(b), u, j))
  BY DEF InLine
<1>1. Len(Tail(b)) \in Nat /\ Len(Tail(b)) = Len(b) - 1
  BY TailParts
<1>2. ASSUME NEW k \in (i + 1) + 1 .. (j + 1) - 1 PROVE ~Waits(b, a, k)
  <2>1. k - 1 \in i + 1 .. j - 1 /\ k - 1 \in 1 .. Len(Tail(b)) + 1 /\ (k - 1) + 1 = k
    BY <1>1, <1>2
  <2>2. ~Waits(Tail(b), a, k - 1)
    BY <2>1 DEF NextAt
  <2> QED  BY <2>1, <2>2, HeadLeaves
<1>3. /\ Waits(b, a, i + 1) /\ Waits(b, a, j + 1) /\ i + 1 < j + 1
      /\ i + 1 \in 1 .. Len(b) + 1 /\ j + 1 \in 1 .. Len(b) + 1
  <2>1. Waits(Tail(b), a, i) /\ Waits(Tail(b), a, j) /\ i + 1 < j + 1
    BY <1>1 DEF NextAt
  <2> QED  BY <2>1, HeadLeaves
<1>4. NextAt(b, a, i + 1, j + 1)
  BY <1>2, <1>3 DEF NextAt
<1>5. Follows(EventAt(b, u, i + 1), EventAt(b, u, j + 1))
  BY <1>3, <1>4 DEF InLine
<1> QED  BY <1>5, HeadLeaves

\* What waits first after the departure followed the head, if the head was an
\* event of a, and waited first before otherwise.
LEMMA TailFirst ==
  ASSUME NEW b \in Seq(Message), b # << >>, NEW a, NEW u,
         NEW i \in 1 .. Len(Tail(b)) + 1, FirstAt(Tail(b), a, i)
  PROVE  /\ i + 1 \in 1 .. Len(b) + 1
         /\ EventAt(Tail(b), u, i) = EventAt(b, u, i + 1)
         /\ Head(b).auction = a => /\ FirstAt(b, a, 1) /\ NextAt(b, a, 1, i + 1)
                                   /\ EventAt(b, u, 1) = Head(b).event
                                   /\ 1 \in 1 .. Len(b) + 1
         /\ Head(b).auction # a => FirstAt(b, a, i + 1)
<1>1. /\ Len(b) \in Nat \ {0} /\ Len(Tail(b)) = Len(b) - 1 /\ Head(b) = b[1]
  BY TailParts
<1>2. /\ i + 1 \in 1 .. Len(b) + 1 /\ Waits(b, a, i + 1)
      /\ EventAt(Tail(b), u, i) = EventAt(b, u, i + 1)
  BY HeadLeaves DEF FirstAt
<1>3. ASSUME NEW k \in 2 .. i PROVE ~Waits(b, a, k)
  <2>1. k - 1 \in 1 .. i - 1 /\ k - 1 \in 1 .. Len(Tail(b)) + 1 /\ (k - 1) + 1 = k
    BY <1>1, <1>3
  <2>2. ~Waits(Tail(b), a, k - 1)
    BY <2>1 DEF FirstAt
  <2> QED  BY <2>1, <2>2, HeadLeaves
<1>4. /\ Waits(b, a, 1) <=> Head(b).auction = a
      /\ EventAt(b, u, 1) = Head(b).event
  BY <1>1 DEF Waits, EventAt
<1>5. ASSUME Head(b).auction = a PROVE FirstAt(b, a, 1) /\ NextAt(b, a, 1, i + 1)
  BY <1>1, <1>2, <1>3, <1>4, <1>5 DEF FirstAt, NextAt
<1>6. ASSUME Head(b).auction # a PROVE FirstAt(b, a, i + 1)
  <2>1. ASSUME NEW k \in 1 .. (i + 1) - 1 PROVE ~Waits(b, a, k)
    BY <1>3, <1>4, <1>6, <2>1
  <2> QED  BY <1>2, <2>1 DEF FirstAt
<1>7. 1 \in 1 .. Len(b) + 1
  BY <1>1
<1> QED  BY <1>2, <1>4, <1>5, <1>6, <1>7

\* Event u of auction a joins the channel and v comes next; for another auction
\* nothing changes.
Publishes(m, a, u, v) ==
  IF m.auction = a THEN m.event = u /\ Follows(u, v) ELSE v = u

\* Each place of the longer channel is a place of the shorter one, or comes after
\* the message that joined.
LEMMA JoinedPlaces ==
  ASSUME NEW b \in Seq(Message), NEW m \in Message, NEW a, NEW u, NEW v,
         Publishes(m, a, u, v)
  PROVE  LET d == Append(b, m) n == Len(b) IN
         /\ n \in Nat /\ Len(d) = n + 1
         /\ \A k \in 1 .. n : /\ Waits(d, a, k) <=> Waits(b, a, k)
                              /\ EventAt(d, v, k) = EventAt(b, u, k)
         /\ Waits(b, a, n + 1) /\ Waits(d, a, n + 2)
         /\ m.auction = a => /\ Waits(d, a, n + 1)
                             /\ EventAt(d, v, n + 1) = EventAt(b, u, n + 1)
                             /\ Follows(EventAt(d, v, n + 1), EventAt(d, v, n + 2))
         /\ m.auction # a => /\ ~Waits(d, a, n + 1)
                             /\ EventAt(d, v, n + 2) = EventAt(b, u, n + 1)
<1> DEFINE d == Append(b, m)
           n == Len(b)
<1>1. /\ n \in Nat /\ Len(d) = n + 1 /\ d[n + 1] = m
      /\ \A k \in 1 .. n : d[k] = b[k]
  BY AppendParts
<1> HIDE DEF d
<1>2. \A k \in 1 .. n : /\ Waits(d, a, k) <=> Waits(b, a, k)
                        /\ EventAt(d, v, k) = EventAt(b, u, k)
  BY <1>1 DEF Waits, EventAt
<1>3. /\ Waits(d, a, n + 1) <=> m.auction = a
      /\ EventAt(d, v, n + 1) = m.event
  BY <1>1 DEF Waits, EventAt
<1>4. /\ Waits(d, a, n + 2) /\ Waits(b, a, n + 1)
      /\ EventAt(d, v, n + 2) = v /\ EventAt(b, u, n + 1) = u
  BY <1>1 DEF Waits, EventAt
<1> HIDE DEF n
<1>5. CASE m.auction = a
  <2>1. m.event = u /\ Follows(u, v)
    BY <1>5 DEF Publishes
  <2> QED  BY <1>1, <1>2, <1>3, <1>4, <1>5, <2>1, Zenon DEF d, n
<1>6. CASE m.auction # a
  <2>1. v = u
    BY <1>6 DEF Publishes
  <2> QED  BY <1>1, <1>2, <1>3, <1>4, <1>6, <2>1, Zenon DEF d, n
<1> QED  BY <1>5, <1>6

LEMMA JoinInLine ==
  ASSUME NEW b \in Seq(Message), NEW m \in Message, NEW a, NEW u, NEW v,
         Publishes(m, a, u, v), InLine(b, a, u)
  PROVE  InLine(Append(b, m), a, v)
<1> DEFINE d == Append(b, m)
           n == Len(b)
<1>1. /\ n \in Nat /\ Len(d) = n + 1
      /\ \A k \in 1 .. n : /\ Waits(d, a, k) <=> Waits(b, a, k)
                           /\ EventAt(d, v, k) = EventAt(b, u, k)
      /\ Waits(b, a, n + 1) /\ Waits(d, a, n + 2)
      /\ m.auction = a => /\ Waits(d, a, n + 1)
                          /\ EventAt(d, v, n + 1) = EventAt(b, u, n + 1)
                          /\ Follows(EventAt(d, v, n + 1), EventAt(d, v, n + 2))
      /\ m.auction # a => /\ ~Waits(d, a, n + 1)
                          /\ EventAt(d, v, n + 2) = EventAt(b, u, n + 1)
  BY JoinedPlaces
<1> HIDE DEF d
<1>2. \A i, j \in 1 .. n + 1 :
        NextAt(b, a, i, j) => Follows(EventAt(b, u, i), EventAt(b, u, j))
  BY DEF InLine
<1> HIDE DEF n
<1> SUFFICES ASSUME NEW i \in 1 .. n + 2, NEW j \in 1 .. n + 2, NextAt(d, a, i, j)
             PROVE  Follows(EventAt(d, v, i), EventAt(d, v, j))
  <2>1. Len(d) + 1 = n + 2
    BY <1>1
  <2> QED  BY <2>1 DEF InLine, d
<1>3. /\ Waits(d, a, i) /\ Waits(d, a, j) /\ i < j
      /\ \A k \in i + 1 .. j - 1 : ~Waits(d, a, k)
  BY DEF NextAt
<1>4. CASE j \in 1 .. n
  <2>1. i \in 1 .. n /\ \A k \in i + 1 .. j - 1 : k \in 1 .. n
    BY <1>1, <1>3, <1>4
  <2>2. NextAt(b, a, i, j)
    BY <1>1, <1>3, <1>4, <2>1 DEF NextAt
  <2>3. i \in 1 .. n + 1 /\ j \in 1 .. n + 1
    BY <1>1, <1>4, <2>1
  <2> QED  BY <1>1, <1>2, <1>4, <2>1, <2>2, <2>3
<1>5. CASE m.auction = a /\ j = n + 1
  <2>1. i \in 1 .. n /\ \A k \in i + 1 .. j - 1 : k \in 1 .. n
    BY <1>1, <1>3, <1>5
  <2>2. NextAt(b, a, i, j)
    BY <1>1, <1>3, <1>5, <2>1 DEF NextAt
  <2>3. i \in 1 .. n + 1 /\ j \in 1 .. n + 1
    BY <1>1, <1>5, <2>1
  <2> QED  BY <1>1, <1>2, <1>5, <2>1, <2>2, <2>3
<1>6. CASE m.auction = a /\ j = n + 2
  <2>1. i = n + 1
    <3>1. i <= n => n + 1 \in i + 1 .. j - 1
      BY <1>1, <1>6
    <3> QED  BY <1>1, <1>3, <1>6, <3>1
  <2> QED  BY <1>1, <1>6, <2>1
<1>7. CASE m.auction # a /\ j = n + 2
  <2>1. i \in 1 .. n /\ \A k \in i + 1 .. n : k \in 1 .. n /\ k \in i + 1 .. j - 1
    BY <1>1, <1>3, <1>7
  <2>2. i < n + 1 /\ \A k \in i + 1 .. (n + 1) - 1 : ~Waits(b, a, k)
    BY <1>1, <1>3, <2>1
  <2>3. NextAt(b, a, i, n + 1)
    BY <1>1, <1>3, <2>1, <2>2 DEF NextAt
  <2>4. i \in 1 .. n + 1 /\ n + 1 \in 1 .. n + 1
    BY <1>1, <2>1
  <2> QED  BY <1>1, <1>2, <1>7, <2>1, <2>3, <2>4
<1>8. j \in 1 .. n \/ j = n + 1 \/ j = n + 2
  BY <1>1
<1> QED  BY <1>1, <1>3, <1>4, <1>5, <1>6, <1>7, <1>8

LEMMA JoinFirst ==
  ASSUME NEW b \in Seq(Message), NEW m \in Message, NEW a, NEW u, NEW v,
         Publishes(m, a, u, v),
         NEW i \in 1 .. Len(Append(b, m)) + 1, FirstAt(Append(b, m), a, i)
  PROVE  \E j \in 1 .. Len(b) + 1 :
           FirstAt(b, a, j) /\ EventAt(Append(b, m), v, i) = EventAt(b, u, j)
<1> DEFINE d == Append(b, m)
           n == Len(b)
<1>1. /\ n \in Nat /\ Len(d) = n + 1
      /\ \A k \in 1 .. n : /\ Waits(d, a, k) <=> Waits(b, a, k)
                           /\ EventAt(d, v, k) = EventAt(b, u, k)
      /\ Waits(b, a, n + 1) /\ Waits(d, a, n + 2)
      /\ m.auction = a => /\ Waits(d, a, n + 1)
                          /\ EventAt(d, v, n + 1) = EventAt(b, u, n + 1)
      /\ m.auction # a => /\ ~Waits(d, a, n + 1)
                          /\ EventAt(d, v, n + 2) = EventAt(b, u, n + 1)
  BY JoinedPlaces
<1>2. Waits(d, a, i) /\ \A k \in 1 .. i - 1 : ~Waits(d, a, k)
  BY DEF FirstAt
<1>3. i \in 1 .. Len(d) + 1
  OBVIOUS
<1> HIDE DEF d, n
<1>4. i \in 1 .. n \/ i = n + 1 \/ i = n + 2
  BY <1>1, <1>3
<1> SUFFICES \E j \in 1 .. n + 1 : FirstAt(b, a, j) /\ EventAt(d, v, i) = EventAt(b, u, j)
  BY DEF d, n
<1>5. CASE i \in 1 .. n
  <2>1. \A k \in 1 .. i - 1 : k \in 1 .. n
    BY <1>1, <1>5
  <2>2. FirstAt(b, a, i)
    BY <1>1, <1>2, <1>5, <2>1 DEF FirstAt
  <2> QED  BY <1>1, <1>5, <2>2
<1>6. CASE i = n + 1 /\ m.auction = a
  <2>1. \A k \in 1 .. i - 1 : k \in 1 .. n
    BY <1>1, <1>6
  <2>2. FirstAt(b, a, n + 1)
    BY <1>1, <1>2, <1>6, <2>1 DEF FirstAt
  <2> QED  BY <1>1, <1>6, <2>2
<1>7. CASE i = n + 2 /\ m.auction # a
  <2>1. \A k \in 1 .. (n + 1) - 1 : k \in 1 .. n /\ k \in 1 .. i - 1
    BY <1>1, <1>7
  <2>2. FirstAt(b, a, n + 1)
    BY <1>1, <1>2, <2>1 DEF FirstAt
  <2> QED  BY <1>1, <1>7, <2>2
<1>8. CASE i = n + 2 /\ m.auction = a
  <2>1. n + 1 \in 1 .. i - 1
    BY <1>1, <1>8
  <2> QED  BY <1>1, <1>2, <1>8, <2>1
<1> QED  BY <1>1, <1>2, <1>4, <1>5, <1>6, <1>7, <1>8

\* An auction that is forgotten is read again from its start.
LEMMA RestartInLine ==
  ASSUME NEW b \in Seq(Message), NEW a, NEW u, InLine(b, a, u)
  PROVE  InLine(b, a, 1)
<1>1. Len(b) \in Nat
  OBVIOUS
<1> SUFFICES ASSUME NEW i \in 1 .. Len(b) + 1, NEW j \in 1 .. Len(b) + 1,
                    NextAt(b, a, i, j)
             PROVE  Follows(EventAt(b, 1, i), EventAt(b, 1, j))
  BY DEF InLine
<1>2. i < j /\ i # Len(b) + 1
  BY <1>1 DEF NextAt
<1>3. Follows(EventAt(b, u, i), EventAt(b, u, j))
  BY DEF InLine
<1> QED  BY <1>2, <1>3 DEF EventAt, Follows

\* A client was written g, has s in its queue and was registered when the stream
\* had j events.  Event e may be the next in its queue.
MayFollow(g, s, j, e) ==
  /\ s # << >> => Follows(s[Len(s)], e)
  /\ s = << >> /\ g # << >> => Follows(g[Len(g)], e)
  /\ s = << >> /\ g = << >> => e <= j + 1

\* It was written no stream with holes, and will be written none.
Written(g, j) == Chain(g) /\ (g # << >> => g[1] <= j + 1)
Queued(g, s, j) == Chain(s) /\ (s # << >> => MayFollow(g, << >>, j, s[1]))

\* The first of a's waiting events may be the next in its queue.
Linked(g, s, j, b, a, u) ==
  \A i \in 1 .. Len(b) + 1 :
    FirstAt(b, a, i) => MayFollow(g, s, j, EventAt(b, u, i))

LEMMA ChainGrows ==
  ASSUME NEW s \in Seq(Event), NEW e \in Event, Chain(s),
         s # << >> => Follows(s[Len(s)], e)
  PROVE  Chain(Append(s, e))
<1> DEFINE d == Append(s, e)
           n == Len(s)
<1>1. /\ n \in Nat /\ Len(d) = n + 1 /\ d[n + 1] = e
      /\ \A k \in 1 .. n : d[k] = s[k]
  BY AppendParts
<1>2. n # 0 => Follows(s[n], e)
  OBVIOUS
<1>3. \A k \in 1 .. n - 1 : Follows(s[k], s[k + 1])
  BY DEF Chain
<1> HIDE DEF d, n
<1>4. \A k \in 1 .. n : Follows(d[k], d[k + 1])
  <2> TAKE k \in 1 .. n
  <2>1. CASE k = n
    BY <1>1, <1>2, <2>1
  <2>2. CASE k # n
    <3>1. k \in 1 .. n - 1 /\ k + 1 \in 1 .. n
      BY <1>1, <2>2
    <3> QED  BY <1>1, <1>3, <3>1
  <2> QED  BY <2>1, <2>2
<1>5. Len(d) - 1 = n
  BY <1>1
<1> QED  BY <1>4, <1>5 DEF Chain, d

LEMMA ChainTail ==
  ASSUME NEW s \in Seq(Event), s # << >>, Chain(s)
  PROVE  /\ Chain(Tail(s))
         /\ Tail(s) # << >> => /\ Follows(Head(s), Tail(s)[1])
                               /\ Tail(s)[Len(Tail(s))] = s[Len(s)]
         /\ Tail(s) = << >> => Head(s) = s[Len(s)]
<1> DEFINE t == Tail(s)
           n == Len(s)
<1>1. /\ n \in Nat \ {0} /\ Len(t) = n - 1 /\ Head(s) = s[1] /\ t \in Seq(Event)
      /\ \A i \in 1 .. n - 1 : t[i] = s[i + 1]
  BY TailParts
<1>2. \A k \in 1 .. n - 1 : Follows(s[k], s[k + 1])
  BY DEF Chain
<1> HIDE DEF t, n
<1>3. (t = << >> => n = 1) /\ (t # << >> => n > 1)
  <2>1. Len(t) \in Nat /\ (t = << >> <=> Len(t) = 0)
    BY <1>1
  <2> QED  BY <1>1, <2>1
<1>4. \A k \in 1 .. (n - 1) - 1 : Follows(t[k], t[k + 1])
  <2> TAKE k \in 1 .. (n - 1) - 1
  <2>1. k \in 1 .. n - 1 /\ k + 1 \in 1 .. n - 1
    BY <1>1
  <2> QED  BY <1>1, <1>2, <2>1
<1>5. Chain(t)
  BY <1>1, <1>4 DEF Chain
<1>6. ASSUME t # << >> PROVE Follows(s[1], t[1]) /\ t[n - 1] = s[n]
  <2>1. 1 \in 1 .. n - 1 /\ n - 1 \in 1 .. n - 1 /\ (n - 1) + 1 = n /\ 1 + 1 = 2
    BY <1>1, <1>3, <1>6
  <2> QED  BY <1>1, <1>2, <2>1
<1> QED  BY <1>1, <1>3, <1>5, <1>6 DEF t, n

\* The hub puts the first waiting event into the queue.
LEMMA QueueGrows ==
  ASSUME NEW g \in Seq(Event), NEW s \in Seq(Event), NEW j \in Nat, NEW e \in Event,
         Queued(g, s, j), MayFollow(g, s, j, e)
  PROVE  /\ Queued(g, Append(s, e), j)
         /\ \A f : Follows(e, f) => MayFollow(g, Append(s, e), j, f)
<1> DEFINE d == Append(s, e)
<1>1. /\ d # << >> /\ d[Len(d)] = e /\ (s = << >> => d[1] = e)
      /\ (s # << >> => d[1] = s[1])
  BY AppendParts
<1>2. Chain(d)
  BY ChainGrows DEF Queued, MayFollow
<1> HIDE DEF d
<1>3. MayFollow(g, << >>, j, d[1])
  BY <1>1 DEF Queued, MayFollow
<1>4. \A f : Follows(e, f) => MayFollow(g, d, j, f)
  BY <1>1 DEF MayFollow
<1> QED  BY <1>2, <1>3, <1>4 DEF Queued, d

\* The writer takes an event from the queue and writes it.
LEMMA QueueWritten ==
  ASSUME NEW g \in Seq(Event), NEW s \in Seq(Event), s # << >>, NEW j \in Nat,
         Written(g, j), Queued(g, s, j)
  PROVE  /\ Written(Append(g, Head(s)), j)
         /\ Queued(Append(g, Head(s)), Tail(s), j)
         /\ \A f : MayFollow(g, s, j, f) => MayFollow(Append(g, Head(s)), Tail(s), j, f)
<1> DEFINE h == Head(s)
           d == Append(g, h)
           t == Tail(s)
<1>1. h \in Event /\ h = s[1]
  BY TailParts
<1>2. /\ d # << >> /\ d[Len(d)] = h /\ (g = << >> => d[1] = h)
      /\ (g # << >> => d[1] = g[1])
  BY <1>1, AppendParts
<1>3. MayFollow(g, << >>, j, h)
  BY <1>1 DEF Queued
<1>4. g # << >> => Follows(g[Len(g)], h)
  BY <1>3 DEF MayFollow
<1>5. Chain(d)
  BY <1>1, <1>4, ChainGrows DEF Written
<1>6. /\ Chain(t)
      /\ t # << >> => Follows(h, t[1]) /\ t[Len(t)] = s[Len(s)]
      /\ t = << >> => h = s[Len(s)]
  BY ChainTail DEF Queued
<1> HIDE DEF h, d, t
<1>7. d[1] <= j + 1
  BY <1>2, <1>3 DEF Written, MayFollow
<1>8. t # << >> => MayFollow(d, << >>, j, t[1])
  BY <1>2, <1>6 DEF MayFollow
<1>9. ASSUME NEW f, MayFollow(g, s, j, f) PROVE MayFollow(d, t, j, f)
  BY <1>2, <1>6, <1>9 DEF MayFollow
<1> QED  BY <1>5, <1>6, <1>7, <1>8, <1>9 DEF Written, Queued, h, d, t

\* The events that wait may go on joining the queue after each of these steps.
LEMMA LinkedSteps ==
  ASSUME NEW g \in Seq(Event), NEW s \in Seq(Event), NEW j \in Nat,
         NEW b \in Seq(Message), NEW a, NEW u, Linked(g, s, j, b, a, u)
  PROVE  /\ Linked(g, s, j, b, a, 1)
         /\ \A m \in Message : \A v :
              Publishes(m, a, u, v) => Linked(g, s, j, Append(b, m), a, v)
         /\ b # << >> /\ Head(b).auction # a => Linked(g, s, j, Tail(b), a, u)
<1>1. Linked(g, s, j, b, a, 1)
  <2> SUFFICES ASSUME NEW i \in 1 .. Len(b) + 1, FirstAt(b, a, i)
               PROVE  MayFollow(g, s, j, EventAt(b, 1, i))
    BY DEF Linked
  <2>1. CASE i = Len(b) + 1
    BY <2>1 DEF EventAt, MayFollow, Follows
  <2>2. CASE i # Len(b) + 1
    BY <2>2 DEF EventAt, Linked
  <2> QED  BY <2>1, <2>2
<1>2. ASSUME NEW m \in Message, NEW v, Publishes(m, a, u, v)
      PROVE  Linked(g, s, j, Append(b, m), a, v)
  <2> SUFFICES ASSUME NEW i \in 1 .. Len(Append(b, m)) + 1, FirstAt(Append(b, m), a, i)
               PROVE  MayFollow(g, s, j, EventAt(Append(b, m), v, i))
    BY DEF Linked
  <2>1. PICK k \in 1 .. Len(b) + 1 :
          FirstAt(b, a, k) /\ EventAt(Append(b, m), v, i) = EventAt(b, u, k)
    BY <1>2, JoinFirst
  <2>2. MayFollow(g, s, j, EventAt(b, u, k))
    BY <2>1 DEF Linked
  <2> QED  BY <2>1, <2>2
<1>3. ASSUME b # << >>, Head(b).auction # a PROVE Linked(g, s, j, Tail(b), a, u)
  <2> SUFFICES ASSUME NEW i \in 1 .. Len(Tail(b)) + 1, FirstAt(Tail(b), a, i)
               PROVE  MayFollow(g, s, j, EventAt(Tail(b), u, i))
    BY DEF Linked
  <2>1. /\ i + 1 \in 1 .. Len(b) + 1 /\ FirstAt(b, a, i + 1)
        /\ EventAt(Tail(b), u, i) = EventAt(b, u, i + 1)
    BY <1>3, TailFirst
  <2>2. MayFollow(g, s, j, EventAt(b, u, i + 1))
    BY <2>1 DEF Linked
  <2> QED  BY <2>1, <2>2
<1> QED  BY <1>1, <1>2, <1>3

\* The head of the channel joins the queue of a client of its auction.
LEMMA HeadIsQueued ==
  ASSUME NEW g \in Seq(Event), NEW s \in Seq(Event), NEW j \in Nat,
         NEW b \in Seq(Message), b # << >>, NEW u,
         Queued(g, s, j), Linked(g, s, j, b, Head(b).auction, u),
         InLine(b, Head(b).auction, u)
  PROVE  /\ Queued(g, Append(s, Head(b).event), j)
         /\ Linked(g, Append(s, Head(b).event), j, Tail(b), Head(b).auction, u)
<1> DEFINE a == Head(b).auction
           e == Head(b).event
<1>1. /\ Head(b) \in Message /\ Head(b) = b[1] /\ Len(b) \in Nat \ {0}
  BY TailParts
<1>2. e \in Event
  BY <1>1 DEF Message
<1>3. FirstAt(b, a, 1) /\ EventAt(b, u, 1) = e /\ 1 \in 1 .. Len(b) + 1
  BY <1>1 DEF FirstAt, Waits, EventAt
<1>4. MayFollow(g, s, j, e)
  BY <1>3 DEF Linked
<1> HIDE DEF e
<1>5. /\ Queued(g, Append(s, e), j)
      /\ \A f : Follows(e, f) => MayFollow(g, Append(s, e), j, f)
  BY <1>2, <1>4, QueueGrows
<1>6. Linked(g, Append(s, e), j, Tail(b), a, u)
  <2> SUFFICES ASSUME NEW i \in 1 .. Len(Tail(b)) + 1, FirstAt(Tail(b), a, i)
               PROVE  MayFollow(g, Append(s, e), j, EventAt(Tail(b), u, i))
    BY DEF Linked
  <2>1. /\ i + 1 \in 1 .. Len(b) + 1 /\ NextAt(b, a, 1, i + 1)
        /\ EventAt(Tail(b), u, i) = EventAt(b, u, i + 1)
    BY TailFirst
  <2>2. Follows(e, EventAt(b, u, i + 1))
    BY <1>3, <2>1 DEF InLine
  <2> QED  BY <1>5, <2>1, <2>2
<1> QED  BY <1>5, <1>6 DEF e

\* The first waiting event may be the first of a client registered now.
LEMMA NewIsLinked ==
  ASSUME NEW j \in Nat, NEW b \in Seq(Message), NEW a, NEW u, u <= j + 1,
         \A i \in 1 .. Len(b) : b[i].auction = a => b[i].event <= j + 1
  PROVE  Linked(<< >>, << >>, j, b, a, u)
<1> SUFFICES ASSUME NEW i \in 1 .. Len(b) + 1, FirstAt(b, a, i)
             PROVE  EventAt(b, u, i) <= j + 1
  BY DEF Linked, MayFollow
<1>1. Len(b) \in Nat
  OBVIOUS
<1>2. CASE i = Len(b) + 1
  BY <1>2 DEF EventAt
<1>3. CASE i # Len(b) + 1
  <2>1. i \in 1 .. Len(b) /\ b[i].auction = a
    BY <1>1, <1>3 DEF FirstAt, Waits
  <2> QED  BY <1>3, <2>1 DEF EventAt
<1> QED  BY <1>2, <1>3

-----------------------------------------------------------------------------
(* A connection is registered once.                                        *)

InRegister(r, c) == \E i \in 1 .. Len(r) : r[i] = c

\* The hub has not taken the registration of c yet.
Registering(c) == reader[c] \in {"none", "register"} \/ InRegister(register, c)

\* A client the hub does not know yet has no event, no registration waits twice,
\* and a client is subscribed to its own auction alone.
ConnInv ==
  /\ \A c \in Clients : conn[c] = "none" => reader[c] = "none"
  /\ \A c \in Clients : Registering(c) => send[c] = << >> /\ got[c] = << >>
  /\ \A c \in Clients : Registering(c) => \A a \in Auctions : c \notin subs[a]
  /\ \A i, j \in 1 .. Len(register) : register[i] = register[j] => i = j
  /\ \A c \in Clients :
       InRegister(register, c) => reader[c] \notin {"none", "register"}
  /\ \A a \in Auctions : \A c \in subs[a] : AuctionOf[c] = a

\* The parts of ConnInv that a step may disturb that leaves the registrations
\* alone, starts no reader and subscribes nobody.
LEMMA ConnKept ==
  ASSUME TypeOK, ConnInv, UNCHANGED register,
         \A c \in Clients : conn'[c] = "none" => conn[c] = "none" /\ reader'[c] = reader[c],
         \A c \in Clients : reader'[c] \in {"none", "register"} <=>
                              reader[c] \in {"none", "register"},
         \A a \in Auctions : subs'[a] \subseteq subs[a],
         \A c \in Clients : Registering(c) => send'[c] = << >> /\ got'[c] = << >>
  PROVE  ConnInv'
<1>1. \A c \in Clients : Registering(c)' <=> Registering(c)
  BY DEF Registering
<1>2. \A c \in Clients : (conn[c] = "none")' => (reader[c] = "none")'
  BY DEF ConnInv
<1>3. \A c \in Clients : Registering(c)' => (send[c] = << >> /\ got[c] = << >>)'
  BY <1>1
<1>4. \A c \in Clients : Registering(c)' => \A a \in Auctions : c \notin subs'[a]
  BY <1>1 DEF ConnInv
<1>5. \A i, j \in 1 .. Len(register') : register'[i] = register'[j] => i = j
  BY DEF ConnInv
<1>6. \A c \in Clients :
        InRegister(register', c) => reader'[c] \notin {"none", "register"}
  BY DEF ConnInv
<1>7. \A a \in Auctions : \A c \in subs'[a] : AuctionOf[c] = a
  BY DEF ConnInv
<1> QED  BY <1>2, <1>3, <1>4, <1>5, <1>6, <1>7 DEF ConnInv

LEMMA ConnStep ==
  ASSUME TypeOK, ConnInv, Next
  PROVE  ConnInv'
<1>1. \A c \in Clients : Registering(c) => send[c] = << >> /\ got[c] = << >>
  BY DEF ConnInv
<1>2. CASE Next /\ ~HubStep
  <2>1. UNCHANGED <<subs, register, send, conn, reader, got>>
    BY <1>2 DEF Next, ReadEvents, AppendEvent, Publish, ShardFails, ShardRecovers,
                Poll, ReadShard, ShardError, hubVars
  <2> QED  BY <2>1, <1>1, ConnKept
<1>3. ASSUME NEW c \in Clients, Upgrade(c) PROVE ConnInv'
  <2>1. /\ conn' = [conn EXCEPT ![c] = "open"]
        /\ reader' = [reader EXCEPT ![c] = "register"]
        /\ UNCHANGED <<subs, register, send, got>> /\ conn[c] = "none"
    BY <1>3 DEF Upgrade
  <2>2. reader[c] = "none"
    BY <2>1 DEF ConnInv
  <2>3. \A d \in Clients : reader'[d] \in {"none", "register"} <=>
                             reader[d] \in {"none", "register"}
    BY <2>1, <2>2 DEF TypeOK
  <2>4. \A d \in Clients : conn'[d] = "none" => conn[d] = "none" /\ reader'[d] = reader[d]
    BY <2>1 DEF TypeOK
  <2> QED  BY <1>1, <2>1, <2>3, <2>4, ConnKept
<1>4. ASSUME NEW c \in Clients, PeerGone(c) \/ ReadFails(c) \/ ReaderCloses(c)
                                  \/ Ping(c) \/ WriterCloses(c)
      PROVE  ConnInv'
  <2>1. /\ UNCHANGED <<subs, register, send, got>>
        /\ conn' \in {conn, [conn EXCEPT ![c] = "gone"]}
    BY <1>4 DEF PeerGone, ReadFails, ReaderCloses, Ping, WriterCloses, CloseClient
  <2>2. \/ reader' = reader
        \/ reader[c] = "read" /\ reader' = [reader EXCEPT ![c] = "close"] /\ conn' = conn
           /\ conn[c] = "gone"
        \/ reader[c] = "close" /\ reader' = [reader EXCEPT ![c] = "done"]
           /\ conn' = [conn EXCEPT ![c] = "gone"]
    BY <1>4 DEF PeerGone, ReadFails, ReaderCloses, Ping, WriterCloses, CloseClient
  <2>3. \A d \in Clients : reader'[d] \in {"none", "register"} <=>
                             reader[d] \in {"none", "register"}
    BY <2>2 DEF TypeOK
  <2>4. \A d \in Clients : conn'[d] = "none" => conn[d] = "none" /\ reader'[d] = reader[d]
    BY <2>1, <2>2 DEF TypeOK
  <2> QED  BY <1>1, <2>1, <2>3, <2>4, ConnKept
<1>5. ASSUME NEW c \in Clients, Register(c) PROVE ConnInv'
  <2>1. /\ reader[c] = "register"
        /\ register' = Append(register, c)
        /\ reader' = [reader EXCEPT ![c] = "read"]
        /\ UNCHANGED <<subs, send, conn, got>>
    BY <1>5 DEF Register
  <2> DEFINE n == Len(register)
  <2>2. /\ n \in Nat /\ Len(register') = n + 1 /\ register'[n + 1] = c
        /\ \A i \in 1 .. n : register'[i] = register[i]
    BY <2>1, AppendParts DEF TypeOK
  <2>3. Registering(c) /\ ~InRegister(register, c)
    BY <2>1 DEF Registering, ConnInv
  <2>4. \A i \in 1 .. n : register[i] # c
    BY <2>3 DEF InRegister
  <2>5. \A i, k \in 1 .. n : register[i] = register[k] => i = k
    BY DEF ConnInv
  <2>6. \A d : InRegister(register', d) => InRegister(register, d) \/ d = c
    <3> HIDE DEF n
    <3>1. \A i \in 1 .. n + 1 : i \in 1 .. n \/ i = n + 1
      BY <2>2
    <3> QED  BY <2>2, <3>1 DEF InRegister, n
  <2> HIDE DEF n
  <2>7. \A d \in Clients : Registering(d)' => Registering(d)
    <3> SUFFICES ASSUME NEW d \in Clients, Registering(d)' PROVE Registering(d)
      OBVIOUS
    <3>1. CASE d = c
      BY <2>3, <3>1
    <3>2. CASE d # c
      BY <2>1, <2>6, <3>2 DEF Registering, TypeOK
    <3> QED  BY <3>1, <3>2
  <2>8. \A i, k \in 1 .. n + 1 : register'[i] = register'[k] => i = k
    BY <2>2, <2>4, <2>5
  <2>9. \A d \in Clients :
          InRegister(register', d) => reader'[d] \notin {"none", "register"}
    BY <2>1, <2>6 DEF ConnInv, TypeOK
  <2>10. \A d \in Clients : (conn[d] = "none")' => (reader[d] = "none")'
    BY <2>1 DEF ConnInv, TypeOK
  <2>11. \A d \in Clients : Registering(d)' => (send[d] = << >> /\ got[d] = << >>)'
    BY <1>1, <2>1, <2>7
  <2>12. \A d \in Clients : Registering(d)' => \A a \in Auctions : d \notin subs'[a]
    BY <2>1, <2>7 DEF ConnInv
  <2>13. \A a \in Auctions : \A d \in subs'[a] : AuctionOf[d] = a
    BY <2>1 DEF ConnInv
  <2> QED  BY <2>2, <2>8, <2>9, <2>10, <2>11, <2>12, <2>13 DEF ConnInv
<1>6. ASSUME NEW c \in Clients, Write(c) PROVE ConnInv'
  <2>1. /\ UNCHANGED <<subs, register, conn, reader>> /\ send[c] # << >>
        /\ \A d \in Clients : d # c => send'[d] = send[d] /\ got'[d] = got[d]
    BY <1>6 DEF Write, TypeOK
  <2>2. \A d \in Clients : Registering(d) => send'[d] = << >> /\ got'[d] = << >>
    BY <1>1, <2>1
  <2> QED  BY <2>1, <2>2, ConnKept
<1>7. CASE HubRegister
  <2> DEFINE c == Head(register)
             n == Len(register)
  <2>1. /\ register # << >> /\ register' = Tail(register)
        /\ subs' = [subs EXCEPT ![AuctionOf[c]] = @ \cup {c}]
        /\ UNCHANGED <<send, conn, reader, got>>
    BY <1>7 DEF HubRegister
  <2>2. /\ c \in Clients /\ c = register[1] /\ n \in Nat \ {0}
        /\ Len(register') = n - 1
        /\ \A i \in 1 .. n - 1 : register'[i] = register[i + 1]
    BY <2>1, TailParts DEF TypeOK
  <2> HIDE DEF c
  <2>3. \A i, k \in 1 .. n : register[i] = register[k] => i = k
    BY DEF ConnInv
  <2>4. InRegister(register, c)
    BY <2>2 DEF InRegister
  <2>5. \A d : InRegister(register', d) => InRegister(register, d)
    <3> SUFFICES ASSUME NEW d, NEW i \in 1 .. n - 1, register'[i] = d
                 PROVE  InRegister(register, d)
      BY <2>2 DEF InRegister
    <3>1. i + 1 \in 1 .. n /\ register[i + 1] = d
      <4> HIDE DEF n
      <4> QED  BY <2>2
    <3> QED  BY <3>1 DEF InRegister
  <2> HIDE DEF n
  <2>6. \A i, k \in 1 .. n - 1 : register'[i] = register'[k] => i = k
    <3> TAKE i, k \in 1 .. n - 1
    <3>1. i + 1 \in 1 .. n /\ k + 1 \in 1 .. n
      BY <2>2
    <3> QED  BY <2>2, <2>3, <3>1
  <2>7. ~InRegister(register', c)
    <3> SUFFICES ASSUME NEW i \in 1 .. n - 1, register'[i] = c PROVE FALSE
      BY <2>2 DEF InRegister
    <3>1. i + 1 \in 1 .. n /\ 1 \in 1 .. n /\ i + 1 # 1
      BY <2>2
    <3> QED  BY <2>2, <2>3, <3>1
  <2>8. reader[c] \notin {"none", "register"}
    BY <2>2, <2>4 DEF ConnInv
  <2>9. \A d \in Clients : Registering(d)' => Registering(d) /\ d # c
    BY <2>1, <2>5, <2>7, <2>8 DEF Registering
  <2>10. \A d \in Clients : Registering(d)' => \A a \in Auctions : d \notin subs'[a]
    BY <2>1, <2>9 DEF ConnInv, TypeOK
  <2>11. \A a \in Auctions : \A d \in subs'[a] : AuctionOf[d] = a
    BY <2>1 DEF ConnInv, TypeOK
  <2>12. \A d \in Clients : (conn[d] = "none")' => (reader[d] = "none")'
    BY <2>1 DEF ConnInv
  <2>13. \A d \in Clients : Registering(d)' => (send[d] = << >> /\ got[d] = << >>)'
    BY <1>1, <2>1, <2>9
  <2>14. \A d \in Clients :
           InRegister(register', d) => reader'[d] \notin {"none", "register"}
    BY <2>1, <2>5 DEF ConnInv
  <2> QED  BY <2>2, <2>6, <2>10, <2>11, <2>12, <2>13, <2>14 DEF ConnInv
<1>8. CASE HubUnregister
  <2>1. UNCHANGED <<register, send, conn, reader, got>>
        /\ \A a \in Auctions : subs'[a] \subseteq subs[a]
    BY <1>8 DEF HubUnregister, TypeOK
  <2> QED  BY <1>1, <2>1, ConnKept
<1>9. CASE HubBroadcast
  <2>1. UNCHANGED <<subs, register, conn, reader, got>>
    BY <1>9 DEF HubBroadcast
  <2>2. \A d \in Clients : Registering(d) => send'[d] = send[d]
    <3>1. Head(broadcast).auction \in Auctions
      <4>1. broadcast \in Seq(Message) /\ broadcast # << >>
        BY <1>9 DEF HubBroadcast, TypeOK, Message, Event
      <4>2. Head(broadcast) \in Message
        BY <4>1, TailParts
      <4> QED  BY <4>2 DEF Message
    <3>2. \A d \in Clients : Registering(d) => d \notin subs[Head(broadcast).auction]
      BY <3>1 DEF ConnInv
    <3> QED  BY <1>9, <3>2 DEF HubBroadcast
  <2> QED  BY <1>1, <2>1, <2>2, ConnKept
<1>10. ASSUME NEW c \in Clients, HubDrop(c) PROVE ConnInv'
  <2>1. /\ UNCHANGED <<register, send, reader, got>>
        /\ conn' = [conn EXCEPT ![c] = "gone"]
        /\ \A a \in Auctions : subs'[a] \subseteq subs[a]
    BY <1>10 DEF HubDrop, CloseClient, TypeOK
  <2>2. \A d \in Clients : conn'[d] = "none" => conn[d] = "none"
    BY <2>1 DEF TypeOK
  <2> QED  BY <1>1, <2>1, <2>2, ConnKept
<1> QED
  BY <1>2, <1>3, <1>4, <1>5, <1>6, <1>7, <1>8, <1>9, <1>10
  DEF HubStep, HubNext, HubRun, ReadPump, WritePump

-----------------------------------------------------------------------------
(* The inductive invariant of NoHoles.                                     *)

\* The next event to be read of a stream with offset o.
Upcoming(o) == IF o = Absent THEN 1 ELSE o + 1

\* The writer goes on writing to the connection of c.
Live(c) == writer[c] \notin {"close", "done"}

\* The events of each auction wait in order.
LineInv == \A a \in Auctions : InLine(broadcast, a, Upcoming(offsets[a]))

\* No client was written, or will be written, a stream with holes.
SentInv ==
  \A c \in Clients : /\ Written(got[c], joinedAt[c])
                     /\ Live(c) => Queued(got[c], send[c], joinedAt[c])

\* The waiting events of its auction go on where the queue of a subscriber ends,
\* unless the hub is about to drop it.
LinkOf(c) == Linked(got[c], send[c], joinedAt[c], broadcast, AuctionOf[c],
                    Upcoming(offsets[AuctionOf[c]]))
LinkInv ==
  \A c \in Clients : Live(c) /\ c \in subs[AuctionOf[c]] \ dropping => LinkOf(c)

FanoutInv == ConnInv /\ LineInv /\ SentInv /\ LinkInv

\* What the proofs below need of the types.
LEMMA ClientTypes ==
  ASSUME TypeOK
  PROVE  /\ broadcast \in Seq(Message)
         /\ \A c \in Clients : /\ got[c] \in Seq(Event) /\ send[c] \in Seq(Event)
                               /\ joinedAt[c] \in Nat /\ AuctionOf[c] \in Auctions
  BY HubAssumption DEF TypeOK, Message, Event

\* The steps that leave the channel, the queues and the subscriptions alone.
\* An auction that is forgotten or watched again starts at its first event.
LEMMA FanoutIdle ==
  ASSUME TypeOK, FanoutInv,
         UNCHANGED <<broadcast, got, send, joinedAt>>,
         \A a \in Auctions : Upcoming(offsets'[a]) \in {Upcoming(offsets[a]), 1},
         \A c \in Clients : Live(c)' => Live(c) \/ Registering(c),
         \A c \in Clients : c \in subs'[AuctionOf[c]] \ dropping' =>
                              c \in subs[AuctionOf[c]] \ dropping
  PROVE  LineInv' /\ SentInv' /\ LinkInv'
<1>1. LineInv'
  <2> SUFFICES ASSUME NEW a \in Auctions
               PROVE  InLine(broadcast, a, Upcoming(offsets'[a]))
    BY DEF LineInv
  <2>1. InLine(broadcast, a, Upcoming(offsets[a]))
    BY DEF FanoutInv, LineInv
  <2>2. InLine(broadcast, a, 1)
    BY <2>1, RestartInLine, ClientTypes
  <2> QED  BY <2>1, <2>2
<1>2. SentInv'
  <2>1. \A c \in Clients : Registering(c) => Queued(got[c], send[c], joinedAt[c])
    BY DEF FanoutInv, ConnInv, Queued, Chain
  <2> QED  BY <2>1 DEF FanoutInv, SentInv
<1>3. LinkInv'
  <2> SUFFICES ASSUME NEW c \in Clients, Live(c)', c \in subs'[AuctionOf[c]] \ dropping'
               PROVE  Linked(got[c], send[c], joinedAt[c], broadcast, AuctionOf[c],
                             Upcoming(offsets'[AuctionOf[c]]))
    BY DEF LinkInv, LinkOf
  <2>1. AuctionOf[c] \in Auctions
    BY ClientTypes
  <2>2. Live(c)
    BY <2>1 DEF FanoutInv, ConnInv
  <2>3. Linked(got[c], send[c], joinedAt[c], broadcast, AuctionOf[c],
               Upcoming(offsets[AuctionOf[c]]))
    BY <2>2 DEF FanoutInv, LinkInv, LinkOf
  <2>4. Linked(got[c], send[c], joinedAt[c], broadcast, AuctionOf[c], 1)
    BY <2>3, LinkedSteps, ClientTypes
  <2> QED  BY <2>1, <2>3, <2>4
<1> QED  BY <1>1, <1>2, <1>3

\* Publish: the event that comes next joins the channel.
LEMMA FanoutPublish ==
  ASSUME TypeOK, ReadInv, FanoutInv, NEW a \in Auctions, Publish(a)
  PROVE  LineInv' /\ SentInv' /\ LinkInv'
<1> DEFINE e == Head(batch[a])
           m == [auction |-> a, event |-> e]
<1>1. /\ batch[a] \in Seq(Event) /\ batch[a] # << >>
      /\ offsets' = [offsets EXCEPT ![a] = e]
      /\ broadcast' = Append(broadcast, m)
      /\ UNCHANGED <<subs, dropping, send, writer, got, joinedAt>>
  BY DEF Publish, Broadcast, Event, TypeOK
<1>2. /\ e \in Event /\ e = batch[a][1] /\ 1 \in 1 .. Len(batch[a])
  BY <1>1, TailParts
<1>3. e = offsets[a] + 1 /\ offsets[a] # Absent
  BY <1>1, <1>2 DEF ReadInv
<1> HIDE DEF e
<1>4. m \in Message /\ m.auction = a /\ m.event = e
  BY <1>2 DEF Message
<1> HIDE DEF m
<1>5. \A d \in Auctions : Publishes(m, d, Upcoming(offsets[d]), Upcoming(offsets'[d]))
  <2> TAKE d \in Auctions
  <2>1. CASE d = a
    <3>1. offsets'[d] = e /\ e # Absent
      BY <1>1, <1>2, <2>1 DEF TypeOK, Event, Absent
    <3> QED  BY <1>3, <1>4, <2>1, <3>1 DEF Publishes, Upcoming, Follows
  <2>2. CASE d # a
    <3>1. offsets'[d] = offsets[d]
      BY <1>1, <2>2 DEF TypeOK
    <3> QED  BY <1>4, <2>2, <3>1 DEF Publishes
  <2> QED  BY <2>1, <2>2
<1>6. broadcast \in Seq(Message)
  BY ClientTypes
<1>7. LineInv'
  <2> SUFFICES ASSUME NEW d \in Auctions
               PROVE  InLine(broadcast', d, Upcoming(offsets'[d]))
    BY DEF LineInv
  <2>1. InLine(broadcast, d, Upcoming(offsets[d]))
    BY DEF FanoutInv, LineInv
  <2> QED  BY <1>1, <1>4, <1>5, <1>6, <2>1, JoinInLine
<1>8. SentInv'
  BY <1>1 DEF FanoutInv, SentInv, Live
<1>9. LinkInv'
  <2> SUFFICES ASSUME NEW c \in Clients, Live(c), c \in subs[AuctionOf[c]] \ dropping
               PROVE  Linked(got[c], send[c], joinedAt[c], broadcast', AuctionOf[c],
                             Upcoming(offsets'[AuctionOf[c]]))
    BY <1>1 DEF LinkInv, LinkOf, Live
  <2>1. Linked(got[c], send[c], joinedAt[c], broadcast, AuctionOf[c],
               Upcoming(offsets[AuctionOf[c]]))
    BY DEF FanoutInv, LinkInv, LinkOf
  <2>2. /\ got[c] \in Seq(Event) /\ send[c] \in Seq(Event) /\ joinedAt[c] \in Nat
        /\ AuctionOf[c] \in Auctions
    BY ClientTypes
  <2> QED  BY <1>1, <1>4, <1>5, <1>6, <2>1, <2>2, LinkedSteps
<1> QED  BY <1>7, <1>8, <1>9

\* Write: the writer takes an event from its queue, and writes it or gives up.
LEMMA FanoutWrite ==
  ASSUME TypeOK, FanoutInv, NEW c \in Clients, Write(c),
         UNCHANGED <<joinedAt, offsets>>
  PROVE  LineInv' /\ SentInv' /\ LinkInv'
<1>1. /\ Live(c) /\ send[c] # << >> /\ send'[c] = Tail(send[c])
      /\ UNCHANGED <<subs, broadcast, dropping>>
      /\ Live(c)' => got'[c] = Append(got[c], Head(send[c]))
      /\ ~Live(c)' => got'[c] = got[c]
      /\ \A d \in Clients : d # c => /\ send'[d] = send[d] /\ got'[d] = got[d]
                                     /\ Live(d)' <=> Live(d)
  BY DEF Write, TypeOK, Live
<1>2. /\ got[c] \in Seq(Event) /\ send[c] \in Seq(Event) /\ joinedAt[c] \in Nat
  BY ClientTypes
<1>3. Written(got[c], joinedAt[c]) /\ Queued(got[c], send[c], joinedAt[c])
  BY <1>1 DEF FanoutInv, SentInv
<1>4. /\ Written(Append(got[c], Head(send[c])), joinedAt[c])
      /\ Queued(Append(got[c], Head(send[c])), Tail(send[c]), joinedAt[c])
      /\ \A f : MayFollow(got[c], send[c], joinedAt[c], f) =>
           MayFollow(Append(got[c], Head(send[c])), Tail(send[c]), joinedAt[c], f)
  BY <1>1, <1>2, <1>3, QueueWritten
<1>5. LineInv'
  BY <1>1 DEF FanoutInv, LineInv
<1>6. SentInv'
  <2> SUFFICES ASSUME NEW d \in Clients
               PROVE  /\ Written(got'[d], joinedAt[d])
                      /\ Live(d)' => Queued(got'[d], send'[d], joinedAt[d])
    BY DEF SentInv
  <2>1. CASE d = c
    BY <1>1, <1>3, <1>4, <2>1
  <2>2. CASE d # c
    BY <1>1, <2>2 DEF FanoutInv, SentInv
  <2> QED  BY <2>1, <2>2
<1>7. LinkInv'
  <2> SUFFICES ASSUME NEW d \in Clients, Live(d)', d \in subs[AuctionOf[d]] \ dropping
               PROVE  Linked(got'[d], send'[d], joinedAt[d], broadcast, AuctionOf[d],
                             Upcoming(offsets[AuctionOf[d]]))
    BY <1>1 DEF LinkInv, LinkOf
  <2>1. Linked(got[d], send[d], joinedAt[d], broadcast, AuctionOf[d],
               Upcoming(offsets[AuctionOf[d]]))
    BY <1>1 DEF FanoutInv, LinkInv, LinkOf
  <2>2. CASE d = c
    <3>1. got'[c] = Append(got[c], Head(send[c])) /\ send'[c] = Tail(send[c])
      BY <1>1, <2>2
    <3> QED  BY <1>4, <2>1, <2>2, <3>1 DEF Linked
  <2>3. CASE d # c
    BY <1>1, <2>1, <2>3
  <2> QED  BY <2>2, <2>3
<1> QED  BY <1>5, <1>6, <1>7

\* HubBroadcast: the head of the channel joins the queues of its auction's
\* clients that have room; the hub is about to drop the others.
LEMMA FanoutBroadcast ==
  ASSUME TypeOK, FanoutInv, HubBroadcast, UNCHANGED <<joinedAt, offsets>>
  PROVE  LineInv' /\ SentInv' /\ LinkInv'
<1> DEFINE a == Head(broadcast).auction
           e == Head(broadcast).event
<1>1. /\ broadcast # << >> /\ broadcast' = Tail(broadcast)
      /\ UNCHANGED <<subs, writer, got>> /\ dropping = {}
      /\ dropping' = {c \in subs[a] : Len(send[c]) >= QueueDepth}
      /\ \A c \in Clients : c \in subs[a] /\ Len(send[c]) < QueueDepth =>
                              send'[c] = Append(send[c], e)
      /\ \A c \in Clients : c \notin subs[a] \/ Len(send[c]) >= QueueDepth =>
                              send'[c] = send[c]
  BY HubAssumption, ClientTypes DEF HubBroadcast, Drops
<1>2. /\ broadcast \in Seq(Message) /\ Head(broadcast) \in Message
  BY <1>1, ClientTypes, TailParts
<1>3. a \in Auctions /\ InLine(broadcast, a, Upcoming(offsets[a]))
  BY <1>2 DEF Message, FanoutInv, LineInv
<1>4. \A c \in Clients : (Live(c)' <=> Live(c)) /\ (c \in subs[a] => AuctionOf[c] = a)
  BY <1>1, <1>3 DEF Live, FanoutInv, ConnInv
<1>5. ASSUME NEW c \in Clients, Live(c), c \in subs[a], Len(send[c]) < QueueDepth
      PROVE  /\ Queued(got[c], Append(send[c], e), joinedAt[c])
             /\ Linked(got[c], Append(send[c], e), joinedAt[c], Tail(broadcast), a,
                       Upcoming(offsets[a]))
  <2>1. /\ Queued(got[c], send[c], joinedAt[c])
        /\ Linked(got[c], send[c], joinedAt[c], broadcast, a, Upcoming(offsets[a]))
    BY <1>1, <1>4, <1>5 DEF FanoutInv, SentInv, LinkInv, LinkOf
  <2>2. got[c] \in Seq(Event) /\ send[c] \in Seq(Event) /\ joinedAt[c] \in Nat
    BY ClientTypes
  <2> QED  BY <1>1, <1>2, <1>3, <2>1, <2>2, HeadIsQueued
<1> HIDE DEF a, e
<1>6. LineInv'
  <2> SUFFICES ASSUME NEW d \in Auctions
               PROVE  InLine(Tail(broadcast), d, Upcoming(offsets[d]))
    BY <1>1 DEF LineInv
  <2>1. InLine(broadcast, d, Upcoming(offsets[d]))
    BY DEF FanoutInv, LineInv
  <2> QED  BY <1>1, <1>2, <2>1, TailInLine
<1>7. SentInv'
  <2> SUFFICES ASSUME NEW c \in Clients
               PROVE  /\ Written(got[c], joinedAt[c])
                      /\ Live(c) => Queued(got[c], send'[c], joinedAt[c])
    BY <1>1, <1>4 DEF SentInv
  <2>1. /\ Written(got[c], joinedAt[c])
        /\ Live(c) => Queued(got[c], send[c], joinedAt[c])
    BY DEF FanoutInv, SentInv
  <2>2. CASE c \in subs[a] /\ Len(send[c]) < QueueDepth
    BY <1>1, <1>5, <2>1, <2>2
  <2>3. CASE c \notin subs[a] \/ Len(send[c]) >= QueueDepth
    BY <1>1, <2>1, <2>3
  <2>4. Len(send[c]) \in Nat /\ QueueDepth \in Nat
    BY ClientTypes, HubAssumption
  <2> QED  BY <2>2, <2>3, <2>4
<1>8. LinkInv'
  <2> SUFFICES ASSUME NEW c \in Clients, Live(c), c \in subs[AuctionOf[c]] \ dropping'
               PROVE  Linked(got[c], send'[c], joinedAt[c], Tail(broadcast),
                             AuctionOf[c], Upcoming(offsets[AuctionOf[c]]))
    BY <1>1, <1>4 DEF LinkInv, LinkOf
  <2>1. /\ got[c] \in Seq(Event) /\ send[c] \in Seq(Event) /\ joinedAt[c] \in Nat
        /\ Len(send[c]) \in Nat /\ QueueDepth \in Nat
    BY ClientTypes, HubAssumption
  <2>2. CASE AuctionOf[c] = a
    <3>1. Len(send[c]) < QueueDepth
      BY <1>1, <2>1, <2>2
    <3> QED  BY <1>1, <1>5, <2>2, <3>1
  <2>3. CASE AuctionOf[c] # a
    <3>1. send'[c] = send[c]
      BY <1>1, <1>4, <2>3
    <3>2. Linked(got[c], send[c], joinedAt[c], broadcast, AuctionOf[c],
                 Upcoming(offsets[AuctionOf[c]]))
      BY <1>1 DEF FanoutInv, LinkInv, LinkOf
    <3>3. Head(broadcast).auction # AuctionOf[c]
      BY <2>3 DEF a
    <3> QED  BY <1>1, <1>2, <2>1, <3>1, <3>2, <3>3, LinkedSteps
  <2> QED  BY <2>2, <2>3
<1> QED  BY <1>6, <1>7, <1>8

\* HubRegister: everything that waits was on the stream when the client joined.
LEMMA FanoutRegister ==
  ASSUME TypeOK, ReadInv, FanoutInv, HubRegister, Beside
  PROVE  LineInv' /\ SentInv' /\ LinkInv'
<1> DEFINE c == Head(register)
           a == AuctionOf[c]
<1>1. /\ register # << >> /\ subs' = [subs EXCEPT ![a] = @ \cup {c}]
      /\ UNCHANGED <<broadcast, dropping, send, writer, got, offsets>>
      /\ joinedAt' = [d \in Clients |->
                        IF d \in subs'[AuctionOf[d]] \ subs[AuctionOf[d]]
                        THEN stream[AuctionOf[d]] ELSE joinedAt[d]]
  BY DEF HubRegister, Beside
<1>2. c \in Clients /\ c = register[1] /\ 1 \in 1 .. Len(register)
  BY <1>1, TailParts DEF TypeOK
<1> HIDE DEF c
<1>3. Registering(c) /\ a \in Auctions
  BY <1>2, HubAssumption DEF Registering, InRegister
<1>4. send[c] = << >> /\ got[c] = << >> /\ c \notin subs[a]
  BY <1>2, <1>3 DEF FanoutInv, ConnInv
<1>5. joinedAt'[c] = stream[a] /\ stream[a] \in Nat
  BY <1>1, <1>2, <1>3, <1>4 DEF TypeOK
<1>6. \A d \in Clients : d # c =>
        /\ joinedAt'[d] = joinedAt[d]
        /\ d \in subs'[AuctionOf[d]] => d \in subs[AuctionOf[d]]
  <2> SUFFICES ASSUME NEW d \in Clients, d # c
               PROVE  /\ joinedAt'[d] = joinedAt[d]
                      /\ d \in subs'[AuctionOf[d]] => d \in subs[AuctionOf[d]]
    OBVIOUS
  <2>1. d \in subs'[AuctionOf[d]] => d \in subs[AuctionOf[d]]
    BY <1>1, <1>3, HubAssumption DEF TypeOK
  <2> QED  BY <1>1, <2>1
<1> HIDE DEF a
<1>7. LineInv'
  BY <1>1 DEF FanoutInv, LineInv
<1>8. SentInv'
  <2> SUFFICES ASSUME NEW d \in Clients
               PROVE  /\ Written(got[d], joinedAt'[d])
                      /\ Live(d) => Queued(got[d], send[d], joinedAt'[d])
    BY <1>1 DEF SentInv, Live
  <2>1. CASE d = c
    BY <1>4, <2>1 DEF Written, Queued, Chain
  <2>2. CASE d # c
    BY <1>6, <2>2 DEF FanoutInv, SentInv
  <2> QED  BY <2>1, <2>2
<1>9. LinkInv'
  <2> SUFFICES ASSUME NEW d \in Clients, Live(d), d \in subs'[AuctionOf[d]] \ dropping
               PROVE  Linked(got[d], send[d], joinedAt'[d], broadcast, AuctionOf[d],
                             Upcoming(offsets[AuctionOf[d]]))
    BY <1>1 DEF LinkInv, LinkOf, Live
  <2>1. CASE d = c
    <3>1. Upcoming(offsets[a]) <= stream[a] + 1
      BY <1>3, <1>5 DEF ReadInv, Upcoming, TypeOK
    <3>2. ASSUME NEW i \in 1 .. Len(broadcast), broadcast[i].auction = a
          PROVE  broadcast[i].event <= stream[a] + 1
      <4>1. broadcast[i].event \in Event /\ broadcast[i].event <= stream[a]
        BY <3>2, ReadTypes DEF ReadInv
      <4> QED  BY <1>5, <4>1 DEF Event
    <3>3. Linked(<< >>, << >>, stream[a], broadcast, a, Upcoming(offsets[a]))
      BY <1>5, <3>1, <3>2, ClientTypes, NewIsLinked
    <3> QED  BY <1>4, <1>5, <2>1, <3>3 DEF a
  <2>2. CASE d # c
    BY <1>6, <2>2 DEF FanoutInv, LinkInv, LinkOf
  <2> QED  BY <2>1, <2>2
<1> QED  BY <1>7, <1>8, <1>9

LEMMA FanoutStep ==
  ASSUME TypeOK, ReadInv, FanoutInv, Next
  PROVE  LineInv' /\ SentInv' /\ LinkInv'
<1>1. \A a \in Auctions : offsets'[a] = offsets[a] =>
        Upcoming(offsets'[a]) \in {Upcoming(offsets[a]), 1}
  OBVIOUS
<1>2. CASE Poll
  <2>1. \A a \in Auctions : Upcoming(offsets'[a]) \in {Upcoming(offsets[a]), 1}
    BY <1>2 DEF Poll, Refreshed, Upcoming, Absent
  <2>2. UNCHANGED <<hubVars, joinedAt>>
    BY <1>2 DEF Poll
  <2> QED  BY <2>1, <2>2, FanoutIdle DEF hubVars, Live
<1>3. CASE Next /\ ~HubStep /\ ~Poll /\ ~\E a \in Auctions : Publish(a)
  <2>1. UNCHANGED <<hubVars, offsets, joinedAt>>
    BY <1>3 DEF Next, ReadEvents, AppendEvent, ShardFails, ShardRecovers,
                ReadShard, ShardError
  <2> QED  BY <2>1, FanoutIdle DEF hubVars, Live
<1>4. ASSUME NEW a \in Auctions, Publish(a) PROVE LineInv' /\ SentInv' /\ LinkInv'
  BY <1>4, FanoutPublish
<1>5. CASE HubStep
  <2>1. ASSUME \A a \in Auctions : subs'[a] \subseteq subs[a]
        PROVE  UNCHANGED joinedAt
    <3>1. joinedAt' = [c \in Clients |-> joinedAt[c]]
      BY <1>5, <2>1, HubAssumption DEF HubStep, Beside
    <3> QED  BY <3>1 DEF TypeOK
  <2>2. UNCHANGED offsets
    BY <1>5 DEF HubStep, Beside
  <2>3. ASSUME UNCHANGED <<broadcast, got, send>>,
               \A c \in Clients : Live(c)' => Live(c) \/ Registering(c),
               \A a \in Auctions : subs'[a] \subseteq subs[a],
               \A c \in Clients : c \in subs'[AuctionOf[c]] /\ c \in dropping =>
                                    c \in dropping'
        PROVE  LineInv' /\ SentInv' /\ LinkInv'
    <3>1. \A c \in Clients : c \in subs'[AuctionOf[c]] \ dropping' =>
                               c \in subs[AuctionOf[c]] \ dropping
      BY <2>3, HubAssumption
    <3> QED  BY <1>1, <2>1, <2>2, <2>3, <3>1, FanoutIdle
  <2>4. ASSUME NEW c \in Clients, \/ Upgrade(c) \/ PeerGone(c) \/ Register(c)
                                  \/ ReadFails(c) \/ ReaderCloses(c)
                                  \/ Ping(c) \/ WriterCloses(c)
        PROVE  LineInv' /\ SentInv' /\ LinkInv'
    <3>1. /\ UNCHANGED <<broadcast, got, send, subs, dropping>>
          /\ \/ writer' = writer
             \/ reader[c] = "register" /\ writer' = [writer EXCEPT ![c] = "wait"]
             \/ writer' = [writer EXCEPT ![c] = "close"]
             \/ writer' = [writer EXCEPT ![c] = "done"]
      BY <2>4 DEF Upgrade, PeerGone, Register, ReadFails, ReaderCloses, Ping,
                  WriterCloses
    <3>2. \A d \in Clients : Live(d)' => Live(d) \/ Registering(d)
      BY <3>1 DEF TypeOK, Live, Registering
    <3> QED  BY <2>3, <3>1, <3>2
  <2>5. ASSUME NEW c \in Clients, Write(c) PROVE LineInv' /\ SentInv' /\ LinkInv'
    <3>1. UNCHANGED subs
      BY <2>5 DEF Write
    <3> QED  BY <2>1, <2>2, <2>5, <3>1, FanoutWrite
  <2>6. CASE HubRegister
    BY <1>5, <2>6, FanoutRegister DEF HubStep
  <2>7. CASE HubUnregister
    <3>1. /\ UNCHANGED <<broadcast, got, send, writer, dropping>>
          /\ \A a \in Auctions : subs'[a] \subseteq subs[a]
      BY <2>7 DEF HubUnregister, TypeOK
    <3> QED  BY <2>3, <3>1 DEF Live
  <2>8. CASE HubBroadcast
    <3>1. UNCHANGED subs
      BY <2>8 DEF HubBroadcast
    <3> QED  BY <2>1, <2>2, <2>8, <3>1, FanoutBroadcast
  <2>9. ASSUME NEW c \in Clients, HubDrop(c) PROVE LineInv' /\ SentInv' /\ LinkInv'
    <3>1. /\ UNCHANGED <<broadcast, got, send, writer>>
          /\ dropping' = dropping \ {c}
          /\ subs' = [subs EXCEPT ![AuctionOf[c]] = @ \ {c}]
      BY <2>9 DEF HubDrop
    <3>2. /\ \A a \in Auctions : subs'[a] \subseteq subs[a]
          /\ \A d \in Clients : d \in subs'[AuctionOf[d]] => d # c
      BY <3>1, HubAssumption DEF TypeOK
    <3> QED  BY <2>3, <3>1, <3>2 DEF Live
  <2> QED
    BY <1>5, <2>4, <2>5, <2>6, <2>7, <2>8, <2>9
    DEF HubStep, HubNext, HubRun, ReadPump, WritePump
<1> QED  BY <1>2, <1>3, <1>4, <1>5

\* The order of the events is kept from the streams to the connections.
THEOREM OrderInvariance == Safe => []FanoutInv
<1>1. Init => FanoutInv
  <2> SUFFICES ASSUME Init PROVE FanoutInv
    OBVIOUS
  <2> USE DEF Init, HubInit
  <2>1. ConnInv
    BY HubAssumption DEF ConnInv, Registering, InRegister
  <2>2. LineInv
    BY DEF LineInv, InLine, NextAt, Waits
  <2>3. SentInv
    BY DEF SentInv, Written, Queued, Chain
  <2>4. LinkInv
    BY HubAssumption DEF LinkInv
  <2> QED  BY <2>1, <2>2, <2>3, <2>4 DEF FanoutInv
<1>2. TypeOK /\ ReadInv /\ FanoutInv /\ [Next]_vars => FanoutInv'
  <2> SUFFICES ASSUME TypeOK, ReadInv, FanoutInv, [Next]_vars PROVE FanoutInv'
    OBVIOUS
  <2>1. CASE Next
    <3>1. ConnInv'
      BY <2>1, ConnStep DEF FanoutInv
    <3> QED  BY <2>1, <3>1, FanoutStep DEF FanoutInv
  <2>2. CASE UNCHANGED vars
    <3>1. UNCHANGED <<hubVars, offsets, joinedAt>>
      BY <2>2 DEF vars, fanVars
    <3> QED  BY <3>1 DEF hubVars, FanoutInv, ConnInv, Registering, LineInv, SentInv,
                         LinkInv, LinkOf, Live
  <2> QED  BY <2>1, <2>2
<1> QED  BY <1>1, <1>2, FanoutInvariance, PTL DEF Safe

\* No client ever misses an event between two it is written, nor one accepted
\* after its registration before the first: the hub cuts a slow client off, the
\* dispatcher reads the stream of a failed shard on from its offset, and an
\* auction that was forgotten is replayed from its start.
THEOREM NothingMissed == Safe => []NoHoles
<1>1. FanoutInv => NoHoles
  BY DEF FanoutInv, SentInv, Written, Chain, Follows, NoHoles
<1> QED  BY <1>1, OrderInvariance, PTL

=============================================================================
