---------------------------- MODULE EventFanout -----------------------------
(***************************************************************************)
(* Accepted bids on their way from the Redis streams to the WebSocket      *)
(* clients: EventDispatcher.Run with RedisStore.ReadEvents on one side of  *)
(* the hub's broadcast channel, the hub and its clients on the other.      *)
(* Each auction lives on one Redis shard.  ReadEvents asks the shards one  *)
(* after the other and returns nothing at all when one of them fails.      *)
(*                                                                         *)
(* The order in which the events of different auctions are published is    *)
(* left open: a client sees one auction.                                   *)
(***************************************************************************)
EXTENDS WsHub, FiniteSetsExt

CONSTANTS
  StreamCount,   \* events read from a stream at a time
  ShardCount,    \* len(r.clients)
  Hash,          \* per auction, the checksum of its id
  MaxEvents,     \* bound: accepted bids
  MaxOutages     \* bound: failures of shards

ASSUME FanoutAssumption ==
  /\ StreamCount \in Nat \ {0}
  /\ ShardCount \in Nat \ {0}
  /\ Hash \in [Auctions -> Nat]
  /\ MaxEvents \in Nat /\ MaxOutages \in Nat

VARIABLES
  stream,    \* per auction, the number of events on its stream
  offsets,   \* d.offsets: per auction, the last event read, or Absent
  asking,    \* the shards ReadEvents has yet to ask
  batch,     \* per auction, events read and not broadcast yet
  down,      \* the shards that do not answer
  outages,   \* the number of failures of shards so far
  joinedAt   \* history: per client, the stream's length when it was registered

fanVars == <<stream, offsets, asking, batch, down, outages, joinedAt>>
vars == <<hubVars, fanVars>>

Absent == -1

Shards == 0 .. ShardCount - 1

shard(a) == Hash[a] % ShardCount

Init ==
  /\ HubInit
  /\ stream = [a \in Auctions |-> 0]
  /\ offsets = [a \in Auctions |-> Absent]
  /\ asking = {}
  /\ batch = [a \in Auctions |-> << >>]
  /\ down = {}
  /\ outages = 0
  /\ joinedAt = [c \in Clients |-> 0]

\* A bid on auction a is accepted.
AppendEvent(a) ==
  /\ shard(a) \notin down
  /\ MapThenSumSet(LAMBDA b : stream[b], Auctions) < MaxEvents
  /\ stream' = [stream EXCEPT ![a] = @ + 1]
  /\ UNCHANGED <<hubVars, offsets, asking, batch, down, outages, joinedAt>>

\* A shard stops to answer, and answers again with its streams as they were.
ShardFails(s) ==
  /\ s \notin down
  /\ outages < MaxOutages
  /\ down' = down \cup {s}
  /\ outages' = outages + 1
  /\ UNCHANGED <<hubVars, stream, offsets, asking, batch, joinedAt>>

ShardRecovers(s) ==
  /\ s \in down
  /\ down' = down \ {s}
  /\ UNCHANGED <<hubVars, stream, offsets, asking, batch, outages, joinedAt>>

\* Mutant: an auction that becomes known starts at the end of its stream.
RefreshedAtEnd ==
  [a \in Auctions |->
     IF a \notin KnownAuctions THEN Absent
     ELSE IF offsets[a] = Absent THEN stream[a] ELSE offsets[a]]

\* Auctions nobody watches lose their offset, new ones start at "0-0".
Refreshed ==
  [a \in Auctions |->
     IF a \notin KnownAuctions THEN Absent
     ELSE IF offsets[a] = Absent THEN 0 ELSE offsets[a]]

\* Mutant: the event at the offset is read again.
XReadInclusive(a) ==
  IF offsets[a] = Absent THEN << >>
  ELSE LET rest == stream[a] - offsets[a]
       IN  [i \in 1 .. (IF rest < StreamCount THEN rest ELSE StreamCount) |->
              offsets[a] + i - 1]

\* XREAD COUNT: up to StreamCount events after the offset.
XRead(a) ==
  IF offsets[a] = Absent THEN << >>
  ELSE LET rest == stream[a] - offsets[a]
       IN  [i \in 1 .. (IF rest < StreamCount THEN rest ELSE StreamCount) |->
              offsets[a] + i]

\* A tick of the dispatcher up to the call of ReadEvents.  KnownAuctions waits
\* for h.mu; the shards to ask are those of the auctions that have an offset.
Poll ==
  /\ asking = {}
  /\ \A a \in Auctions : batch[a] = << >>
  /\ dropping = {}
  /\ offsets' = Refreshed
  /\ asking' = {shard(a) : a \in KnownAuctions}
  /\ UNCHANGED <<hubVars, stream, batch, down, outages, joinedAt>>

\* The next shard to ask; ReadEvents walks through them by their index.
Asked(s) == s \in asking /\ \A t \in asking : s <= t

ReadShard(s) ==
  /\ Asked(s)
  /\ s \notin down
  /\ batch' = [a \in Auctions |-> IF shard(a) = s THEN XRead(a) ELSE batch[a]]
  /\ asking' = asking \ {s}
  /\ UNCHANGED <<hubVars, stream, offsets, down, outages, joinedAt>>

\* Mutant: what the shards before gave is broadcast, the failed one's auctions
\* are taken to be read up to their ends.
ShardErrorSkips(s) ==
  /\ Asked(s)
  /\ s \in down
  /\ offsets' = [a \in Auctions |->
                   IF shard(a) = s /\ offsets[a] # Absent THEN stream[a]
                   ELSE offsets[a]]
  /\ asking' = asking \ {s}
  /\ UNCHANGED <<hubVars, stream, batch, down, outages, joinedAt>>

\* The read fails, and what the shards before gave is discarded.
ShardError(s) ==
  /\ Asked(s)
  /\ s \in down
  /\ batch' = [a \in Auctions |-> << >>]
  /\ asking' = {}
  /\ UNCHANGED <<hubVars, stream, offsets, down, outages, joinedAt>>

\* A send on h.broadcast, which waits for room.
Broadcast(a, event) ==
  /\ Len(broadcast) < BroadcastCap
  /\ broadcast' = Append(broadcast, [auction |-> a, event |-> event])

Publish(a) ==
  /\ asking = {}
  /\ batch[a] # << >>
  /\ offsets' = [offsets EXCEPT ![a] = Head(batch[a])]
  /\ Broadcast(a, Head(batch[a]))
  /\ batch' = [batch EXCEPT ![a] = Tail(@)]
  /\ UNCHANGED <<subs, register, unregister, dropping, send, conn, reader,
                 writer, got, stream, asking, down, outages, joinedAt>>

\* What a step of the hub or of a connection means here.
Beside ==
  /\ joinedAt' = [c \in Clients |->
                    IF c \in subs'[AuctionOf[c]] \ subs[AuctionOf[c]]
                    THEN stream[AuctionOf[c]] ELSE joinedAt[c]]
  /\ UNCHANGED <<stream, offsets, asking, batch, down, outages>>

HubStep == HubNext /\ Beside

ReadEvents == \E s \in Shards : ReadShard(s) \/ ShardError(s)

Next ==
  \/ \E a \in Auctions : AppendEvent(a) \/ Publish(a)
  \/ \E s \in Shards : ShardFails(s) \/ ShardRecovers(s)
  \/ Poll \/ ReadEvents
  \/ HubStep

\* Each goroutine goes on while it can: the dispatcher, the hub, the readers
\* and the writers.  Go's select picks a ready channel at random, so the hub
\* passes over none of its channels for ever.  Nothing is assumed of the shards.
Fairness ==
  /\ WF_vars(Poll) /\ WF_vars(ReadEvents)
  /\ \A a \in Auctions : WF_vars(Publish(a))
  /\ WF_vars(HubRegister /\ Beside)
  /\ WF_vars(HubUnregister /\ Beside)
  /\ WF_vars(HubBroadcast /\ Beside)
  /\ \A c \in Clients : /\ WF_vars(HubDrop(c) /\ Beside)
                        /\ WF_vars(ReadPump(c) /\ Beside)
                        /\ WF_vars(WritePump(c) /\ Beside)

Safe == Init /\ [][Next]_vars

Spec == Safe /\ Fairness

-----------------------------------------------------------------------------
(* Properties.                                                             *)

\* The shape of the hub's, the clients' and the dispatcher's state; no channel
\* holds more than its capacity.
TypeOK ==
  /\ subs \in [Auctions -> SUBSET Clients]
  /\ register \in Seq(Clients) /\ Len(register) <= RegisterCap
  /\ unregister \in Seq(Clients) /\ Len(unregister) <= UnregisterCap
  /\ broadcast \in Seq([auction : Auctions, event : Nat \ {0}])
  /\ Len(broadcast) <= BroadcastCap
  /\ dropping \subseteq Clients
  /\ send \in [Clients -> Seq(Nat \ {0})]
  /\ \A c \in Clients : Len(send[c]) <= QueueDepth
  /\ conn \in [Clients -> {"none", "open", "gone"}]
  /\ reader \in [Clients -> {"none", "register", "read", "close", "done"}]
  /\ writer \in [Clients -> {"none", "wait", "close", "done"}]
  /\ got \in [Clients -> Seq(Nat \ {0})]
  /\ stream \in [Auctions -> Nat]
  /\ offsets \in [Auctions -> Nat \cup {Absent}]
  /\ batch \in [Auctions -> Seq(Nat \ {0})]
  /\ asking \subseteq Shards /\ down \subseteq Shards
  /\ outages \in 0 .. MaxOutages
  /\ joinedAt \in [Clients -> Nat]

\* A client never misses an event: the first one it is sent is at most the
\* successor of the last one before its registration, and the next one is the
\* successor of the last, or the first of a replay of the whole stream.  A slow
\* client is cut off, it does not get a stream with holes; failed shards and
\* auctions that are forgotten and watched again lose nothing.
NoHoles ==
  \A c \in Clients :
    /\ got[c] # << >> => got[c][1] <= joinedAt[c] + 1
    /\ \A i \in 1 .. Len(got[c]) - 1 : got[c][i + 1] \in {got[c][i] + 1, 1}

\* A client whose connection stays open, and which the hub does not drop, is
\* sent every bid accepted after its registration, if the shards of the watched
\* auctions answer in the end.  One shard that never answers again is enough to
\* keep the clients of all the others waiting.
EveryEventArrives ==
  \A c \in Clients :
    (/\ <>[](conn[c] = "open" /\ c \in subs[AuctionOf[c]])
     /\ <>[](\A a \in KnownAuctions : shard(a) \notin down)) =>
      <>[](\A e \in joinedAt[c] + 1 .. stream[AuctionOf[c]] :
             \E i \in 1 .. Len(got[c]) : got[c][i] = e)

\* A connection that is gone is forgotten by the hub in the end, for good,
\* although an unregistration may overtake the registration it belongs to.
GoneIsForgotten ==
  \A c \in Clients :
    [](conn[c] = "gone" => <>[](c \notin subs[AuctionOf[c]]))

\* "WebSocket connections stay up; clients dropped under backpressure are
\* counted": the hub gets over dropping clients and serves the others again.
DropsEnd == dropping # {} ~> dropping = {}

=============================================================================
