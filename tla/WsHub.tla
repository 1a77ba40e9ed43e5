------------------------------- MODULE WsHub --------------------------------
(***************************************************************************)
(* The WebSocket hub and the two goroutines of every connection.           *)
(*                                                                         *)
(* Hub.Run is the only receiver of the three channels and the only writer  *)
(* of the subscription map.  It handles one message at a time, chosen at   *)
(* random among the channels that have one, so registrations and           *)
(* unregistrations are not ordered with each other.  A critical section of *)
(* h.mu is one step, but for the one in which clients are dropped: there   *)
(* the hub calls client.close(), which sends on h.unregister, and waits    *)
(* with h.mu held while that channel is full.                              *)
(*                                                                         *)
(* A client is one connection to one auction.  Events of an auction are    *)
(* numbered 1, 2, ... by their place on its stream.                        *)
(***************************************************************************)
EXTENDS Integers, Sequences, FiniteSets

CONSTANTS
  Clients, Auctions,
  AuctionOf,    \* the auction_id a client connects with
  QueueDepth,   \* capacity of client.send
  RegisterCap, UnregisterCap, BroadcastCap   \* 1024, 1024 and 4096 in NewHub

ASSUME HubAssumption ==
  /\ AuctionOf \in [Clients -> Auctions]
  /\ QueueDepth \in Nat
  /\ RegisterCap \in Nat \ {0}
  /\ UnregisterCap \in Nat \ {0}
  /\ BroadcastCap \in Nat \ {0}

VARIABLES
  subs,        \* h.clients; an auction is a key of the map iff not empty here
  register,    \* the channels
  unregister,
  broadcast,
  dropping,    \* clients the hub still has to drop, with h.mu held
  send,        \* per client, client.send
  conn,        \* per client: "none", "open", or "gone" (closed by either side)
  reader,      \* per client, the handler goroutine: ServeHTTP and readPump
  writer,      \* per client, the writePump goroutine
  got          \* history: per client, the events written to the connection

hubVars == <<subs, register, unregister, broadcast, dropping, send, conn,
             reader, writer, got>>

HubInit ==
  /\ subs = [a \in Auctions |-> {}]
  /\ register = << >>
  /\ unregister = << >>
  /\ broadcast = << >>
  /\ dropping = {}
  /\ send = [c \in Clients |-> << >>]
  /\ conn = [c \in Clients |-> "none"]
  /\ reader = [c \in Clients |-> "none"]
  /\ writer = [c \in Clients |-> "none"]
  /\ got = [c \in Clients |-> << >>]

KnownAuctions == {a \in Auctions : subs[a] # {}}

-----------------------------------------------------------------------------
(* A connection.                                                           *)

\* ServeHTTP up to the call of Register.
Upgrade(c) ==
  /\ conn[c] = "none"
  /\ conn' = [conn EXCEPT ![c] = "open"]
  /\ reader' = [reader EXCEPT ![c] = "register"]
  /\ UNCHANGED <<subs, register, unregister, broadcast, dropping, send,
                 writer, got>>

Register(c) ==
  /\ reader[c] = "register"
  /\ Len(register) < RegisterCap
  /\ register' = Append(register, c)
  /\ reader' = [reader EXCEPT ![c] = "read"]
  /\ writer' = [writer EXCEPT ![c] = "wait"]
  /\ UNCHANGED <<subs, unregister, broadcast, dropping, send, conn, got>>

\* The peer closes the connection, or it breaks.
PeerGone(c) ==
  /\ conn[c] = "open"
  /\ conn' = [conn EXCEPT ![c] = "gone"]
  /\ UNCHANGED <<subs, register, unregister, broadcast, dropping, send,
                 reader, writer, got>>

ReadFails(c) ==
  /\ reader[c] = "read"
  /\ conn[c] = "gone"
  /\ reader' = [reader EXCEPT ![c] = "close"]
  /\ UNCHANGED <<subs, register, unregister, broadcast, dropping, send, conn,
                 writer, got>>

\* A send on h.unregister, which waits for room.
Unregister(c) ==
  /\ Len(unregister) < UnregisterCap
  /\ unregister' = Append(unregister, c)

\* client.close()
CloseClient(c) ==
  /\ Unregister(c)
  /\ conn' = [conn EXCEPT ![c] = "gone"]

ReaderCloses(c) ==
  /\ reader[c] = "close"
  /\ CloseClient(c)
  /\ reader' = [reader EXCEPT ![c] = "done"]
  /\ UNCHANGED <<subs, register, broadcast, dropping, send, writer, got>>

Write(c) ==
  /\ writer[c] = "wait"
  /\ send[c] # << >>
  /\ send' = [send EXCEPT ![c] = Tail(@)]
  /\ IF conn[c] = "open"
     THEN /\ got' = [got EXCEPT ![c] = Append(@, Head(send[c]))]
          /\ UNCHANGED writer
     ELSE /\ writer' = [writer EXCEPT ![c] = "close"]
          /\ UNCHANGED got
  /\ UNCHANGED <<subs, register, unregister, broadcast, dropping, conn, reader>>

\* The ping finds the connection gone.  Pings are 20 s apart: the hub has
\* taken the registration by the first one.
Ping(c) ==
  /\ writer[c] = "wait"
  /\ conn[c] = "gone"
  /\ \A i \in 1 .. Len(register) : register[i] # c
  /\ writer' = [writer EXCEPT ![c] = "close"]
  /\ UNCHANGED <<subs, register, unregister, broadcast, dropping, send, conn,
                 reader, got>>

\* Mutant: only the reader unregisters.
WriterClosesConn(c) ==
  /\ writer[c] = "close"
  /\ conn' = [conn EXCEPT ![c] = "gone"]
  /\ writer' = [writer EXCEPT ![c] = "done"]
  /\ UNCHANGED <<subs, register, unregister, broadcast, dropping, send,
                 reader, got>>

WriterCloses(c) ==
  /\ writer[c] = "close"
  /\ CloseClient(c)
  /\ writer' = [writer EXCEPT ![c] = "done"]
  /\ UNCHANGED <<subs, register, broadcast, dropping, send, reader, got>>

ReadPump(c) == Register(c) \/ ReadFails(c) \/ ReaderCloses(c)
WritePump(c) == Write(c) \/ Ping(c) \/ WriterCloses(c)

-----------------------------------------------------------------------------
(* Hub.Run                                                                 *)

HubRegister ==
  LET c == Head(register) IN
  /\ dropping = {}
  /\ register # << >>
  /\ register' = Tail(register)
  /\ subs' = [subs EXCEPT ![AuctionOf[c]] = @ \cup {c}]
  /\ UNCHANGED <<unregister, broadcast, dropping, send, conn, reader, writer,
                 got>>

HubUnregister ==
  LET c == Head(unregister) IN
  /\ dropping = {}
  /\ unregister # << >>
  /\ unregister' = Tail(unregister)
  /\ subs' = [subs EXCEPT ![AuctionOf[c]] = @ \ {c}]
  /\ UNCHANGED <<register, broadcast, dropping, send, conn, reader, writer,
                 got>>

\* Mutant: a full client misses the message and stays subscribed.
DropsNobody(a) == {}

\* The subscribers of auction a that have no room for another message.
Drops(a) == {c \in subs[a] : Len(send[c]) >= QueueDepth}

HubBroadcast ==
  LET msg == Head(broadcast) IN
  /\ dropping = {}
  /\ broadcast # << >>
  /\ broadcast' = Tail(broadcast)
  /\ send' = [c \in Clients |->
                IF c \in subs[msg.auction] /\ Len(send[c]) < QueueDepth
                THEN Append(send[c], msg.event)
                ELSE send[c]]
  /\ dropping' = Drops(msg.auction)
  /\ UNCHANGED <<subs, register, unregister, conn, reader, writer, got>>

\* The hub drops one client; it releases h.mu with the last one.
HubDrop(c) ==
  /\ c \in dropping
  /\ dropping' = dropping \ {c}
  /\ subs' = [subs EXCEPT ![AuctionOf[c]] = @ \ {c}]
  /\ CloseClient(c)
  /\ UNCHANGED <<register, broadcast, send, reader, writer, got>>

HubRun ==
  \/ HubRegister
  \/ HubUnregister
  \/ HubBroadcast
  \/ \E c \in Clients : HubDrop(c)

HubNext ==
  \/ \E c \in Clients : Upgrade(c) \/ PeerGone(c) \/ ReadPump(c) \/ WritePump(c)
  \/ HubRun

=============================================================================
