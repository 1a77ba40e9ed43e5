---------------------------- MODULE AuctionStore ----------------------------
(***************************************************************************)
(* The bid store: the three Redis keys of one auction (auc:{id}:state,     *)
(* auc:{id}:idem, auc:{id}:events), the Lua bid script, the HSET of        *)
(* CreateAuction, and the goroutines that call them over a connection that *)
(* may time out.  The scripts of other auctions touch other keys.          *)
(*                                                                         *)
(* Redis runs one command at a time, so a command is one step.  A call is  *)
(* not: the goroutine reads the clock and sends the command, Redis runs it *)
(* some time later, and the reply may never be read.  go-redis then sends  *)
(* the command again on another connection, up to MaxRetries times, while  *)
(* the first copy may still be on its way; when the call's context ends    *)
(* the goroutine gives up, and copies it has sent may still be run.        *)
(***************************************************************************)
EXTENDS ResultCodec, FiniteSets

CONSTANTS
  Callers,          \* goroutines that call the store
  BidRequests,      \* [op |-> "bid", bid, user, amount]
  CreateRequests,   \* [op |-> "create", opening, duration]
  NoRequest,        \* what an idle caller is asking for
  NoReply,          \* no reply has been read
  DefaultDuration,  \* cfg.DefaultAuctionDuration
  IdemTTL,          \* cfg.BidIdempotencyTTL
  MaxRetries,       \* retries of one command by go-redis
  MaxCalls,         \* bound: calls in a behaviour
  MaxInFlight,      \* bound: commands on their way at a time
  MaxTime           \* bound: clock ticks

BidIds == {r.bid : r \in BidRequests}
Users == {r.user : r \in BidRequests}

ASSUME RequestAssumption ==
  /\ \A r \in BidRequests : /\ r.op = "bid"
                            /\ r.amount \in Int
                            /\ r.amount < 10 * SigLimit
                            /\ r.user \in Seq(Words)
                            /\ r.user # << >>
  /\ \A r \in CreateRequests : /\ r.op = "create"
                               /\ r.opening \in Int
                               /\ r.duration \in Int
  /\ NoRequest \notin BidRequests \cup CreateRequests

ASSUME SettingAssumption ==
  /\ DefaultDuration \in Nat \ {0}
  /\ IdemTTL \in Int
  /\ MaxRetries \in Nat
  /\ MaxCalls \in Nat
  /\ MaxInFlight \in Nat
  /\ MaxTime \in Nat

VARIABLES
  clock,      \* wall clock in milliseconds
  state,      \* the hash auc:{id}:state
  idem,       \* the hash auc:{id}:idem, bid id -> encoded result
  idemUntil,  \* when auc:{id}:idem expires
  events,     \* the stream auc:{id}:events; an event's id is its position
  net,        \* commands sent to Redis and not run yet
  calls,      \* per caller, the call it is making
  issued,     \* the number of calls made so far
  base,       \* history: length of the stream when the auction was created
  appliedAt   \* history: when each event was appended, by Redis's clock

redis == <<state, idem, idemUntil, events, base, appliedAt>>
vars == <<clock, state, idem, idemUntil, events, net, calls, issued,
          base, appliedAt>>

Result == Seq(Piece)

AuctionEvent == [bid : BidIds, user : Users, amount : NumText,
                 version : Nat, ts : Nat]

Request == BidRequests \cup CreateRequests

\* One copy of a command on its way to Redis.  "now" is the caller's clock
\* reading, taken once per call and repeated in every copy.
Message == [caller : Callers, call : Nat, try : Nat, req : Request, now : Nat]

Idle == [pc |-> "idle", call |-> 0, try |-> 0, req |-> NoRequest, now |-> 0,
         reply |-> NoReply]

EmptyHash == [x \in {} |-> NoReply]

Init ==
  /\ clock = 0
  /\ state = [status |-> "none", end_at |-> 0, current_price |-> Decimal(0),
              winner |-> NoUser, version |-> 0]
  /\ idem = EmptyHash
  /\ idemUntil = 0
  /\ events = << >>
  /\ net = {}
  /\ calls = [c \in Callers |-> Idle]
  /\ issued = 0
  /\ base = 0
  /\ appliedAt = << >>

-----------------------------------------------------------------------------
(* The caller's side of a call.                                            *)

\* Service.PlaceBid forwards only these requests (ids are never empty here).
Valid(r) == r.user # NoUser /\ r.amount > 0

Send(c, call) ==
  /\ Cardinality(net) < MaxInFlight
  /\ net' = net \cup {[caller |-> c, call |-> call.call, try |-> call.try,
                       req |-> call.req, now |-> call.now]}

StartCall(c, r) ==
  LET call == [pc |-> "waiting", call |-> issued + 1, try |-> 0, req |-> r,
               now |-> clock, reply |-> NoReply]
  IN  /\ calls[c].pc = "idle"
      /\ issued < MaxCalls
      /\ issued' = issued + 1
      /\ calls' = [calls EXCEPT ![c] = call]
      /\ Send(c, call)
      /\ UNCHANGED <<clock, redis>>

PlaceBid(c, r) == Valid(r) /\ StartCall(c, r)

CreateAuction(c, r) == StartCall(c, r)

\* The reply did not come in time and go-redis sends the command again.
Retry(c) ==
  LET call == [calls[c] EXCEPT !.pc = "waiting", !.try = @ + 1,
                               !.reply = NoReply]
  IN  /\ calls[c].pc # "idle"
      /\ calls[c].try < MaxRetries
      /\ calls' = [calls EXCEPT ![c] = call]
      /\ Send(c, call)
      /\ UNCHANGED <<clock, redis, issued>>

\* The context ended or the retries are used up: the call returns an error.
GiveUp(c) ==
  /\ calls[c].pc # "idle"
  /\ calls' = [calls EXCEPT ![c] = Idle]
  /\ UNCHANGED <<clock, redis, net, issued>>

\* The reply was read and is returned.
Return(c) ==
  /\ calls[c].pc = "replied"
  /\ calls' = [calls EXCEPT ![c] = Idle]
  /\ UNCHANGED <<clock, redis, net, issued>>

-----------------------------------------------------------------------------
(* Redis runs a command.                                                   *)

\* The caller reads a reply only on the connection of its current attempt.
Awaited(m) ==
  /\ calls[m.caller].pc = "waiting"
  /\ calls[m.caller].call = m.call
  /\ calls[m.caller].try = m.try

Answer(m, kind, result) ==
  /\ net' = net \ {m}
  /\ calls' = IF Awaited(m)
              THEN [calls EXCEPT ![m.caller].pc = "replied",
                      ![m.caller].reply = [kind |-> kind, result |-> result]]
              ELSE calls
  /\ UNCHANGED issued

\* Mutant: the expiry is one unit short.
cacheShort(bid, result) ==
  /\ idemUntil' = clock + IdemTTL - 1
  /\ idem' = IF IdemTTL > 0
             THEN [b \in DOMAIN idem \cup {bid} |->
                     IF b = bid THEN result ELSE idem[b]]
             ELSE EmptyHash

\* HSET of the result, PEXPIRE of the whole hash; an expiry that is not in
\* the future deletes the hash.
cache(bid, result) ==
  /\ idemUntil' = clock + IdemTTL
  /\ idem' = IF IdemTTL > 0
             THEN [b \in DOMAIN idem \cup {bid} |->
                     IF b = bid THEN result ELSE idem[b]]
             ELSE EmptyHash

\* A refusal leaves the standing bid as it is and reports it.
Refusal(m, reason) ==
  encode("0", reason, Tonumber(state.current_price), state.winner,
         state.version, 0, m.now)

Fresh(m) == m.req.op = "bid" /\ m.req.bid \notin DOMAIN idem

\* Mutant: the script checks only that the auction exists.
StillOpenExists(m) == Fresh(m) /\ state.status # "none" /\ m.now < state.end_at

\* A new bid stamped, by its caller's clock, before the end of an open auction.
StillOpen(m) == Fresh(m) /\ state.status = "open" /\ m.now < state.end_at

\* Mutant: an equal bid is not too low.
TooLowStrict(m) == m.req.amount < Tonumber(state.current_price)

TooLow(m) == m.req.amount <= Tonumber(state.current_price)

BidDuplicate(m) ==
  /\ m.req.op = "bid"
  /\ m.req.bid \in DOMAIN idem
  /\ Answer(m, "DUP", idem[m.req.bid])
  /\ UNCHANGED <<clock, redis>>

\* Mutant: the refusal is cached although there is no auction.
BidNotFoundCached(m) ==
  LET result == encode("0", "auction_not_found", 0, NoUser, 0, 0, m.now)
  IN  /\ Fresh(m)
      /\ state.status = "none"
      /\ cache(m.req.bid, result)
      /\ Answer(m, "ERR", result)
      /\ UNCHANGED <<clock, state, events, base, appliedAt>>

\* The only answer that is not cached.
BidNotFound(m) ==
  /\ Fresh(m)
  /\ state.status = "none"
  /\ Answer(m, "ERR", encode("0", "auction_not_found", 0, NoUser, 0, 0, m.now))
  /\ UNCHANGED <<clock, redis>>

BidClosed(m) ==
  /\ Fresh(m)
  /\ state.status \notin {"none", "open"}
  /\ cache(m.req.bid, Refusal(m, "auction_closed"))
  /\ Answer(m, "OK", Refusal(m, "auction_closed"))
  /\ UNCHANGED <<clock, state, events, base, appliedAt>>

\* Mutant: the reason is written where the status belongs.
BidEndedReason(m) ==
  /\ Fresh(m)
  /\ state.status = "open"
  /\ m.now >= state.end_at
  /\ state' = [state EXCEPT !.status = "auction_ended"]
  /\ cache(m.req.bid, Refusal(m, "auction_ended"))
  /\ Answer(m, "OK", Refusal(m, "auction_ended"))
  /\ UNCHANGED <<clock, events, base, appliedAt>>

BidEnded(m) ==
  /\ Fresh(m)
  /\ state.status = "open"
  /\ m.now >= state.end_at
  /\ state' = [state EXCEPT !.status = "closed"]
  /\ cache(m.req.bid, Refusal(m, "auction_ended"))
  /\ Answer(m, "OK", Refusal(m, "auction_ended"))
  /\ UNCHANGED <<clock, events, base, appliedAt>>

\* Mutant: only acceptances are cached.
BidTooLowUncached(m) ==
  /\ StillOpen(m)
  /\ TooLow(m)
  /\ Answer(m, "OK", Refusal(m, "bid_too_low"))
  /\ UNCHANGED <<clock, redis>>

BidTooLow(m) ==
  /\ StillOpen(m)
  /\ TooLow(m)
  /\ cache(m.req.bid, Refusal(m, "bid_too_low"))
  /\ Answer(m, "OK", Refusal(m, "bid_too_low"))
  /\ UNCHANGED <<clock, state, events, base, appliedAt>>

BidAccepted(m) ==
  LET version == state.version + 1
      result == encode("1", "accepted", m.req.amount, m.req.user, version,
                       Len(events) + 1, m.now)
  IN  /\ StillOpen(m)
      /\ ~TooLow(m)
      /\ state' = [state EXCEPT !.current_price = Tostring(m.req.amount),
                                !.winner = m.req.user, !.version = version]
      /\ events' = Append(events, [bid |-> m.req.bid, user |-> m.req.user,
                                   amount |-> Tostring(m.req.amount),
                                   version |-> version, ts |-> m.now])
      /\ appliedAt' = Append(appliedAt, clock)
      /\ cache(m.req.bid, result)
      /\ Answer(m, "OK", result)
      /\ UNCHANGED <<clock, base>>

\* The caller's clock plus the duration asked for, or the default.
EndAt(m) ==
  m.now + (IF m.req.duration > 0 THEN m.req.duration ELSE DefaultDuration)

\* Mutant: a re-created auction keeps its version.
SetAuctionKeepsVersion(m) ==
  /\ m.req.op = "create"
  /\ state' = [status |-> "open",
               end_at |-> EndAt(m),
               current_price |-> Decimal(m.req.opening),
               winner |-> NoUser, version |-> state.version]
  /\ base' = Len(events)
  /\ Answer(m, "HSET", NoReply)
  /\ UNCHANGED <<clock, idem, idemUntil, events, appliedAt>>

\* Mutant: creation also clears the stream, but not the cached results.
SetAuctionClearsStream(m) ==
  /\ m.req.op = "create"
  /\ state' = [status |-> "open",
               end_at |-> EndAt(m),
               current_price |-> Decimal(m.req.opening),
               winner |-> NoUser, version |-> 0]
  /\ base' = 0
  /\ events' = << >>
  /\ appliedAt' = << >>
  /\ Answer(m, "HSET", NoReply)
  /\ UNCHANGED <<clock, idem, idemUntil>>

\* CreateAuction's HSET overwrites every field of the state hash, whether or
\* not the auction exists, and leaves the other two keys alone.
SetAuction(m) ==
  /\ m.req.op = "create"
  /\ state' = [status |-> "open",
               end_at |-> EndAt(m),
               current_price |-> Decimal(m.req.opening),
               winner |-> NoUser, version |-> 0]
  /\ base' = Len(events)
  /\ Answer(m, "HSET", NoReply)
  /\ UNCHANGED <<clock, idem, idemUntil, events, appliedAt>>

bidScript(m) ==
  \/ BidDuplicate(m)
  \/ BidNotFound(m)
  \/ BidClosed(m)
  \/ BidEnded(m)
  \/ BidTooLow(m)
  \/ BidAccepted(m)

\* Time passes; Redis drops the idempotency hash once its expiry is past.
Tick ==
  /\ clock < MaxTime
  /\ clock' = clock + 1
  /\ idem' = IF clock' > idemUntil THEN EmptyHash ELSE idem
  /\ UNCHANGED <<state, idemUntil, events, net, calls, issued, base, appliedAt>>

Next ==
  \/ \E c \in Callers, r \in BidRequests : PlaceBid(c, r)
  \/ \E c \in Callers, r \in CreateRequests : CreateAuction(c, r)
  \/ \E c \in Callers : Retry(c) \/ GiveUp(c) \/ Return(c)
  \/ \E m \in net : bidScript(m) \/ SetAuction(m)
  \/ Tick

Spec == Init /\ [][Next]_vars

-----------------------------------------------------------------------------
(* Properties.                                                             *)

\* The shape of every variable (redis_store.go's keys and the calls on them).
TypeOK ==
  /\ clock \in Nat
  /\ state \in [status : {"none", "open", "closed"}, end_at : Int,
                current_price : NumText, winner : Users \cup {NoUser},
                version : Nat]
  /\ DOMAIN idem \subseteq BidIds
  /\ \A b \in DOMAIN idem : idem[b] \in Result
  /\ idemUntil \in Int
  /\ events \in Seq(AuctionEvent)
  /\ net \subseteq Message
  /\ calls \in [Callers ->
       [pc : {"idle", "waiting", "replied"}, call : Nat, try : Nat,
        req : Request \cup {NoRequest}, now : Nat,
        reply : [kind : {"DUP", "ERR", "OK", "HSET"},
                 result : Result \cup {NoReply}] \cup {NoReply}]]
  /\ issued \in Nat
  /\ base \in Nat
  /\ appliedAt \in Seq(Nat)

\* The stream is a faithful log of the state hash: since the auction was
\* created the events are numbered 1, 2, ... without a gap, their number is
\* the hash's version, and the last one is the standing bid.  Retried,
\* late and lost commands never make the two keys of the script's HSET and
\* XADD disagree.
LogMatchesState ==
  /\ base <= Len(events)
  /\ state.version = Len(events) - base
  /\ \A i \in base + 1 .. Len(events) : events[i].version = i - base
  /\ base = Len(events) => state.winner = NoUser
  /\ base < Len(events) =>
       /\ events[Len(events)].amount = state.current_price
       /\ events[Len(events)].user = state.winner

\* Between two creations of the auction every accepted bid beats all the
\* accepted bids before it ("amount <= currentPrice" refuses the others), in
\* whatever order concurrent and repeated bids reach Redis.
AmountsRise ==
  \A i, j \in base + 1 .. Len(events) :
    i < j => Tonumber(events[i].amount) < Tonumber(events[j].amount)

\* "Idempotent on bid_id": a bid id is applied at most once per idempotency
\* window, also across timeouts, retries of go-redis, repeated calls and a
\* re-creation of the auction.  A TTL of zero or less keeps no window.
AppliedOnce ==
  IdemTTL > 0 =>
    \A i, j \in 1 .. Len(events) :
      (i < j /\ events[i].bid = events[j].bid) =>
        appliedAt[j] > appliedAt[i] + IdemTTL

\* What the caller of a bid is told, once the reply has been read.
Told(c) == decodeCachedResult(calls[c].reply.result)

ToldAccepted(c) ==
  calls[c].pc = "replied" /\ calls[c].req.op = "bid" /\ Told(c).accepted

\* A caller told "accepted", at once or as a duplicate, can find the bid on
\* the stream under the event id, version, winner and price it was told.
AcceptedIsLogged ==
  \A c \in Callers : ToldAccepted(c) =>
    \E n \in 1 .. Len(events) :
      /\ EventId(n) = Told(c).event
      /\ events[n].bid = calls[c].req.bid
      /\ events[n].user = Told(c).winner
      /\ events[n].version = Told(c).version
      /\ ParseInt64(events[n].amount) = Told(c).price

\* "Duplicate bid_ids return the cached result": a caller given a decision of
\* its own, an acceptance or a refusal, gets the same one if it asks again
\* within the window, whatever other bids, late commands and creations have
\* done to the hash and its expiry since.
AnswerIsKept ==
  IdemTTL > 0 =>
    \A c \in Callers :
      (/\ calls[c].pc = "replied"
       /\ calls[c].reply.kind = "OK"
       /\ clock <= calls[c].now + IdemTTL) =>
         /\ calls[c].req.bid \in DOMAIN idem
         /\ idem[calls[c].req.bid] = calls[c].reply.result

\* Once a bid has been answered auction_ended, nothing but a new creation
\* changes the auction: a bid stamped before the end that Redis runs late is
\* refused too.
ClosedIsFinal ==
  [][state.status = "closed" =>
       /\ events' = events
       /\ state'.status = "closed" => state' = state]_vars

\* The test suite's "max bid wins": no accepted bid exceeds the standing price.
MaxBidWins ==
  \A i \in 1 .. Len(events) :
    Tonumber(events[i].amount) <= Tonumber(state.current_price)

Promise == INSTANCE Auction WITH
  phase <- state.status, price <- Tonumber(state.current_price),
  winner <- state.winner, version <- state.version, seen <- DOMAIN idem

\* The store with its unreliable calls implements the atomic auction.
ImplementsAuction == Promise!Spec

=============================================================================
