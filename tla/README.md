# Auctioneer: a TLA+ verification project

The specifications in this directory model the auction engine of `apps/api`:
the Redis bid store, the circuit breaker in front of it, the gRPC handler, the
WebSocket hub and the event dispatcher, and the server process that is put
together from them; and the test runs of `apps/dashboard`. TLC checks them on
small instances; TLAPS proves every invariant and action property that the
passing runs check, and that the store implements its abstract specification, for
every value of the constants. Liveness is checked by TLC alone.

## 1. Inventory of the system

| Component | State | Operations | Hard because |
|---|---|---|---|
| Bid store (`engine/redis_store.go`, `service.go`) | three Redis keys per auction: state hash, idempotency hash, event stream | `CreateAuction` (HSET), `PlaceBid` (Lua script), `ReadEvents` (XREAD) | calls time out and are repeated while the first copy may still run; the caller's clock is read before the script runs; keys expire; numbers pass through Lua text |
| Circuit breaker (`engine/breaker.go`) | two atomic words | `allow`, `success`, `fail`, `isOpen` | no lock: every atomic operation interleaves |
| gRPC API (`transport/grpc/server.go`) | semaphore channel, gauges | `PlaceBid`, `CreateAuction` | many ways out, each must release the token and map the error |
| Hub and connections (`transport/ws`) | subscription map, three channels, a queue per client | `Run`, `Register`, `Unregister`, `Broadcast`, `KnownAuctions`, `readPump`, `writePump` | random select, bounded channels, blocking sends with a lock held |
| Dispatcher (`engine/dispatcher.go`) | offsets | `Run` | polls, failing shards, offsets dropped and started again |
| Result codec (in `redis_store.go`) | none | `encode` in Lua, `decodeCachedResult` in Go | fields joined by a character that a field may hold, numbers as text |
| Router (`RedisRouter`) | a client per shard | `shard`, `ForAuction`, `Close` | shards fail one by one while a read goes over all of them |
| Configuration (`config/config.go`) | none | `Load`, the constructors' defaults | one error variable for twelve settings, zero, negative and wide numbers |
| Server process (`cmd/server/main.go`) | two serving goroutines, `errCh`, a signal context, a timer | `main` | a server may fail, a signal come, a call or a socket be under way at any moment |
| Metrics (`obs/metrics.go`) | collectors | counting | only accumulates |
| Dashboard (`apps/dashboard`) | a running flag, the latest report in memory and on disk, an event stream per run, a page's button and report | `POST` of the run route, `runEngineTests`, `applyGoLine`, `finalizeReport`, the page's `run()` | a guard checked before an await, emits that throw when the page is gone, restarts in the middle of a run |

How they interact. A gRPC handler takes a token, validates the request and calls
the store; the store asks the breaker, runs the script and reports the outcome
to the breaker. An accepted bid is appended to the auction's stream by the same
script. The dispatcher polls the streams of the auctions the hub knows and
broadcasts what it reads; the hub copies each message to the queues of the
auction's clients, and each client's `writePump` writes it to its connection. The
dashboard is apart from these: a page posts a run, the server runs `go test` in
`apps/api` and streams reports to the page.

What makes each part correct:

- store: accepted amounts rise, a bid id is applied once per idempotency window,
  stream and state hash agree, a reply tells what the stream shows, a decision is
  repeated to whoever asks again within the window, a closed auction stays as it is;
- breaker: nobody passes while it is open, nobody is refused after the window,
  only consecutive failures trip it, it recovers;
- API: tokens match handlers, "nothing was done" codes are true, every call
  returns;
- hub and dispatcher: a client's events have no holes, all events arrive at a
  client that keeps up, dead connections are forgotten, the hub never stops;
- codec: a result is read back as it was written;
- configuration: nothing is served with a malformed setting;
- server process: the store outlives the calls, a signal or a failed server ends
  the process, unless a gRPC call stalls;
- dashboard: a server process has one run at a time, every run ends with a report that tells how
  `go test` ended, pages show it and get their button back.

## 2. Modules

| Module | Models | Kind |
|---|---|---|
| `LuaNumbers` | `tostring`/`tonumber` of Lua 5.1 and Go's `parseInt64` | operators |
| `ResultCodec` | `encode`, `strings.SplitN`, `decodeCachedResult`; extends `LuaNumbers` | operators |
| `Auction` | what the store promises: one auction that changes by atomic steps | abstract specification |
| `AuctionStore` | the keys of one auction, the bid script, `CreateAuction`, callers with timeouts and retries; extends `ResultCodec` | component |
| `AuctionStore_proofs` | theorems about `AuctionStore` | proofs |
| `AuctionReplies_proofs` | theorems about what the store's callers are told; extends `AuctionStore_proofs` | proofs |
| `CircuitBreaker` | `allow`, `success`, `fail`, and the branch of `RedisStore.PlaceBid` that calls them | component |
| `CircuitBreaker_proofs` | theorems about `CircuitBreaker` | proofs |
| `BidGateway` | `API.PlaceBid`; extends `CircuitBreaker` | composition |
| `BidGateway_proofs` | theorems about `BidGateway`; extends `CircuitBreaker_proofs` | proofs |
| `WsHub` | `Hub.Run`, `ServeHTTP`, `readPump`, `writePump` | component |
| `EventFanout` | `EventDispatcher.Run`, `ReadEvents` over the shards; extends `WsHub` | composition |
| `EventFanout_proofs` | theorems about `EventFanout` | proofs |
| `Settings` | `config.Load` and the constructors of the engine | operators |
| `Server` | `main`: start, serving, shutdown; extends `Settings` | component |
| `Server_proofs` | theorems about `Server` and `Settings` | proofs |
| `TestRunner` | the dashboard's run route, runner and page | component |
| `TestRunner_proofs` | theorems about `TestRunner` | proofs |
| `MC...` | instances for TLC | |

### AuctionStore

`state`, `idem` and `events` are the three keys, `idemUntil` the expiry of the
idempotency hash. `net` holds the copies of commands that Redis has not run yet
and `calls` what each goroutine waits for. Redis runs one command at a time, so
each outcome of the script is one action: `BidDuplicate`, `BidNotFound`,
`BidClosed`, `BidEnded`, `BidTooLow`, `BidAccepted`; `SetAuction` is the HSET of
`CreateAuction`. `Retry` is go-redis sending a command again after a late reply
(its default behaviour, which `NewRedisRouter` leaves on), `GiveUp` the end of
the call's context or of the retries: the copies stay in `net`. A reply is read
only by the attempt it belongs to. `Tick` advances the clock and expires the
hash, one expiry for all its fields as `PEXPIRE` sets it. `base` and `appliedAt`
are history variables.

A text that holds a number is a record of the number Lua reads back from it and
of whether Go's parser accepts it. `SigLimit` stands for 10^14, the first number
`%.14g` does not print digit for digit. An encoded result is a sequence of
pieces, the texts between its separators: joining fields is concatenation, a user
id that holds separators brings several pieces, and `SplitN` leaves what follows
the sixth cut in one text.

### CircuitBreaker and BidGateway

`pc[g]` names the next atomic operation of goroutine `g`, `reg[g]` its local
deadline; a local is reset when it goes out of scope. `BidGateway` adds the
semaphore, the gauges and the handler's place `at[g]`, and reuses the breaker's
steps unchanged between `CallStore` and the return of the store. `isOpen` is two
steps, `LoadOpen` and `SetGauge`. `lastStamp`, `streak` and `unopened` are history
variables: the last clock reading of `fail()`, the failures since the last
success, and those since the last success or opening. `faults` bounds the calls that fail: the models
ask what happens when Redis fails for a while and then recovers.

### WsHub and EventFanout

The channels are bounded sequences; a send is guarded by the room in the channel.
The hub is busy dropping clients while `dropping` is not empty, and then holds
`h.mu`: neither another channel nor `KnownAuctions` is served. `client.close()`
is sent by the reader, by the writer and by the hub, so up to three
unregistrations of one client may be under way. `Poll` is a tick of the
dispatcher up to the call of `ReadEvents`; `ReadShard` is the XREAD of one shard,
in the order of the shards, `ShardError` a failed one, after which everything read
so far is discarded; `Publish` is the loop over the events. Shards fail and
recover at any moment, with their streams as they were. The checksum that picks a
shard is the constant function `Hash`. The order of events of different auctions is
left open, since a client watches one auction.

One timing assumption: `Ping` is taken only after the hub has received the
client's registration, because pings are 20 s apart. Without it a connection
that breaks at once could unregister twice before it is registered.

### Settings and Server

The text of an environment variable is abstracted to its form and its number:
unset, a decimal, a duration, anything else. `Load` gives the values and whether
there was an error, `FirstError` which setting the error is about. The integer
widths are the constants `Int32Half` and `Int64Half`; times are in microseconds.

`Server` has one action for every step of `main` at which another goroutine, a
client or a signal can come in between; `pc` names the next one. `GrpcServe` and
`HttpServe` are the serving goroutines, which send the end of their server on
`errCh`; `GrpcFails` and `HttpFails` are servers that fail by themselves. What
`GracefulStop`, `Shutdown` and `NotifyContext` do is taken from their
documentation: `GracefulStop` waits for every call and has no time limit,
`Shutdown` waits for requests until `shutdownCtx` is done and does not know of
upgraded connections, a signal outside the life of `sigCtx` kills the process.
`os.Exit` and panics go to `failed` and skip the deferred calls. A call that ends
with the Redis clients closed is lost.

### TestRunner

The server is one event loop, so what it does between two awaits is one step:
`Post` up to the body, `StartRun`, `StartRefused` or `StartFails` up to
`spawnGoTest`, `onLine` for a line of output, `ChildError` and `ChildCloses` for
the end. `handler[r]` is where request `r` waits. `emit` writes to `out[r]`; once
the server has noticed that the page is gone (`Cancel`) it throws. A throw in the
handler of a line is an uncaught exception, which the Next.js server logs and
survives; lines lost by it do not matter to a report that is turned into an
error anyway. `Crash` restarts the process: memory is lost, the report on disk
stays, and the `go test` that was spawned runs on as an orphan, since nothing kills
it, until `OrphanEnds`. A page (`desk[p]`) is rendered from `getLatestReport`, and reads the
stream of the request in `fetch`. A report is its run and its status: while a
run is active all its reports are equal, so the 200 ms between two updates are
left open.

## 3. Runs

| Run | Shows | Bounds |
|---|---|---|
| `store` | `LogMatchesState`, `AmountsRise`, `AppliedOnce`, `AcceptedIsLogged`, `AnswerIsKept`, `ClosedIsFinal`, `ImplementsAuction` | 2 callers, 3 calls, 1 retry each, 2 commands in flight, 2 ticks, TTL 1; three bids over two ids (one id reused with another amount), two creations |
| `store_separator` | violation of `AcceptedIsLogged`: a separator in a user id shifts the reply's fields | one bid, user id of two pieces |
| `store_retried_create` | violation: a repeated creation loses an accepted bid | 2 calls |
| `breaker` | `NoneSneakThrough`, `RefusedOnlyInWindow`, `TripsOnlyOnStreak`, `OpensInTime`, `AllowReturns`, `Recovers` | 2 goroutines, threshold 2, 6 failures, window 2, 4 ticks |
| `gateway` | `TokensMatchHandlers`, `RefusedNeverSent`, `EveryCallReturns` | 2 handlers, 1 token, 2 failures, 2 ticks |
| `gateway_gauge` | violation: the gauge stays at 1 | 1 handler |
| `fanout` | `NoHoles` and the channels' capacities | 2 clients of 2 auctions on 2 shards, 2 events, 1 outage, queue of 1 |
| `fanout_live` | `EveryEventArrives`, `GoneIsForgotten`, `NoHoles` | 1 client, 4 events, 2 outages, queue of 1 |
| `fanout_stuck` | violation: the hub waits on itself | 2 clients, unregister channel of 1 |
| `dashboard` | `OneRunAtATime`, `NoLeftover`, `VerdictShown`, `FinishedStays`, `RunsEnd`, `DeskReleases` | 2 pages, 2 requests, 1 check, 1 restart |
| `dashboard_passed` | violation: a failed `go test` is reported as passed | 1 page, 1 request, 2 checks |
| `server` | `StoreOutlivesCalls`, `MalformedNeverServes`, `SignalEndsProcess`, `FailedServerEndsProcess` | 13 environments, 2 calls, 1 request, 1 socket |

Why the bounds are enough. In `store` three calls are a creation and two bids,
or two creations around a bid, and every command may be duplicated, so a bid can
be retried, repeated after the window, overtaken by a creation, and be late at
the end of the auction; the theorems remove the bounds. All amounts of the run are
`Exact`: what larger ones do is under section 4. The breaker's windows
and failures are sized so that it trips, expires, is swapped and trips again
while the other goroutine still holds the first deadline, and six failures are two
more than `OpensInTime` allows; the theorems hold for
any number of goroutines. In `fanout` two auctions on two shards are what makes a
read half done when the second shard fails; an auction is forgotten when its client
leaves and messages of it are still under way. A queue of 1 makes a client slow
with two events; `fanout_live` has four, so that a skipped message would show as
a hole between others. `UnregisterCap` is 6, three
for each client, except where the full channel is the question; the real channel
holds 1024, so the run `fanout_stuck` stands for some 340 connections that break
while others are dropped.

In `dashboard` two requests race for the flag, and each may outlive its page; one
check is enough for every status of a report, and one restart for an orphaned
`go test` beside a new one. In `server` the environments have
one setting of each kind the code tells apart (malformed, out of range, zero,
negative, wrapped by `int32`, too long a duration, blank addresses); two calls are a call that is under
way at the stop and one that comes after it. The widths are scaled to 2^20 and
2^30, which TLC's integers hold.

Deadlock is not checked in `store` and `fanout*`, where behaviours end at the
bounds on calls, events and time, nor in `server`, where the process ends. Symmetry is used only in runs without liveness
properties.

Fairness. Each goroutine goes on while it can (the Go scheduler), the clock moves,
and the hub's `select` passes over no ready channel for ever (it picks at
random). Nothing is assumed of the shards: `EveryEventArrives` names the ones that
have to answer in the end. In `Server`, `main` goes on and the shutdown's time runs
out; gRPC calls, HTTP requests and sockets may stay for ever. The Redis timeouts
bound a handler, but a client that opens a call and sends nothing is bounded by
nothing, so `SignalEndsProcess` and `FailedServerEndsProcess` name the condition
themselves: `CallsEnd`, no call runs for ever. The dashboard's
server gets to every request, `go test` ends (it has a time limit of its own), and
a page reads what has arrived. Calls, connections,
disconnections and bids are not fair; `Recovers` and `GaugeShowsState` name the
traffic they need. In `CircuitBreaker` the number of failed calls is bounded;
that `allow()` returns is not claimed for a Redis that fails for ever.

## 4. Findings

1. A user id that holds `|` shifts the fields of the result behind it: the bidder
   of an accepted bid is told another winner, version 0 and a wrong event id
   (`store_separator`).
2. A repeated `CreateAuction` command resets accepted bids
   (`store_retried_create`).
3. The breaker gauge is updated on errors only (`gateway_gauge`).
4. The hub may wait for ever on its own unregister channel (`fanout_stuck`).
5. A `go test` that fails without a failed check, because a package does not
   build or a test binary ends early, is reported as passed (`dashboard_passed`).

Two behaviours contradict a text of the repository and are shown by no run.
Amounts from 10^14 cents on are printed by Lua's `tostring` in exponent form: the
reply's price is then parsed as 0 and the stored price is rounded, while
`catalog.ts:108` says that a stored result "decodes back into the same fields". The
theorems about amounts assume `Exact`, and the run `store` has only such amounts. A
threshold of 2^31 or more becomes zero or negative as an `int32`, and then every
failure opens the breaker, while `catalog.ts:31` says that "the engine refuses bad
configuration instead of starting half-broken"; the run `server` has such an
environment, and the only thing its `TypeOK` says of the threshold is that it is an
`int32`.

A call that stalls holds `GracefulStop`, and with it the process, for ever: there is
no limit on the drain and none on a gRPC call. The drain also uses up the time that
`GRACEFUL_SHUTDOWN_TIMEOUT` gives to the HTTP server, so that requests may be cut off
at once. A dashboard server that is restarted does not know of the `go test` of its
predecessor and may start another beside it.

Behaviours the models have that contradict no promise of the source: a
success that falls between the count and the store of `fail()` is overwritten, so
the breaker may be open with a count of zero; and an unregistration may overtake
its registration, so that the hub keeps a dead client until a ping or a full
queue finds it (`GoneIsForgotten` says that one of them does). One shard that never
answers again keeps the watchers of all the other shards waiting, since every read is
discarded. Sockets are cut off without a close frame; a server that failed ends the
process with status 0. A page that is rendered during a run starts
busy and reads no stream, so it stays so until it is loaded again. A page that loses
the race for the dashboard's flag gets an empty stream and no message; a run that
cannot find `apps/api` rewrites the report of the run before it (`FinishedStays` is
stated for a runner that finds it); a server that is
restarted in the middle of a run reads a running report from disk and renders
every page busy; a run whose page has left is remembered as an error.

## 5. Proofs

`AuctionStore_proofs`, from `SigLimitAssumption`, `RequestAssumption` and
`SettingAssumption` (requests are well formed, settings are numbers):

- `TypeCorrect`. `TypeOK` is inductive once it is known that a caller under way
  has a request (`Typed`), since `Retry` sends that request again.
- `LogCorrect`. `LogMatchesState` is inductive over `Typed`: only `BidAccepted`
  and `SetAuction` touch what it speaks of (`QuietSteps`).
- `Idempotent`. `AppliedOnce` speaks of the past; the strengthening `Remembered`
  says why it stays true: a bid applied less than a window ago is still in the
  hash, and the hash's expiry is not before the end of the bid's own window,
  because every `cache` moves it to a later time.
- `HigherBidsOnly` and `StoreImplementsAuction` assume that every amount is
  `Exact`, below the precision of `tostring`.
  The strengthening `Rising` bounds every amount since the last creation by the
  standing price.
- `ClosedAuctionsStay`, an action property, from `Typed` and `QuietSteps`.
- `DecisionSurvives` and `DecodesBack`, about the codec: the decision, its reason
  and an exact price are read back whatever the user id holds, because they stand
  in front of it; with a user id of one piece every field is. Finding 1 is what
  happens to the other fields without. `WordsAssumption` names the texts the script
  itself writes.

`AuctionReplies_proofs` adds what callers are told, in two steps. `Matched` says
that a command on its way asks for what its caller waits for, if the caller is still
in the call that sent it, so that no reply of an earlier call is taken for one of
this, and that it bears the same time stamp. `RepliesInv` says that every cached result and every reply that has been read
names an event of the stream; a cached result is what a duplicate is answered with,
so the one is not inductive without the other.

- `DecisionsAreKept`: `AnswerIsKept`. The strengthening `KeptInv` adds that the
  hash's expiry is not before the end of the window of any caller's decision. It
  needs `Stamped`, that no time stamp is later than the clock: the expiry is set from
  the time at which the script runs, the window is counted from the earlier time at
  which the caller read its clock.
- `AcceptedCanBeFound`: `AcceptedIsLogged`, if user ids have one piece, in every
  state whose stream is shorter than `SigLimit`. Both hypotheses are needed: without
  the first the statement is refuted by `store_separator` (finding 1), and from
  version 10^14 on `tostring` does not print the version as Go reads it. Nothing is
  assumed of the amounts: stream and result hold the same text.

`CircuitBreaker_proofs`, from `BreakerAssumption` and `GoroutinesAssumption` (a
finite number of goroutines): `BreakerInv` says that every deadline, stored or still
in a goroutine's register, lies within a window of the last stamp, that a goroutine
about to swap has seen its deadline pass and that it was not zero, and that the
count does not exceed the failures since the last success. From it follow
`NoneSneaksThrough`, `RefusalsAreInWindow` and `TripsNeedStreak`.

`BreakerOpensInTime` needs a counting argument. A goroutine between the swap and the
`Store(0)` of `allow()` will erase the failures counted meanwhile; so will whoever
swaps the deadline that is set. These are the `Erasers`. A goroutine that can fail
was let through while no deadline was set, so erasers and admitted goroutines are
together at most as many as there are goroutines. `CostInv` bounds the failures since
the last success or opening by `Threshold - 1` for every eraser that has already done
its work, those in the count, and those of goroutines about to open the breaker.

`BidGateway_proofs` shows that the breaker keeps its promises in its only use:
`BreakerPart` says that a step of a handler is one of the breaker's, or a read of
the deadline by a handler that is not in the store (`isOpen` for the gauge), so that
the lemmas about the breaker's steps apply (`GatewayNoneSneaks`,
`GatewayRefusalsInWindow`, `GatewayTripsNeedStreak`, `GatewayOpensInTime`).
`HandlerInv` relates the handler's place to the breaker's and says that a handler
has not started the script before `allow()` let it through; `GatewayInv` adds that
semaphore and gauge are the numbers of handlers at the places that hold a token.
From it follow `TokensAreMatched` and `RefusalsAreTrue`.

`EventFanout_proofs`, from `HubAssumption` and `FanoutAssumption` (capacities and
bounds are numbers, every client has an auction). `FanoutTypeCorrect` needs `ReadInv`:
what was read of a stream follows its offset and is on the stream. `NothingMissed` is
about a chain that reaches from the stream to the connection. For each auction the
*places* at which its events wait are its messages on the broadcast channel and,
behind the last of these, the next event to be read. Event `y` may follow `x` if it is
the next one or the first of a replay. The inductive invariant `FanoutInv` says:

- `LineInv`: at consecutive places each event follows the one before;
- `SentInv`: what a client was written has no holes, its queue has none and goes on
  where the writes ended, as long as its writer writes;
- `LinkInv`: the first waiting event of its auction goes on where the queue of a
  subscriber ends, unless the hub is about to drop it. This is where a message that
  a full queue misses would break the chain, and why the hub must drop the client
  before it takes the next message;
- `ConnInv`: a connection is registered once, and a client the hub does not know yet
  has no events. So a client joins with an empty queue when everything that waits was
  already on the stream, which gives the bound on the first event it is sent.

`TestRunner_proofs`, from `RunnerAssumption` (the bounds are numbers): `RunnerInv`
adds to `TypeOK` that a request awaits `spawnGoTest` exactly while its `go test` is at
work, so that the end of one leaves none behind; `SingleRun` follows, with a count of
the orphans: a restart makes at most one, because at most one was at work.
`IdleIsSettled` needs besides that a process that has started a run holds a report
in memory (`MemoryKnows`), since loading a page copies the disk to memory only
when there is none. `FinishedIsKept` needs that runs are numbered upwards and that
the report in memory says running while a run is active (`NumberInv`). For
`VerdictIsShown` a stream has one reader and is cancelled only when that has left
(`ReadersInv`), and the last report on the stream of a run that has ended, or the one
shown when the stream has been read to its end, is a final status of that run, and
the one in memory if that is of the same run (`VerdictsInv`). The last part rests on
`RunsInv`: no two requests have the same run, and a process that has started a run
finds `apps/api`, so that no later request of it rewrites the report.

`Server_proofs`, from `WidthAssumption` and `ServerAssumption` (widths are
numbers, environments are well typed): `Inv` says that `errCh` holds at most one
result of each goroutine, that neither goroutine runs before it is started, that the
Redis clients are open from the router's construction to its close, and that no call
runs from the end of the drain on; from it follow `ServerTypeCorrect` and
`StoreStaysOpen`. The part `ServiceOK` of `TypeOK` comes from `AssembledOK`: for any
numbers that `Load` gives, the constructors leave at least one client and positive
times; of the threshold it says only that it is an `int32`. The invariant `Past` says
that `main` goes past `Load` only without an error. With `LoadChecksAll` (no error
means that all twelve settings are unset or well formed) it gives
`MalformedIsRefused`.

Only model-checked: liveness (`AllowReturns`, `Recovers`, `EveryCallReturns`,
`EveryEventArrives`, `GoneIsForgotten`, `SignalEndsProcess`,
`FailedServerEndsProcess`, `RunsEnd`, `DeskReleases`), which the prover does not
handle. Every invariant and every action property of a passing run is also proved;
`AcceptedIsLogged`, `AmountsRise` and `ImplementsAuction` under the
hypotheses named above, which the instances of their runs satisfy.

## 6. Not modelled

- The generated gRPC stubs and the load test: generated code, and a client program
  that measures and keeps no state of the system.
- The presentation of the dashboard's reports (nesting, filters, wording, layout),
  its engine badge and its query string: pure text.
- Latency and outcome metrics and the lag gauge: they only accumulate, and nothing
  reads them.
- The answers of `/healthz` and `/readyz`, the log level, the garbage collector's
  settings, `RedisAddrFromEnv`: they change no state another part reads. `/readyz`
  asks only the shard of the id `health`, and says ready while the server drains.
- Status codes of `CreateAuction`: every error is `InvalidArgument`, also one of
  Redis; the caller is told nothing that the model could relate to the store.

## 7. Plan

Done: all the components above, their runs, and the proofs of section 5. What could
still be proved are the safety parts of the liveness properties, in this order:

1. `GoneIsForgotten`: that a dead connection the hub still knows always has a ping, a
   write or an unregistration ahead of it.
2. `EveryEventArrives`: that an event after the offset of a watched auction is on its
   stream, on the channel, in the client's queue or written, so that none is left
   over when the channels are empty.
3. `DeskReleases`: that a page that waits has a request whose stream is open.
