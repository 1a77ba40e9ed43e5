------------------------------ MODULE Settings ------------------------------
(***************************************************************************)
(* What the server reads from its environment: config.Load, and what the   *)
(* constructors that main calls make of the values.                        *)
(*                                                                         *)
(* The text of a variable is abstracted to its form: "unset" (or empty), a *)
(* decimal "number" n, a "duration" of n microseconds (a number with a     *)
(* unit), or any "other" text.  Widths are scaled down in the models.      *)
(***************************************************************************)
EXTENDS Integers, Sequences

CONSTANTS
  Int32Half,   \* 2^31, an int32 is in -Int32Half .. Int32Half - 1
  Int64Half    \* 2^63

ASSUME WidthAssumption ==
  Int32Half \in Nat /\ Int64Half \in Nat /\ 20 < Int32Half /\ Int32Half <= Int64Half

EnvText == [form : {"unset", "number", "duration", "other"}, n : Int]
Unset == [form |-> "unset", n |-> 0]

DurationKeys == {"BID_IDEMPOTENCY_TTL", "DEFAULT_AUCTION_DURATION",
                 "BREAKER_OPEN_FOR", "GRACEFUL_SHUTDOWN_TIMEOUT"}
IntKeys == {"REDIS_DB", "REDIS_POOL_SIZE", "STREAM_READ_COUNT",
            "MAX_INFLIGHT_BIDS", "MAX_WS_QUEUE_DEPTH",
            "BREAKER_FAILURE_THRESHOLD", "GOGC", "GOMEMLIMIT_BYTES"}
Keys == IntKeys \cup DurationKeys

\* The order in which Load evaluates them.
LoadOrder == <<"REDIS_DB", "REDIS_POOL_SIZE", "BID_IDEMPOTENCY_TTL",
  "DEFAULT_AUCTION_DURATION", "STREAM_READ_COUNT", "MAX_INFLIGHT_BIDS",
  "MAX_WS_QUEUE_DEPTH", "BREAKER_FAILURE_THRESHOLD", "BREAKER_OPEN_FOR",
  "GRACEFUL_SHUTDOWN_TIMEOUT", "GOGC", "GOMEMLIMIT_BYTES">>

Fallback == [k \in Keys |->
  CASE k = "REDIS_POOL_SIZE" -> 256
    [] k = "BID_IDEMPOTENCY_TTL" -> 600000000
    [] k = "DEFAULT_AUCTION_DURATION" -> 600000000
    [] k = "STREAM_READ_COUNT" -> 256
    [] k = "MAX_INFLIGHT_BIDS" -> 100000
    [] k = "MAX_WS_QUEUE_DEPTH" -> 2048
    [] k = "BREAKER_FAILURE_THRESHOLD" -> 20
    [] k = "BREAKER_OPEN_FOR" -> 500000
    [] k = "GRACEFUL_SHUTDOWN_TIMEOUT" -> 10000000
    [] k = "GOGC" -> 100
    [] OTHER -> 0]

Int64 == -Int64Half .. Int64Half - 1

\* strconv.Atoi and ParseInt(_, 10, 64); time.ParseDuration, which counts
\* nanoseconds and for which 0 needs no unit.
WellFormed(k, text) ==
  IF k \in DurationKeys
  THEN \/ text.form = "duration" /\ 1000 * text.n \in Int64
       \/ text.form = "number" /\ text.n = 0
  ELSE text.form = "number" /\ text.n \in Int64

\* getEnvInt, getEnvInt64 and getEnvDuration: the value, and whether it is one.
getEnvNumber(k, text) ==
  IF text = Unset THEN [val |-> Fallback[k], ok |-> TRUE]
  ELSE IF WellFormed(k, text) THEN [val |-> text.n, ok |-> TRUE]
  ELSE [val |-> 0, ok |-> FALSE]

\* REDIS_ADDRS is the sequence of the parts between its commas, each a text and
\* whether there is white space around it; a blank part has the text "".
DefaultAddrs == <<[text |-> "127.0.0.1:6379", padded |-> FALSE]>>
TrimSpace(part) == [part EXCEPT !.padded = FALSE]
Blank == [text |-> "", padded |-> FALSE]
splitAddrs(raw) ==
  SelectSeq([i \in 1 .. Len(raw) |-> TrimSpace(raw[i])], LAMBDA p : p # Blank)

\* Mutant: every setting overwrites err.
FirstErrorLast(env) ==
  LET last == Len(LoadOrder)
  IN  IF getEnvNumber(LoadOrder[last], env[LoadOrder[last]]).ok THEN 0 ELSE last

\* The place in LoadOrder of the first malformed setting, 0 for none.
FirstError(env) ==
  LET bad == {i \in 1 .. Len(LoadOrder) :
                ~getEnvNumber(LoadOrder[i], env[LoadOrder[i]]).ok}
  IN  IF bad = {} THEN 0 ELSE CHOOSE i \in bad : \A j \in bad : i <= j

\* env gives each of Keys its text; rawAddrs is empty if REDIS_ADDRS is unset.
Load(env, rawAddrs) ==
  LET addrs == splitAddrs(IF rawAddrs = << >> THEN DefaultAddrs ELSE rawAddrs)
  IN  [ok |-> FirstError(env) = 0 /\ addrs # << >>,
       addrs |-> addrs,
       val |-> [k \in Keys |-> getEnvNumber(k, env[k]).val]]

-----------------------------------------------------------------------------
(* The constructors.                                                       *)

int32(n) == ((n + Int32Half) % (2 * Int32Half)) - Int32Half

OrDefault(n, default) == IF n <= 0 THEN default ELSE n

NewService(duration) == OrDefault(duration, 600000000)
newCircuitBreaker(threshold, openFor) ==
  [failureThreshold |-> int32(OrDefault(threshold, 5)),
   openFor |-> OrDefault(openFor, 500000)]
NewEventDispatcher(count) == OrDefault(count, 256)

=============================================================================
