------------------------------ MODULE MCServer ------------------------------
(* An instance of Server for TLC: environments with one setting of every   *)
(* kind that Load and the constructors tell apart.                         *)
EXTENDS Server

Num(n) == [form |-> "number", n |-> n]
Dur(n) == [form |-> "duration", n |-> n]
Part(t, p) == [text |-> t, padded |-> p]

Default == [k \in Keys |-> Unset]
With(k, text) == [env |-> [Default EXCEPT ![k] = text], addrs |-> << >>]

MCEnvironments ==
  { [env |-> Default, addrs |-> << >>],
    [env |-> Default, addrs |-> <<Part("", TRUE), Part("", FALSE)>>],
    [env |-> Default, addrs |-> <<Part("a", TRUE), Part("", FALSE), Part("b", FALSE)>>],
    With("REDIS_POOL_SIZE", [form |-> "other", n |-> 0]),
    With("REDIS_POOL_SIZE", Num(Int64Half)),
    With("BREAKER_OPEN_FOR", Num(5)),
    With("BREAKER_OPEN_FOR", Num(0)),
    With("BREAKER_OPEN_FOR", Dur(2 * (Int64Half \div 1000))),
    With("DEFAULT_AUCTION_DURATION", Dur(-1)),
    With("STREAM_READ_COUNT", Num(-1)),
    With("BREAKER_FAILURE_THRESHOLD", Num(-1)),
    With("BREAKER_FAILURE_THRESHOLD", Num(2 * Int32Half)),
    With("MAX_INFLIGHT_BIDS", Num(-1)) }

=============================================================================
