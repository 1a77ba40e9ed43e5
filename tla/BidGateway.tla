----------------------------- MODULE BidGateway -----------------------------
(***************************************************************************)
(* The gRPC handler API.PlaceBid in front of the store: the in-flight      *)
(* semaphore, the checks of Service.PlaceBid, the call of the store through *)
(* the circuit breaker, the mapping of its errors to status codes and the  *)
(* breaker gauge.  A handler is a goroutine of CircuitBreaker; at[g] is    *)
(* where it is in PlaceBid:                                                *)
(*   "idle", "enter", "service", "store", "error", "gauge", "respond"      *)
(***************************************************************************)
EXTENDS CircuitBreaker

CONSTANT MaxInFlight   \* cfg.MaxInFlightBids, the semaphore's capacity

ASSUME InFlightAssumption == MaxInFlight \in Nat \ {0}

VARIABLES
  at,
  inflightSem,    \* tokens in the semaphore's channel
  inFlightBids,   \* gauge auction_inflight_bids
  breakerGauge,   \* gauge auction_redis_breaker_open
  code,           \* per handler, the status code of its last call
  sent            \* history: per handler, its last call reached the script

apiVars == <<at, inflightSem, inFlightBids, breakerGauge, code, sent>>
vars == <<brVars, apiVars>>

Codes == {"none", "OK", "ResourceExhausted", "InvalidArgument", "Unavailable",
          "DeadlineExceeded", "Internal"}

Holding == {"service", "store", "error", "gauge", "respond"}

Init ==
  /\ BreakerInit
  /\ at = [g \in Goroutines |-> "idle"]
  /\ inflightSem = 0
  /\ inFlightBids = 0
  /\ breakerGauge = 0
  /\ code = [g \in Goroutines |-> "none"]
  /\ sent = [g \in Goroutines |-> FALSE]

Move(g, from, to) == at[g] = from /\ at' = [at EXCEPT ![g] = to]

Enter(g) ==
  /\ Move(g, "idle", "enter")
  /\ inFlightBids' = inFlightBids + 1
  /\ sent' = [sent EXCEPT ![g] = FALSE]
  /\ code' = [code EXCEPT ![g] = "none"]
  /\ UNCHANGED <<brVars, inflightSem, breakerGauge>>

Acquire(g) ==
  /\ inflightSem < MaxInFlight
  /\ Move(g, "enter", "service")
  /\ inflightSem' = inflightSem + 1
  /\ UNCHANGED <<brVars, inFlightBids, breakerGauge, code, sent>>

\* Mutant: the select has no default case.
OverloadedWaits(g) ==
  /\ FALSE
  /\ Move(g, "enter", "idle")
  /\ UNCHANGED <<brVars, inflightSem, inFlightBids, breakerGauge, code, sent>>

\* Mutant: the release is deferred before the select.
OverloadedReleases(g) ==
  /\ inflightSem >= MaxInFlight
  /\ Move(g, "enter", "idle")
  /\ inflightSem' = inflightSem - 1
  /\ inFlightBids' = inFlightBids - 1
  /\ code' = [code EXCEPT ![g] = "ResourceExhausted"]
  /\ UNCHANGED <<brVars, breakerGauge, sent>>

Overloaded(g) ==
  /\ inflightSem >= MaxInFlight
  /\ Move(g, "enter", "idle")
  /\ inFlightBids' = inFlightBids - 1
  /\ code' = [code EXCEPT ![g] = "ResourceExhausted"]
  /\ UNCHANGED <<brVars, inflightSem, breakerGauge, sent>>

\* Service.PlaceBid: an id is missing or the amount is not positive.
Invalid(g) ==
  /\ Move(g, "service", "error")
  /\ code' = [code EXCEPT ![g] = "InvalidArgument"]
  /\ UNCHANGED <<brVars, inflightSem, inFlightBids, breakerGauge, sent>>

CallStore(g) ==
  /\ Move(g, "service", "store")
  /\ CallAllow(g)
  /\ UNCHANGED <<inflightSem, inFlightBids, breakerGauge, code, sent>>

\* A step of the goroutine inside RedisStore.PlaceBid.
InStore(g) ==
  /\ at[g] = "store"
  /\ Step(g)
  /\ sent' = [sent EXCEPT ![g] = @ \/ pc[g] = "script"]
  /\ UNCHANGED <<at, inflightSem, inFlightBids, breakerGauge, code>>

\* Mutant: every error of the store is answered with Unavailable.
ErrorCodesAll(g) == {"Unavailable"}

\* A failed call is DeadlineExceeded when its context ended, else Internal;
\* an auction that does not exist is Internal.
ErrorCodes(g) ==
  CASE outcome[g] = "refused" -> {"Unavailable"}
    [] outcome[g] = "failed" -> {"DeadlineExceeded", "Internal"}
    [] OTHER -> {"Internal"}

StoreOk(g) ==
  /\ pc[g] = "out"
  /\ outcome[g] = "answered"
  /\ Move(g, "store", "respond")
  /\ code' = [code EXCEPT ![g] = "OK"]
  /\ UNCHANGED <<brVars, inflightSem, inFlightBids, breakerGauge, sent>>

StoreError(g) ==
  /\ pc[g] = "out"
  /\ outcome[g] # "answered"
  /\ Move(g, "store", "error")
  /\ \E c \in ErrorCodes(g) : code' = [code EXCEPT ![g] = c]
  /\ UNCHANGED <<brVars, inflightSem, inFlightBids, breakerGauge, sent>>

\* a.breakerOpen(), that is isOpen(): the load, then the clock and the gauge.
LoadOpen(g) ==
  /\ Move(g, "error", "gauge")
  /\ reg' = [reg EXCEPT ![g] = openUntilNs]
  /\ UNCHANGED <<now, breaker, pc, outcome, faults, failHist,
                 inflightSem, inFlightBids, breakerGauge, code, sent>>

SetGauge(g) ==
  /\ Move(g, "gauge", "respond")
  /\ breakerGauge' = IF reg[g] # 0 /\ now < reg[g] THEN 1 ELSE 0
  /\ reg' = [reg EXCEPT ![g] = 0]
  /\ UNCHANGED <<now, breaker, pc, outcome, faults, failHist,
                 inflightSem, inFlightBids, code, sent>>

\* Mutant: the token is released only by a call that succeeds.
RespondKeepsToken(g) ==
  /\ Move(g, "respond", "idle")
  /\ inflightSem' = IF code[g] = "OK" THEN inflightSem - 1 ELSE inflightSem
  /\ inFlightBids' = inFlightBids - 1
  /\ UNCHANGED <<brVars, breakerGauge, code, sent>>

\* The deferred calls run on every way out.
Respond(g) ==
  /\ Move(g, "respond", "idle")
  /\ inflightSem' = inflightSem - 1
  /\ inFlightBids' = inFlightBids - 1
  /\ UNCHANGED <<brVars, breakerGauge, code, sent>>

Handle(g) ==
  \/ Acquire(g) \/ Overloaded(g)
  \/ Invalid(g) \/ CallStore(g) \/ InStore(g)
  \/ StoreOk(g) \/ StoreError(g)
  \/ LoadOpen(g) \/ SetGauge(g)
  \/ Respond(g)

Next ==
  \/ \E g \in Goroutines : Enter(g) \/ Handle(g)
  \/ Tick /\ UNCHANGED apiVars

Fairness ==
  /\ \A g \in Goroutines : WF_vars(Handle(g))
  /\ WF_vars(Tick /\ UNCHANGED apiVars)

Safe == Init /\ [][Next]_vars

Spec == Safe /\ Fairness

-----------------------------------------------------------------------------
(* Properties.                                                             *)

\* The shape of the handlers' state and of the two gauges.
TypeOK ==
  /\ BreakerTypeOK
  /\ at \in [Goroutines -> Holding \cup {"idle", "enter"}]
  /\ inflightSem \in 0 .. MaxInFlight
  /\ inFlightBids \in Nat
  /\ breakerGauge \in {0, 1}
  /\ code \in [Goroutines -> Codes]
  /\ sent \in [Goroutines -> BOOLEAN]

\* The semaphore holds one token for each handler past its select, on every
\* path out of PlaceBid, and the in-flight gauge counts every handler: no
\* error path leaks capacity until all bids are answered "server overloaded".
TokensMatchHandlers ==
  /\ inflightSem = Cardinality({g \in Goroutines : at[g] \in Holding})
  /\ inFlightBids = Cardinality({g \in Goroutines : at[g] # "idle"})

\* A caller told ResourceExhausted, Unavailable or InvalidArgument may repeat
\* the bid or drop it: the bid script was not started for that call.
RefusedNeverSent ==
  \A g \in Goroutines :
    (at[g] = "idle" /\ code[g] \in {"ResourceExhausted", "Unavailable",
                                    "InvalidArgument"}) => ~sent[g]

\* Every call of PlaceBid is answered.
EveryCallReturns ==
  \A g \in Goroutines : at[g] = "enter" ~> at[g] = "idle"

\* "Redis breaker state (1=open, 0=closed)": if bids keep being answered OK
\* the gauge shows 0 in the end.
GaugeShowsState ==
  ([]<>(\E g \in Goroutines : at[g] = "respond" /\ code[g] = "OK")) =>
    []<>(breakerGauge = 0)

=============================================================================
