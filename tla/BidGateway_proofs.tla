------------------------- MODULE BidGateway_proofs --------------------------
(***************************************************************************)
(* Proofs about the gRPC handler, for any number of handlers, tokens and   *)
(* failures: tokens are accounted for on every way out, the codes that     *)
(* promise that nothing was done are true, and the breaker keeps what is   *)
(* proved of it although the handlers also read its deadline.              *)
(***************************************************************************)
EXTENDS BidGateway, CircuitBreaker_proofs

Refusals == {"ResourceExhausted", "Unavailable", "InvalidArgument"}
Busy == Holding \cup {"enter"}

\* A handler is in the store's PlaceBid only while it is at "store", and has no
\* outcome there; it has no code before it comes back, it has not started the
\* script before allow() let it through, and a refusal is given only to one that
\* has not started it.
HandlerInv ==
  \A g \in Goroutines :
    /\ at[g] # "store" => pc[g] = "out"
    /\ pc[g] # "out" => outcome[g] = "none"
    /\ at[g] \in {"enter", "service", "store"} => code[g] = "none"
    /\ at[g] \in {"enter", "service"} => ~sent[g]
    /\ at[g] = "store" /\ pc[g] \in InAllow => ~sent[g]
    /\ at[g] = "store" /\ outcome[g] = "refused" => ~sent[g]
    /\ code[g] \in Refusals => ~sent[g]

GatewayInv ==
  /\ TypeOK
  /\ BreakerInv
  /\ HandlerInv
  /\ inflightSem = Cardinality(Those(at, Holding))
  /\ inFlightBids = Cardinality(Those(at, Busy))

\* What a move of one handler does to the tokens and to the gauge.
LEMMA HandlerMoves ==
  ASSUME TypeOK, NEW g \in Goroutines, NEW from, NEW to, Move(g, from, to)
  PROVE  \A P : /\ Cardinality(Those(at, P)) \in Nat
                /\ Cardinality(Those(at', P)) =
                     Cardinality(Those(at, P)) + One(to \in P) - One(from \in P)
<1> DEFINE Places == Holding \cup {"idle", "enter"}
<1>1. at \in [Goroutines -> Places] /\ at[g] = from /\ at' = [at EXCEPT ![g] = to]
  BY DEF TypeOK, Move
<1> HIDE DEF Places
<1>2. \A P : /\ Cardinality(Those(at, P)) \in Nat
             /\ Cardinality(Those([at EXCEPT ![g] = to], P)) =
                  Cardinality(Those(at, P)) + One(to \in P) - One(at[g] \in P)
  BY <1>1, MoveCounts, Zenon
<1> QED  BY <1>1, <1>2, Zenon

\* A handler that is at one of the places P is counted.
LEMMA HandlerCounted ==
  ASSUME NEW g \in Goroutines, NEW P, at[g] \in P
  PROVE  Cardinality(Those(at, P)) >= 1
<1>1. Those(at, P) \in SUBSET Goroutines /\ Those(at, P) # {}
  BY DEF Those
<1>2. IsFiniteSet(Those(at, P))
  BY <1>1, GoroutinesAssumption, FS_Subset
<1> QED  BY <1>1, <1>2, FS_CardinalityType, FS_EmptySet

\* The breaker's state changes only by the breaker's own steps, but for the
\* local of a handler that asks isOpen(), which is not in PlaceBid then.
LEMMA BreakerPart ==
  ASSUME GatewayInv, [Next]_vars
  PROVE  \/ [BreakerNext]_brVars
         \/ \E g \in Goroutines :
              /\ pc[g] = "out"
              /\ \E n \in Nat : reg' = [reg EXCEPT ![g] = n]
              /\ UNCHANGED <<now, breaker, pc, outcome, faults, failHist>>
<1> USE DEF GatewayInv
<1>1. CASE UNCHANGED vars \/ (Tick /\ UNCHANGED apiVars)
  BY <1>1 DEF vars, BreakerNext
<1>2. ASSUME NEW g \in Goroutines, CallStore(g) \/ InStore(g)
      PROVE  BreakerNext
  BY <1>2 DEF CallStore, InStore, BreakerNext
<1>3. ASSUME NEW g \in Goroutines, LoadOpen(g) \/ SetGauge(g)
      PROVE  /\ pc[g] = "out"
             /\ \E n \in Nat : reg' = [reg EXCEPT ![g] = n]
             /\ UNCHANGED <<now, breaker, pc, outcome, faults, failHist>>
  BY <1>3 DEF LoadOpen, SetGauge, Move, HandlerInv, BreakerInv, BreakerTypeOK
<1>4. ASSUME NEW g \in Goroutines,
             \/ Enter(g) \/ Acquire(g) \/ Overloaded(g) \/ Invalid(g)
             \/ StoreOk(g) \/ StoreError(g) \/ Respond(g)
      PROVE  UNCHANGED brVars
  BY <1>4 DEF Enter, Acquire, Overloaded, Invalid, StoreOk, StoreError, Respond
<1> QED  BY <1>1, <1>2, <1>3, <1>4 DEF Next, Handle

LEMMA GatewayBreakerInv ==
  ASSUME GatewayInv, [Next]_vars
  PROVE  BreakerInv'
<1>1. CASE [BreakerNext]_brVars
  BY <1>1, BreakerInvStep DEF GatewayInv
<1>2. ASSUME NEW g \in Goroutines, pc[g] = "out", NEW n \in Nat,
             reg' = [reg EXCEPT ![g] = n],
             UNCHANGED <<now, breaker, pc, outcome, faults, failHist>>
      PROVE  BreakerInv'
  BY <1>2 DEF GatewayInv, BreakerInv, BreakerTypeOK, breaker, failHist
<1> QED  BY <1>1, <1>2, BreakerPart

\* The initial state satisfies the invariant.
LEMMA GatewayInvInit == Init => GatewayInv
<1> SUFFICES ASSUME Init PROVE GatewayInv
  OBVIOUS
<1>1. BreakerInv
  BY BreakerInvInit DEF Init
<1>2. TypeOK
  BY <1>1, InFlightAssumption DEF Init, TypeOK, BreakerInv, Codes
<1>3. HandlerInv
  BY DEF Init, BreakerInit, HandlerInv, Refusals
<1>4. Those(at, Holding) = {} /\ Those(at, Busy) = {}
  BY DEF Init, Those, Busy, Holding
<1>5. inflightSem = 0 /\ inFlightBids = 0
  BY DEF Init
<1> QED  BY <1>1, <1>2, <1>3, <1>4, <1>5, FS_EmptySet DEF GatewayInv

\* Tokens and gauge follow the handlers.
LEMMA TokensStep ==
  ASSUME GatewayInv, [Next]_vars
  PROVE  /\ inflightSem' = Cardinality(Those(at', Holding))
         /\ inFlightBids' = Cardinality(Those(at', Busy))
         /\ inflightSem' \in 0 .. MaxInFlight
         /\ inFlightBids' \in Nat
<1> DEFINE Goal == /\ inflightSem' = Cardinality(Those(at', Holding))
                   /\ inFlightBids' = Cardinality(Those(at', Busy))
                   /\ inflightSem' \in 0 .. MaxInFlight
                   /\ inFlightBids' \in Nat
<1>1. /\ TypeOK
      /\ inflightSem = Cardinality(Those(at, Holding))
      /\ inFlightBids = Cardinality(Those(at, Busy))
      /\ inflightSem \in 0 .. MaxInFlight /\ inFlightBids \in Nat
  BY DEF GatewayInv, TypeOK
<1> DEFINE Counts(from, to) ==
       /\ Cardinality(Those(at', Holding)) =
            inflightSem + One(to \in Holding) - One(from \in Holding)
       /\ Cardinality(Those(at', Busy)) =
            inFlightBids + One(to \in Busy) - One(from \in Busy)
<1>2. ASSUME NEW g \in Goroutines, NEW from, NEW to, Move(g, from, to)
      PROVE  Counts(from, to)
  BY <1>1, <1>2, HandlerMoves
<1>3. CASE UNCHANGED <<at, inflightSem, inFlightBids>>
  BY <1>1, <1>3
<1>4. ASSUME NEW g \in Goroutines, Enter(g) PROVE Goal
  <2>1. Counts("idle", "enter")
    BY <1>2, <1>4 DEF Enter
  <2> QED  BY <2>1, <1>1, <1>4 DEF Enter, One, Holding, Busy
<1>5. ASSUME NEW g \in Goroutines, Acquire(g) PROVE Goal
  <2>1. Counts("enter", "service")
    BY <1>2, <1>5 DEF Acquire
  <2> QED
    BY <2>1, <1>1, <1>5, InFlightAssumption DEF Acquire, One, Holding, Busy
<1>6. ASSUME NEW g \in Goroutines, Overloaded(g) PROVE Goal
  <2>1. Counts("enter", "idle") /\ at[g] = "enter"
    BY <1>2, <1>6 DEF Overloaded, Move
  <2>2. inFlightBids >= 1
    BY <2>1, <1>1, HandlerCounted DEF Busy
  <2> QED  BY <2>1, <2>2, <1>1, <1>6 DEF Overloaded, One, Holding, Busy
<1>7. ASSUME NEW g \in Goroutines, NEW from \in Holding, NEW to \in Holding,
             Move(g, from, to), UNCHANGED <<inflightSem, inFlightBids>>
      PROVE  Goal
  <2>1. Counts(from, to)
    BY <1>2, <1>7
  <2> QED  BY <2>1, <1>1, <1>7 DEF One, Busy
<1>8. ASSUME NEW g \in Goroutines, Respond(g) PROVE Goal
  <2>1. Counts("respond", "idle") /\ at[g] = "respond"
    BY <1>2, <1>8 DEF Respond, Move
  <2>2. inFlightBids >= 1 /\ inflightSem >= 1
    BY <2>1, <1>1, HandlerCounted DEF Busy, Holding
  <2> QED
    BY <2>1, <2>2, <1>1, <1>8, InFlightAssumption DEF Respond, One, Holding, Busy
<1>9. ASSUME NEW g \in Goroutines, Handle(g) PROVE Goal
  <2>1. CASE Invalid(g)
    BY <2>1, <1>7 DEF Invalid, Holding
  <2>2. CASE CallStore(g)
    BY <2>2, <1>7 DEF CallStore, Holding
  <2>3. CASE InStore(g)
    BY <2>3, <1>3 DEF InStore
  <2>4. CASE StoreOk(g)
    BY <2>4, <1>7 DEF StoreOk, Holding
  <2>5. CASE StoreError(g)
    BY <2>5, <1>7 DEF StoreError, Holding
  <2>6. CASE LoadOpen(g)
    BY <2>6, <1>7 DEF LoadOpen, Holding
  <2>7. CASE SetGauge(g)
    BY <2>7, <1>7 DEF SetGauge, Holding
  <2> QED
    BY <1>5, <1>6, <1>8, <1>9, <2>1, <2>2, <2>3, <2>4, <2>5, <2>6, <2>7 DEF Handle
<1> QED
  BY <1>3, <1>4, <1>9 DEF Next, vars, apiVars

\* No step of a handler or of the breaker breaks the rest of the invariant.
LEMMA HandlerStep ==
  ASSUME GatewayInv, [Next]_vars
  PROVE  HandlerInv' /\ TypeOK'
<1>1. BreakerInv' /\ BreakerTypeOK'
  BY GatewayBreakerInv DEF BreakerInv
<1>2. inflightSem' \in 0 .. MaxInFlight /\ inFlightBids' \in Nat
  BY TokensStep
<1> SUFFICES /\ HandlerInv'
             /\ at' \in [Goroutines -> Holding \cup {"idle", "enter"}]
             /\ breakerGauge' \in {0, 1}
             /\ code' \in [Goroutines -> Codes]
             /\ sent' \in [Goroutines -> BOOLEAN]
  BY <1>1, <1>2 DEF TypeOK
<1> USE DEF GatewayInv, HandlerInv, TypeOK, BreakerTypeOK, Holding, Codes, Refusals,
        Move
<1>3. CASE UNCHANGED vars \/ (Tick /\ UNCHANGED apiVars)
  BY <1>3 DEF vars, apiVars, brVars, Tick
<1>4. ASSUME NEW g \in Goroutines, Enter(g) \/ Acquire(g) \/ Overloaded(g)
      PROVE  HandlerInv' /\ UNCHANGED breakerGauge
             /\ at' \in [Goroutines -> Holding \cup {"idle", "enter"}]
             /\ code' \in [Goroutines -> Codes]
             /\ sent' \in [Goroutines -> BOOLEAN]
  <2>1. CASE Enter(g)
    BY <2>1 DEF Enter, brVars
  <2>2. CASE Acquire(g)
    BY <2>2 DEF Acquire, brVars
  <2>3. CASE Overloaded(g)
    BY <2>3 DEF Overloaded, brVars
  <2> QED  BY <1>4, <2>1, <2>2, <2>3
<1>5. ASSUME NEW g \in Goroutines, Handle(g), ~Acquire(g), ~Overloaded(g)
      PROVE  /\ HandlerInv'
             /\ at' \in [Goroutines -> Holding \cup {"idle", "enter"}]
             /\ breakerGauge' \in {0, 1}
             /\ code' \in [Goroutines -> Codes]
             /\ sent' \in [Goroutines -> BOOLEAN]
  <2>1. CASE Invalid(g)
    BY <2>1 DEF Invalid, brVars
  <2>2. CASE CallStore(g)
    BY <2>2 DEF CallStore, CallAllow, Goto, InAllow, Outcomes
  <2>3. CASE InStore(g)
    <3>1. at[g] = "store" /\ Step(g) /\ UNCHANGED <<at, breakerGauge, code>>
          /\ sent' = [sent EXCEPT ![g] = @ \/ pc[g] = "script"]
      BY <2>3 DEF InStore
    <3>2. /\ sent' \in [Goroutines -> BOOLEAN]
          /\ \A h \in Goroutines : h # g => sent'[h] = sent[h]
          /\ pc[g] # "script" => sent'[g] = sent[g]
      BY <3>1
    <3>3. /\ \A h \in Goroutines : h # g => pc'[h] = pc[h] /\ outcome'[h] = outcome[h]
          /\ pc'[g] \in InAllow => pc[g] \in InAllow
          /\ outcome'[g] = "refused" => pc[g] \in InAllow
          /\ pc'[g] # "out" => outcome'[g] = "none"
          /\ pc[g] \in InAllow => pc[g] # "script"
      BY <3>1 DEF Step, allow, Load, Refuse, Expire, Swap, Clear, Script, Answered,
         NotFound, Errored, success, Reset, Close, fail, CountOnly, CountTrip,
         Stamp, Open, Leave, Goto, InAllow
    <3>4. ASSUME NEW h \in Goroutines, h # g
          PROVE  /\ at'[h] = at[h] /\ pc'[h] = pc[h] /\ code'[h] = code[h]
                 /\ sent'[h] = sent[h] /\ outcome'[h] = outcome[h]
      BY <3>1, <3>2, <3>3, <3>4
    <3>5. at'[g] = "store" /\ code'[g] = "none"
      BY <3>1
    <3>6. ~sent[g] /\ pc[g] \in InAllow => ~sent'[g]
      BY <3>2, <3>3
    <3>7. pc'[g] \in InAllow => ~sent'[g]
      BY <3>1, <3>3, <3>6
    <3>8. outcome'[g] = "refused" => ~sent'[g]
      BY <3>1, <3>3, <3>6
    <3>9. HandlerInv'
      BY <3>3, <3>4, <3>5, <3>7, <3>8
    <3> QED  BY <3>1, <3>2, <3>9
  <2>4. CASE StoreOk(g)
    BY <2>4 DEF StoreOk, brVars
  <2>5. CASE StoreError(g)
    <3>1. PICK c \in ErrorCodes(g) : code' = [code EXCEPT ![g] = c]
      BY <2>5 DEF StoreError
    <3>2. c \in Codes /\ (c \in Refusals => outcome[g] = "refused")
      BY <3>1 DEF ErrorCodes
    <3> QED  BY <2>5, <3>1, <3>2 DEF StoreError, brVars
  <2>6. CASE LoadOpen(g)
    BY <2>6 DEF LoadOpen, breaker, failHist
  <2>7. CASE SetGauge(g)
    BY <2>7 DEF SetGauge, breaker, failHist
  <2>8. CASE Respond(g)
    BY <2>8 DEF Respond, brVars
  <2> QED
    BY <1>5, <2>1, <2>2, <2>3, <2>4, <2>5, <2>6, <2>7, <2>8 DEF Handle
<1> QED  BY <1>3, <1>4, <1>5 DEF Next, Handle

LEMMA GatewayInvStep == GatewayInv /\ [Next]_vars => GatewayInv'
  BY GatewayBreakerInv, TokensStep, HandlerStep DEF GatewayInv

\* The invariant holds in every behaviour of the handlers.
THEOREM GatewayInvariance == Safe => []GatewayInv
<1> QED  BY GatewayInvInit, GatewayInvStep, PTL DEF Safe

\* Type correctness of PlaceBid; the semaphore never holds more tokens than it
\* has room for.
THEOREM GatewayTypeCorrect == Safe => []TypeOK
<1>1. GatewayInv => TypeOK
  BY DEF GatewayInv
<1> QED  BY <1>1, GatewayInvariance, PTL

\* No way out of PlaceBid leaks a token or leaves the gauge raised.
THEOREM TokensAreMatched == Safe => []TokensMatchHandlers
<1>1. GatewayInv => TokensMatchHandlers
  <2> SUFFICES ASSUME GatewayInv PROVE TokensMatchHandlers
    OBVIOUS
  <2>1. Those(at, Holding) = {g \in Goroutines : at[g] \in Holding}
    BY DEF Those
  <2>2. Those(at, Busy) = {g \in Goroutines : at[g] # "idle"}
    BY DEF Those, Busy, Holding, GatewayInv, TypeOK
  <2> QED  BY <2>1, <2>2 DEF GatewayInv, TokensMatchHandlers
<1> QED  BY <1>1, GatewayInvariance, PTL

\* The codes that tell a caller that nothing was done are true: the bid script
\* was not started.
THEOREM RefusalsAreTrue == Safe => []RefusedNeverSent
<1>1. GatewayInv => RefusedNeverSent
  BY DEF GatewayInv, HandlerInv, RefusedNeverSent, Refusals
<1> QED  BY <1>1, GatewayInvariance, PTL

-----------------------------------------------------------------------------
(* The breaker behind the handlers keeps its promises.                     *)

LEMMA GatewayBreakerActions ==
  GatewayInv /\ [Next]_vars =>
    [Admission]_brVars /\ [Timely]_brVars /\ [Earned]_brVars
<1> SUFFICES ASSUME GatewayInv, [Next]_vars
             PROVE  [Admission]_brVars /\ [Timely]_brVars /\ [Earned]_brVars
  OBVIOUS
<1>1. CASE [BreakerNext]_brVars
  BY <1>1, BreakerActions DEF GatewayInv
<1>2. CASE UNCHANGED pc
  BY <1>2 DEF Admission, Timely, Earned
<1> QED  BY <1>1, <1>2, BreakerPart

\* Whatever the handlers do, none passes allow() while the breaker is open.
THEOREM GatewayNoneSneaks == Safe => NoneSneakThrough
<1>1. GatewayInv /\ [Next]_vars => [Admission]_brVars
  BY GatewayBreakerActions
<1> QED
  BY <1>1, GatewayInvariance, PTL DEF Safe, NoneSneakThrough, Admission

\* No handler answers Unavailable because of a window that is over.
THEOREM GatewayRefusalsInWindow == Safe => RefusedOnlyInWindow
<1>1. GatewayInv /\ [Next]_vars => [Timely]_brVars
  BY GatewayBreakerActions
<1> QED
  BY <1>1, GatewayInvariance, PTL DEF Safe, RefusedOnlyInWindow, Timely

\* The handlers trip the breaker only by Threshold failures without a success.
THEOREM GatewayTripsNeedStreak == Safe => TripsOnlyOnStreak
<1>1. GatewayInv /\ [Next]_vars => [Earned]_brVars
  BY GatewayBreakerActions
<1> QED
  BY <1>1, GatewayInvariance, PTL DEF Safe, TripsOnlyOnStreak, Earned

\* The handlers cost the breaker no more failures than its own steps allow.
THEOREM GatewayOpensInTime == Safe => []OpensInTime
<1>1. Init => CostInv
  BY CostInit DEF Init
<1>2. GatewayInv /\ GatewayInv' /\ CostInv /\ [Next]_vars => CostInv'
  <2> SUFFICES ASSUME GatewayInv, GatewayInv', CostInv, [Next]_vars PROVE CostInv'
    OBVIOUS
  <2>1. CASE [BreakerNext]_brVars
    BY <2>1, CostStep DEF GatewayInv
  <2>2. CASE UNCHANGED <<breaker, pc, failHist>>
    BY <2>2 DEF breaker, failHist, CostInv, Erasers, Erased, Counted, Admitted,
       Tripping, Clearing, N
  <2> QED  BY <2>1, <2>2, BreakerPart
<1>3. GatewayInv /\ CostInv => OpensInTime
  BY CostBounds DEF GatewayInv
<1> QED
  BY <1>1, <1>2, <1>3, GatewayInvariance, PTL DEF Safe

=============================================================================
