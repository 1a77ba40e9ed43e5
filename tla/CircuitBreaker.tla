--------------------------- MODULE CircuitBreaker ---------------------------
(***************************************************************************)
(* The circuit breaker of the bid store, shared by the goroutines that run *)
(* RedisStore.PlaceBid.  It has no lock: every atomic operation and every  *)
(* reading of the clock is a step of its own, so that the goroutines may   *)
(* interleave between any two of them.                                     *)
(*                                                                         *)
(* pc[g] is the next step of goroutine g:                                  *)
(*   "out"                          not in PlaceBid                        *)
(*   "load", "check", "swap", "clear"         in allow()                   *)
(*   "script"                       admitted, the script call is under way *)
(*   "reset", "close"                         in success()                 *)
(*   "count", "stamp", "open"                 in fail()                    *)
(***************************************************************************)
EXTENDS Integers, FiniteSets

CONSTANTS
  Goroutines,
  Threshold,   \* failureThreshold
  OpenFor,     \* openForNs
  MaxFaults,   \* bound: script calls that fail
  MaxTime      \* bound: the clock stops here unless a window is still open

ASSUME BreakerAssumption ==
  /\ Threshold \in Nat \ {0}
  /\ OpenFor \in Nat \ {0}
  /\ MaxFaults \in Nat
  /\ MaxTime \in Nat

ASSUME GoroutinesAssumption == IsFiniteSet(Goroutines)

VARIABLES
  now,               \* time.Now().UnixNano()
  consecutiveFails,
  openUntilNs,       \* 0 when the breaker is closed
  pc,
  reg,               \* per goroutine, the local "until" or the new deadline
  outcome,           \* per goroutine, how its last PlaceBid ended
  faults,            \* the number of failed script calls so far
  lastStamp,         \* history: the last reading of the clock in fail()
  streak,            \* history: failures counted since the last success()
  unopened           \* history: ... and since the breaker was last opened

breaker == <<consecutiveFails, openUntilNs>>
failHist == <<lastStamp, streak, unopened>>
brVars == <<now, consecutiveFails, openUntilNs, pc, reg, outcome, faults,
            lastStamp, streak, unopened>>

Outcomes == {"none", "refused", "answered", "failed", "not_found"}
InAllow == {"load", "check", "swap", "clear"}
InSuccess == {"reset", "close"}
InFail == {"count", "stamp", "open"}

BreakerInit ==
  /\ now = 0
  /\ consecutiveFails = 0
  /\ openUntilNs = 0
  /\ pc = [g \in Goroutines |-> "out"]
  /\ reg = [g \in Goroutines |-> 0]
  /\ outcome = [g \in Goroutines |-> "none"]
  /\ faults = 0
  /\ lastStamp = 0
  /\ streak = 0
  /\ unopened = 0

Goto(g, from, to) == pc[g] = from /\ pc' = [pc EXCEPT ![g] = to]

\* PlaceBid returns and its locals are gone.
Leave(g, from, result) ==
  /\ Goto(g, from, "out")
  /\ reg' = [reg EXCEPT ![g] = 0]
  /\ outcome' = [outcome EXCEPT ![g] = result]

IsOpen == openUntilNs # 0 /\ now < openUntilNs

-----------------------------------------------------------------------------
(* allow()                                                                 *)

CallAllow(g) ==
  /\ Goto(g, "out", "load")
  /\ outcome' = [outcome EXCEPT ![g] = "none"]
  /\ UNCHANGED <<now, breaker, reg, faults, failHist>>

Load(g) ==
  /\ Goto(g, "load", IF openUntilNs = 0 THEN "script" ELSE "check")
  /\ reg' = [reg EXCEPT ![g] = openUntilNs]
  /\ UNCHANGED <<now, breaker, outcome, faults, failHist>>

Refuse(g) ==
  /\ now < reg[g]
  /\ Leave(g, "check", "refused")
  /\ UNCHANGED <<now, breaker, faults, failHist>>

Expire(g) ==
  /\ now >= reg[g]
  /\ Goto(g, "check", "swap")
  /\ UNCHANGED <<now, breaker, reg, outcome, faults, failHist>>

\* Mutant: Store(0) instead of the CompareAndSwap.
SwapBlindly(g) ==
  /\ Goto(g, "swap", "clear")
  /\ openUntilNs' = 0
  /\ UNCHANGED <<now, consecutiveFails, reg, outcome, faults, failHist>>

\* Mutant: a lost CompareAndSwap is tried again without a new Load.
SwapAgain(g) ==
  /\ Goto(g, "swap", IF openUntilNs = reg[g] THEN "clear" ELSE "swap")
  /\ openUntilNs' = IF openUntilNs = reg[g] THEN 0 ELSE openUntilNs
  /\ UNCHANGED <<now, consecutiveFails, reg, outcome, faults, failHist>>

\* Mutant: the goroutine that sees the end of the window goes through and
\* leaves the deadline in place.
SwapKeepsDeadline(g) ==
  /\ Goto(g, "swap", IF openUntilNs = reg[g] THEN "clear" ELSE "load")
  /\ UNCHANGED <<now, breaker, reg, outcome, faults, failHist>>

\* CompareAndSwap(until, 0); when it is lost the loop starts again.
Swap(g) ==
  /\ Goto(g, "swap", IF openUntilNs = reg[g] THEN "clear" ELSE "load")
  /\ openUntilNs' = IF openUntilNs = reg[g] THEN 0 ELSE openUntilNs
  /\ UNCHANGED <<now, consecutiveFails, reg, outcome, faults, failHist>>

Clear(g) ==
  /\ Goto(g, "clear", "script")
  /\ consecutiveFails' = 0
  /\ reg' = [reg EXCEPT ![g] = 0]
  /\ UNCHANGED <<now, openUntilNs, outcome, faults, failHist>>

-----------------------------------------------------------------------------
(* RedisStore.PlaceBid after the script call.                              *)

\* "DUP" or "OK".
Answered(g) ==
  /\ Goto(g, "script", "reset")
  /\ UNCHANGED <<now, breaker, reg, outcome, faults, failHist>>

\* "ERR", the auction does not exist, or a malformed reply: an error that
\* tells the breaker nothing.
NotFound(g) ==
  /\ Leave(g, "script", "not_found")
  /\ UNCHANGED <<now, breaker, faults, failHist>>

\* The call failed or its context ended; the command may have been run.
Errored(g) ==
  /\ faults < MaxFaults
  /\ faults' = faults + 1
  /\ Goto(g, "script", "count")
  /\ UNCHANGED <<now, breaker, reg, outcome, failHist>>

\* Mutant: success() closes the breaker and forgets the count.
ResetForgotten(g) ==
  /\ Goto(g, "reset", "close")
  /\ streak' = 0
  /\ unopened' = 0
  /\ UNCHANGED <<now, breaker, reg, outcome, faults, lastStamp>>

\* Mutant: a success takes one failure off the count.
ResetDecrements(g) ==
  /\ Goto(g, "reset", "close")
  /\ consecutiveFails' = consecutiveFails - 1
  /\ streak' = 0
  /\ unopened' = 0
  /\ UNCHANGED <<now, openUntilNs, reg, outcome, faults, lastStamp>>

\* success()
Reset(g) ==
  /\ Goto(g, "reset", "close")
  /\ consecutiveFails' = 0
  /\ streak' = 0
  /\ unopened' = 0
  /\ UNCHANGED <<now, openUntilNs, reg, outcome, faults, lastStamp>>

Close(g) ==
  /\ Leave(g, "close", "answered")
  /\ openUntilNs' = 0
  /\ UNCHANGED <<now, consecutiveFails, faults, failHist>>

\* Mutant: only the failure that reaches the threshold trips the breaker.
TripsExactly(n) == n = Threshold

Trips(n) == n >= Threshold

\* fail()
CountOnly(g) ==
  /\ ~Trips(consecutiveFails + 1)
  /\ consecutiveFails' = consecutiveFails + 1
  /\ streak' = streak + 1
  /\ unopened' = unopened + 1
  /\ Leave(g, "count", "failed")
  /\ UNCHANGED <<now, openUntilNs, faults, lastStamp>>

CountTrip(g) ==
  /\ Trips(consecutiveFails + 1)
  /\ consecutiveFails' = consecutiveFails + 1
  /\ streak' = streak + 1
  /\ unopened' = unopened + 1
  /\ Goto(g, "count", "stamp")
  /\ UNCHANGED <<now, openUntilNs, reg, outcome, faults, lastStamp>>

\* Mutant: the window is added to the one that is open.
DeadlineExtends(g) ==
  (IF openUntilNs > now THEN openUntilNs ELSE now) + OpenFor

Deadline(g) == now + OpenFor

Stamp(g) ==
  /\ Goto(g, "stamp", "open")
  /\ reg' = [reg EXCEPT ![g] = Deadline(g)]
  /\ lastStamp' = now
  /\ UNCHANGED <<now, breaker, outcome, faults, streak, unopened>>

Open(g) ==
  /\ Leave(g, "open", "failed")
  /\ openUntilNs' = reg[g]
  /\ unopened' = 0
  /\ UNCHANGED <<now, consecutiveFails, faults, lastStamp, streak>>

-----------------------------------------------------------------------------
Tick ==
  /\ now < MaxTime \/ IsOpen
  /\ now' = now + 1
  /\ UNCHANGED <<breaker, pc, reg, outcome, faults, failHist>>

allow(g) == Load(g) \/ Refuse(g) \/ Expire(g) \/ Swap(g) \/ Clear(g)
success(g) == Reset(g) \/ Close(g)
fail(g) == CountOnly(g) \/ CountTrip(g) \/ Stamp(g) \/ Open(g)

Script(g) == Answered(g) \/ NotFound(g) \/ Errored(g)

Step(g) == allow(g) \/ Script(g) \/ success(g) \/ fail(g)

BreakerNext ==
  \/ \E g \in Goroutines : CallAllow(g) \/ Step(g)
  \/ Tick

BreakerFairness ==
  /\ \A g \in Goroutines : WF_brVars(Step(g))
  /\ WF_brVars(Tick)

BreakerSafe == BreakerInit /\ [][BreakerNext]_brVars

BreakerSpec == BreakerSafe /\ BreakerFairness

-----------------------------------------------------------------------------
(* Properties.                                                             *)

\* The shape of the breaker's words and of every goroutine's registers.
BreakerTypeOK ==
  /\ now \in Nat
  /\ consecutiveFails \in Nat
  /\ openUntilNs \in Nat
  /\ pc \in [Goroutines -> {"out", "script"} \cup InAllow \cup InSuccess
                           \cup InFail]
  /\ reg \in [Goroutines -> Nat]
  /\ outcome \in [Goroutines -> Outcomes]
  /\ faults \in Nat
  /\ lastStamp \in Nat
  /\ streak \in Nat
  /\ unopened \in Nat

\* "While the breaker is open, concurrent requests are all refused": the step
\* that lets a goroutine through allow() is taken only while the breaker is
\* not open, also when the window it loaded has been replaced by a newer one.
NoneSneakThrough ==
  [][\A g \in Goroutines :
       (pc[g] \in {"load", "swap"} /\ pc'[g] \in {"script", "clear"}) =>
         ~IsOpen]_brVars

\* A call is refused only within OpenFor of the last failure that tripped the
\* breaker: no interleaving of allow, success and fail, and no stale deadline,
\* keeps it open for longer.
RefusedOnlyInWindow ==
  [][\A g \in Goroutines :
       (pc[g] = "check" /\ pc'[g] = "out") => now < lastStamp + OpenFor]_brVars

\* "success should reset failure count": a failure trips the breaker only as
\* the last of at least Threshold failures with no success between them, in
\* whatever order the goroutines' calls end.
TripsOnlyOnStreak ==
  [][\A g \in Goroutines :
       (pc[g] = "count" /\ pc'[g] = "stamp") => streak' >= Threshold]_brVars

\* The Store(0) that follows the swap in allow() erases failures counted since
\* the swap, once for every goroutine stalled between the two, and goroutines
\* that trip the breaker may stall before they open it.  Neither keeps the
\* breaker closed for long: it is open again before a goroutine has cost it
\* more than Threshold failures.
OpensInTime == unopened <= Threshold * Cardinality(Goroutines)

\* allow() returns: the CompareAndSwap loop does not run for ever.
AllowReturns ==
  \A g \in Goroutines : pc[g] = "load" ~> pc[g] \in {"out", "script"}

\* Redis fails only finitely often here.  If bids keep coming, the breaker is
\* closed in the end, and stays closed.
Recovers ==
  ([]<>(\E g \in Goroutines : pc[g] = "load")) => <>[](openUntilNs = 0)

=============================================================================
