----------------------- MODULE CircuitBreaker_proofs ------------------------
(***************************************************************************)
(* Proofs of the safety properties of the circuit breaker, for any number  *)
(* of goroutines and any threshold and window.                             *)
(***************************************************************************)
EXTENDS CircuitBreaker, FiniteSetTheorems, TLAPS

\* The inductive invariant.  Every deadline that is stored or on its way, in
\* openUntilNs or in a register, lies within a window of the last stamp, and a
\* goroutine about to swap holds a deadline that it has seen pass.
BreakerInv ==
  /\ BreakerTypeOK
  /\ lastStamp <= now
  /\ consecutiveFails <= streak
  /\ openUntilNs <= lastStamp + OpenFor
  /\ \A g \in Goroutines :
       /\ pc[g] \in {"check", "swap", "open"} => reg[g] <= lastStamp + OpenFor
       /\ pc[g] = "swap" => reg[g] <= now
       /\ pc[g] \in {"check", "swap"} => reg[g] # 0

\* The initial state of newCircuitBreaker satisfies the invariant.
LEMMA BreakerInvInit == BreakerInit => BreakerInv
  BY BreakerAssumption DEF BreakerInit, BreakerInv, BreakerTypeOK, Outcomes,
     InAllow, InSuccess, InFail

\* No step of allow, success, fail or the clock breaks the invariant.
LEMMA BreakerInvStep == BreakerInv /\ [BreakerNext]_brVars => BreakerInv'
<1> SUFFICES ASSUME BreakerInv, [BreakerNext]_brVars PROVE BreakerInv'
  OBVIOUS
<1> USE BreakerAssumption DEF BreakerInv, BreakerTypeOK, Outcomes, InAllow,
     InSuccess, InFail, breaker, failHist
<1>1. CASE UNCHANGED brVars
  BY <1>1 DEF brVars
<1>2. CASE Tick
  BY <1>2 DEF Tick
<1>3. ASSUME NEW g \in Goroutines, CallAllow(g) PROVE BreakerInv'
  BY <1>3 DEF CallAllow, Goto
<1>4. ASSUME NEW g \in Goroutines, allow(g) PROVE BreakerInv'
  <2>1. CASE Load(g)
    BY <2>1 DEF Load, Goto
  <2>2. CASE Refuse(g)
    BY <2>2 DEF Refuse, Leave, Goto
  <2>3. CASE Expire(g)
    BY <2>3 DEF Expire, Goto
  <2>4. CASE Swap(g)
    BY <2>4 DEF Swap, Goto
  <2>5. CASE Clear(g)
    BY <2>5 DEF Clear, Goto
  <2> QED  BY <1>4, <2>1, <2>2, <2>3, <2>4, <2>5 DEF allow
<1>5. ASSUME NEW g \in Goroutines, Script(g) PROVE BreakerInv'
  <2>1. CASE Answered(g)
    BY <2>1 DEF Answered, Goto
  <2>2. CASE NotFound(g)
    BY <2>2 DEF NotFound, Leave, Goto
  <2>3. CASE Errored(g)
    BY <2>3 DEF Errored, Goto
  <2> QED  BY <1>5, <2>1, <2>2, <2>3 DEF Script
<1>6. ASSUME NEW g \in Goroutines, success(g) PROVE BreakerInv'
  <2>1. CASE Reset(g)
    BY <2>1 DEF Reset, Goto
  <2>2. CASE Close(g)
    BY <2>2 DEF Close, Leave, Goto
  <2> QED  BY <1>6, <2>1, <2>2 DEF success
<1>7. ASSUME NEW g \in Goroutines, fail(g) PROVE BreakerInv'
  <2>1. CASE CountOnly(g)
    BY <2>1 DEF CountOnly, Leave, Goto
  <2>2. CASE CountTrip(g)
    BY <2>2 DEF CountTrip, Goto
  <2>3. CASE Stamp(g)
    BY <2>3 DEF Stamp, Goto, Deadline
  <2>4. CASE Open(g)
    BY <2>4 DEF Open, Leave, Goto
  <2> QED  BY <1>7, <2>1, <2>2, <2>3, <2>4 DEF fail
<1> QED
  BY <1>1, <1>2, <1>3, <1>4, <1>5, <1>6, <1>7 DEF BreakerNext, Step

\* The invariant holds in every behaviour of the breaker.
THEOREM BreakerInvariance == BreakerSafe => []BreakerInv
<1> QED  BY BreakerInvInit, BreakerInvStep, PTL DEF BreakerSafe

\* Type correctness of the breaker.
THEOREM BreakerTypeCorrect == BreakerSafe => []BreakerTypeOK
<1>1. BreakerInv => BreakerTypeOK
  BY DEF BreakerInv
<1> QED  BY <1>1, BreakerInvariance, PTL

\* Which step a goroutine takes from a given place.
LEMMA StepFrom ==
  ASSUME BreakerInv, BreakerNext, NEW g \in Goroutines, pc'[g] # pc[g]
  PROVE  CallAllow(g) \/ Step(g)
<1> USE DEF BreakerInv, BreakerTypeOK
<1>1. CASE Tick
  BY <1>1 DEF Tick
<1>2. ASSUME NEW h \in Goroutines, CallAllow(h) \/ Step(h) PROVE h = g
  BY <1>2 DEF CallAllow, Step, allow, Load, Refuse, Expire, Swap, Clear, Script,
     Answered, NotFound, Errored, success, Reset, Close, fail, CountOnly,
     CountTrip, Stamp, Open, Leave, Goto
<1> QED  BY <1>1, <1>2 DEF BreakerNext

\* A goroutine that passes allow() does so while the breaker is not open: the
\* CompareAndSwap proves that the deadline it saw pass is the current one.
LEMMA AdmissionStep ==
  ASSUME BreakerInv, BreakerNext, NEW g \in Goroutines,
         pc[g] \in {"load", "swap"}, pc'[g] \in {"script", "clear"}
  PROVE  ~IsOpen
<1>1. CallAllow(g) \/ Step(g)
  BY StepFrom
<1>2. Load(g) \/ Swap(g)
  BY <1>1 DEF CallAllow, Step, allow, Refuse, Expire, Clear, Script,
     Answered, NotFound, Errored, success, Reset, Close, fail, CountOnly,
     CountTrip, Stamp, Open, Leave, Goto
<1>3. CASE Load(g)
  BY <1>3 DEF Load, Goto, IsOpen, BreakerInv, BreakerTypeOK
<1>4. CASE Swap(g)
  BY <1>4 DEF Swap, Goto, IsOpen, BreakerInv, BreakerTypeOK
<1> QED  BY <1>2, <1>3, <1>4

\* A refusal is decided by a deadline that lies within the last window.
LEMMA RefusalStep ==
  ASSUME BreakerInv, BreakerNext, NEW g \in Goroutines,
         pc[g] = "check", pc'[g] = "out"
  PROVE  now < lastStamp + OpenFor
<1>1. CallAllow(g) \/ Step(g)
  BY StepFrom
<1>2. Refuse(g)
  BY <1>1 DEF CallAllow, Step, allow, Load, Expire, Swap, Clear, Script,
     Answered, NotFound, Errored, success, Reset, Close, fail, CountOnly,
     CountTrip, Stamp, Open, Leave, Goto, BreakerInv, BreakerTypeOK
<1> QED
  BY <1>2, BreakerAssumption DEF Refuse, BreakerInv, BreakerTypeOK

\* The count that trips the breaker is one of failures without a success.
LEMMA TripStep ==
  ASSUME BreakerInv, BreakerNext, NEW g \in Goroutines,
         pc[g] = "count", pc'[g] = "stamp"
  PROVE  streak' >= Threshold
<1>1. CallAllow(g) \/ Step(g)
  BY StepFrom
<1>2. CountTrip(g)
  BY <1>1 DEF CallAllow, Step, allow, Load, Refuse, Expire, Swap, Clear, Script,
     Answered, NotFound, Errored, success, Reset, Close, fail, CountOnly,
     Stamp, Open, Leave, Goto, BreakerInv, BreakerTypeOK
<1> QED
  BY <1>2, BreakerAssumption DEF CountTrip, Trips, BreakerInv, BreakerTypeOK

\* What NoneSneakThrough, RefusedOnlyInWindow and TripsOnlyOnStreak ask of a
\* step.
Admission ==
  \A g \in Goroutines :
    (pc[g] \in {"load", "swap"} /\ pc'[g] \in {"script", "clear"}) => ~IsOpen
Timely ==
  \A g \in Goroutines :
    (pc[g] = "check" /\ pc'[g] = "out") => now < lastStamp + OpenFor
Earned ==
  \A g \in Goroutines :
    (pc[g] = "count" /\ pc'[g] = "stamp") => streak' >= Threshold

LEMMA BreakerActions ==
  BreakerInv /\ [BreakerNext]_brVars =>
    [Admission]_brVars /\ [Timely]_brVars /\ [Earned]_brVars
  BY AdmissionStep, RefusalStep, TripStep DEF Admission, Timely, Earned

\* While the breaker is open, all calls are refused.
THEOREM NoneSneaksThrough == BreakerSafe => NoneSneakThrough
<1>1. BreakerInv /\ [BreakerNext]_brVars => [Admission]_brVars
  BY BreakerActions
<1> QED
  BY <1>1, BreakerInvariance, PTL DEF BreakerSafe, NoneSneakThrough, Admission

\* No call is refused later than OpenFor after the last tripping failure.
THEOREM RefusalsAreInWindow == BreakerSafe => RefusedOnlyInWindow
<1>1. BreakerInv /\ [BreakerNext]_brVars => [Timely]_brVars
  BY BreakerActions
<1> QED
  BY <1>1, BreakerInvariance, PTL DEF BreakerSafe, RefusedOnlyInWindow, Timely

\* The breaker trips only at the end of Threshold failures without a success.
THEOREM TripsNeedStreak == BreakerSafe => TripsOnlyOnStreak
<1>1. BreakerInv /\ [BreakerNext]_brVars => [Earned]_brVars
  BY BreakerActions
<1> QED
  BY <1>1, BreakerInvariance, PTL DEF BreakerSafe, TripsOnlyOnStreak, Earned

-----------------------------------------------------------------------------
(* How many failures can go by before the breaker opens.                   *)

\* The goroutines that are at one of the places P.
Those(place, P) == {g \in Goroutines : place[g] \in P}

One(b) == IF b THEN 1 ELSE 0

\* When one goroutine moves, the number of those at P changes by what it leaves
\* and what it reaches.
LEMMA MoveCounts ==
  ASSUME NEW Places, NEW place \in [Goroutines -> Places], NEW g \in Goroutines,
         NEW to, NEW P
  PROVE  /\ Cardinality(Those(place, P)) \in Nat
         /\ Cardinality(Those([place EXCEPT ![g] = to], P)) =
              Cardinality(Those(place, P)) + One(to \in P) - One(place[g] \in P)
<1> DEFINE old == Those(place, P)
           new == Those([place EXCEPT ![g] = to], P)
<1>1. IsFiniteSet(old)
  BY GoroutinesAssumption, FS_Subset DEF Those
<1>2. Cardinality(old) \in Nat
  BY <1>1, FS_CardinalityType
<1>3. g \in old <=> place[g] \in P
  BY DEF Those
<1>4. to \in P => new = old \cup {g}
  BY DEF Those
<1>5. to \notin P => new = old \ {g}
  BY DEF Those
<1> HIDE DEF old, new
<1>6. Cardinality(old \cup {g}) = IF g \in old THEN Cardinality(old)
                                  ELSE Cardinality(old) + 1
  BY <1>1, FS_AddElement
<1>7. Cardinality(old \ {g}) = IF g \in old THEN Cardinality(old) - 1
                               ELSE Cardinality(old)
  BY <1>1, FS_RemoveElement
<1>8. Cardinality(new) = Cardinality(old) + One(to \in P) - One(place[g] \in P)
  <2>1. CASE to \in P
    BY <2>1, <1>2, <1>3, <1>4, <1>6 DEF One
  <2>2. CASE to \notin P
    <3>1. Cardinality(new) = IF g \in old THEN Cardinality(old) - 1
                             ELSE Cardinality(old)
      BY <2>2, <1>5, <1>7, Zenon
    <3> QED  BY <2>2, <3>1, <1>2, <1>3 DEF One
  <2> QED  BY <2>1, <2>2
<1> QED  BY <1>2, <1>8 DEF old, new

AdmittedPlaces == {"script"} \cup InSuccess \cup InFail
N == Cardinality(Goroutines)
Admitted == Cardinality(Those(pc, AdmittedPlaces))
Tripping == Cardinality(Those(pc, {"stamp", "open"}))
Clearing == Cardinality(Those(pc, {"clear"}))

\* The resets of the count that can still come before the next opening: those
\* of the goroutines stalled before their Store(0), and one more swap while
\* there is a deadline.
Erasers == Clearing + One(openUntilNs # 0)

\* What the next reset can erase at most, beside the failures that tripped.
Counted == IF consecutiveFails < Threshold THEN consecutiveFails ELSE Threshold - 1

\* The failures that the resets done so far may have erased.
Erased == (Threshold - 1) * (N - 1 - Erasers)

\* Goroutines that can fail were admitted while no deadline was set, so each
\* of them takes the place of an eraser; between two resets at most
\* Threshold - 1 failures go by that do not trip the breaker.
CostInv ==
  /\ Erasers + Admitted <= N
  /\ unopened > 0 => Erasers < N /\ unopened <= Erased + Counted + Tripping

\* The three counts are numbers, and a goroutine is in one place at a time.
LEMMA CountTypes ==
  ASSUME BreakerTypeOK
  PROVE  /\ N \in Nat /\ Admitted \in Nat /\ Tripping \in Nat /\ Clearing \in Nat
         /\ Clearing + Admitted <= N
         /\ Tripping <= Admitted
<1> DEFINE A == Those(pc, AdmittedPlaces)
           C == Those(pc, {"clear"})
           T == Those(pc, {"stamp", "open"})
<1>1. /\ A \in SUBSET Goroutines /\ C \in SUBSET Goroutines
      /\ A \cup C \in SUBSET Goroutines /\ T \in SUBSET A
      /\ A \cap C = {}
  BY DEF Those, AdmittedPlaces, InSuccess, InFail
<1> HIDE DEF A, C, T
<1>2. /\ IsFiniteSet(A) /\ IsFiniteSet(C) /\ IsFiniteSet(T)
      /\ Cardinality(A \cup C) <= N /\ Cardinality(T) <= Cardinality(A)
  BY <1>1, GoroutinesAssumption, FS_Subset DEF N
<1>3. /\ N \in Nat /\ Cardinality(A) \in Nat /\ Cardinality(C) \in Nat
      /\ Cardinality(T) \in Nat
  BY <1>2, GoroutinesAssumption, FS_CardinalityType DEF N
<1>4. Cardinality(A \cup C) =
        Cardinality(A) + Cardinality(C) - Cardinality(A \cap C)
  BY <1>2, FS_Union
<1>5. Cardinality(A \cap C) = 0
  BY <1>1, FS_EmptySet
<1> QED
  BY <1>2, <1>3, <1>4, <1>5 DEF A, C, T, Admitted, Clearing, Tripping

\* A goroutine that was admitted is counted.
LEMMA SomeAdmitted ==
  ASSUME BreakerTypeOK, NEW g \in Goroutines, pc[g] \in AdmittedPlaces
  PROVE  Admitted >= 1
<1> DEFINE A == Those(pc, AdmittedPlaces)
<1>1. A \in SUBSET Goroutines /\ A # {}
  BY DEF Those
<1>2. IsFiniteSet(A)
  BY <1>1, GoroutinesAssumption, FS_Subset
<1>3. Cardinality(A) \in Nat /\ Cardinality(A) # 0
  BY <1>1, <1>2, FS_CardinalityType, FS_EmptySet
<1> QED  BY <1>3 DEF Admitted

LEMMA CountTypesNext == BreakerTypeOK' => (Clearing + Admitted <= N)'
<1>1. BreakerTypeOK => Clearing + Admitted <= N
  BY CountTypes
<1> QED  BY <1>1, PTL

\* What a move of one goroutine does to the counts.
LEMMA CountMoves ==
  ASSUME BreakerTypeOK, NEW g \in Goroutines, NEW from, NEW to, Goto(g, from, to)
  PROVE  /\ Admitted' = Admitted + One(to \in AdmittedPlaces)
                                 - One(from \in AdmittedPlaces)
         /\ Tripping' = Tripping + One(to \in {"stamp", "open"})
                                 - One(from \in {"stamp", "open"})
         /\ Clearing' = Clearing + One(to = "clear") - One(from = "clear")
<1> DEFINE Places == {"out", "script"} \cup InAllow \cup InSuccess \cup InFail
<1>1. pc \in [Goroutines -> Places] /\ pc[g] = from /\ pc' = [pc EXCEPT ![g] = to]
  BY DEF BreakerTypeOK, Goto
<1> HIDE DEF Places
<1>2. \A P : Cardinality(Those([pc EXCEPT ![g] = to], P)) =
             Cardinality(Those(pc, P)) + One(to \in P) - One(from \in P)
  BY <1>1, MoveCounts
<1>3. Cardinality(Those(pc', {"clear"})) =
        Clearing + One(to \in {"clear"}) - One(from \in {"clear"})
  BY <1>1, <1>2 DEF Clearing
<1>4. to \in {"clear"} <=> to = "clear"
  OBVIOUS
<1>5. from \in {"clear"} <=> from = "clear"
  OBVIOUS
<1>6. Clearing' = Clearing + One(to = "clear") - One(from = "clear")
  BY <1>3, <1>4, <1>5 DEF Clearing, One
<1> QED
  BY <1>1, <1>2, <1>6 DEF Admitted, Tripping

\* The arithmetic of the bound: t the threshold, n goroutines, e erasers.
LEMMA ErasedSteps ==
  ASSUME NEW t \in Nat \ {0}, NEW n \in Nat, NEW e \in Nat, e < n
  PROVE  /\ (t - 1) * (n - 1 - e) \in Nat
         /\ (t - 1) * (n - 1 - (e - 1)) = (t - 1) * (n - 1 - e) + (t - 1)
         /\ (t - 1) * (n - 1 - e) + (t - 1) + (n - e) <= t * n
  OBVIOUS

\* No step of allow, success, fail or the clock breaks the bound.
LEMMA CostStep ==
  BreakerInv /\ BreakerInv' /\ CostInv /\ [BreakerNext]_brVars => CostInv'
<1> SUFFICES ASSUME BreakerInv, BreakerInv', CostInv, [BreakerNext]_brVars
             PROVE  CostInv'
  OBVIOUS
<1> BreakerTypeOK /\ BreakerTypeOK'
  BY DEF BreakerInv
<1>1. /\ N \in Nat /\ Admitted \in Nat /\ Tripping \in Nat /\ Clearing \in Nat
      /\ Clearing + Admitted <= N
  BY CountTypes
<1>2. Clearing' + Admitted' <= N
  BY CountTypesNext DEF N
<1>3. Erasers \in Nat
  BY <1>1 DEF Erasers, One
<1>4. Erasers < N => Erased \in Nat
  BY <1>1, <1>3, ErasedSteps, BreakerAssumption DEF Erased
<1>5. Erasers' = Erasers => Erased' = Erased
  BY DEF Erased, N
<1>6. Erasers < N /\ Erasers' = Erasers - 1 => Erased' = Erased + (Threshold - 1)
  BY <1>1, <1>3, ErasedSteps, BreakerAssumption DEF Erased, N
<1> DEFINE Words == /\ openUntilNs \in Nat /\ openUntilNs' \in Nat
                    /\ consecutiveFails \in Nat /\ unopened \in Nat
                    /\ Threshold \in Nat \ {0} /\ N' = N
<1>7. Words
  BY BreakerAssumption DEF BreakerTypeOK, N
<1> HIDE DEF Erased
<1> USE <1>1, <1>3, <1>4, <1>5, <1>6, <1>7 DEF CostInv, Erasers, Counted, One
<1> DEFINE Moves(g, from, to) ==
       /\ Admitted' = Admitted + One(to \in AdmittedPlaces)
                               - One(from \in AdmittedPlaces)
       /\ Tripping' = Tripping + One(to \in {"stamp", "open"})
                               - One(from \in {"stamp", "open"})
       /\ Clearing' = Clearing + One(to = "clear") - One(from = "clear")
<1>8. CASE UNCHANGED brVars \/ Tick
  <2>1. UNCHANGED <<pc, openUntilNs, consecutiveFails, unopened>>
    BY <1>8 DEF brVars, Tick, breaker, failHist
  <2>2. Admitted' = Admitted /\ Tripping' = Tripping /\ Clearing' = Clearing
    BY <2>1 DEF Admitted, Tripping, Clearing
  <2> QED  BY <2>1, <2>2
<1>9. ASSUME NEW g \in Goroutines, CallAllow(g) \/ Step(g) PROVE CostInv'
  <2> USE DEF breaker, failHist, AdmittedPlaces, InSuccess, InFail
  <2>1. ASSUME NEW from, NEW to, Goto(g, from, to) PROVE Moves(g, from, to)
    BY <2>1, CountMoves
  <2>2. CASE CallAllow(g)
    <3>1. Moves(g, "out", "load")
      BY <2>1, <2>2 DEF CallAllow
    <3> QED  BY <3>1, <2>2 DEF CallAllow
  <2>3. CASE Load(g)
    <3>1. Moves(g, "load", IF openUntilNs = 0 THEN "script" ELSE "check")
      BY <2>1, <2>3 DEF Load
    <3> QED  BY <3>1, <2>3, <1>2 DEF Load
  <2>4. CASE Refuse(g)
    <3>1. Moves(g, "check", "out")
      BY <2>1, <2>4 DEF Refuse, Leave
    <3> QED  BY <3>1, <2>4 DEF Refuse
  <2>5. CASE Expire(g)
    <3>1. Moves(g, "check", "swap")
      BY <2>1, <2>5 DEF Expire
    <3> QED  BY <3>1, <2>5 DEF Expire
  <2>6. CASE Swap(g)
    <3>1. CASE openUntilNs = reg[g]
      <4>1. Moves(g, "swap", "clear")
        BY <2>1, <2>6, <3>1 DEF Swap
      <4>2. openUntilNs # 0 /\ openUntilNs' = 0
        BY <2>6, <3>1 DEF Swap, Goto, BreakerInv
      <4> QED  BY <4>1, <4>2, <2>6 DEF Swap
    <3>2. CASE openUntilNs # reg[g]
      <4>1. Moves(g, "swap", "load")
        BY <2>1, <2>6, <3>2 DEF Swap
      <4> QED  BY <4>1, <2>6, <3>2 DEF Swap
    <3> QED  BY <3>1, <3>2
  <2>7. CASE Clear(g)
    <3>1. Moves(g, "clear", "script")
      BY <2>1, <2>7 DEF Clear
    <3> QED  BY <3>1, <2>7 DEF Clear
  <2>8. CASE Answered(g)
    <3>1. Moves(g, "script", "reset")
      BY <2>1, <2>8 DEF Answered
    <3> QED  BY <3>1, <2>8 DEF Answered
  <2>9. CASE NotFound(g)
    <3>1. Moves(g, "script", "out")
      BY <2>1, <2>9 DEF NotFound, Leave
    <3> QED  BY <3>1, <2>9 DEF NotFound
  <2>10. CASE Errored(g)
    <3>1. Moves(g, "script", "count")
      BY <2>1, <2>10 DEF Errored
    <3> QED  BY <3>1, <2>10 DEF Errored
  <2>11. CASE Reset(g)
    <3>1. Moves(g, "reset", "close")
      BY <2>1, <2>11 DEF Reset
    <3> QED  BY <3>1, <2>11 DEF Reset
  <2>12. CASE Close(g)
    <3>1. Moves(g, "close", "out")
      BY <2>1, <2>12 DEF Close, Leave
    <3> QED  BY <3>1, <2>12 DEF Close
  <2>13. CASE CountOnly(g)
    <3>1. Moves(g, "count", "out")
      BY <2>1, <2>13 DEF CountOnly, Leave
    <3>2. /\ Admitted' = Admitted - 1 /\ Tripping' = Tripping
          /\ Erasers' = Erasers /\ Erasers < N
      BY <3>1, <2>13, SomeAdmitted DEF CountOnly, Leave, Goto
    <3>3. /\ consecutiveFails + 1 < Threshold /\ unopened' = unopened + 1
          /\ consecutiveFails' = consecutiveFails + 1
      BY <2>13 DEF CountOnly, Trips
    <3>4. Counted' = Counted + 1
      BY <3>3
    <3> QED  BY <3>2, <3>3, <3>4
  <2>14. CASE CountTrip(g)
    <3>1. Moves(g, "count", "stamp")
      BY <2>1, <2>14 DEF CountTrip
    <3>2. /\ Admitted' = Admitted /\ Tripping' = Tripping + 1
          /\ Erasers' = Erasers /\ Erasers < N
      BY <3>1, <2>14, SomeAdmitted DEF CountTrip, Goto
    <3>3. Counted' >= Counted /\ Counted \in Nat /\ Counted' \in Nat
      BY <2>14 DEF CountTrip
    <3> QED  BY <3>2, <3>3, <2>14 DEF CountTrip
  <2>15. CASE Stamp(g)
    <3>1. Moves(g, "stamp", "open")
      BY <2>1, <2>15 DEF Stamp
    <3> QED  BY <3>1, <2>15 DEF Stamp
  <2>16. CASE Open(g)
    <3>1. Moves(g, "open", "out")
      BY <2>1, <2>16 DEF Open, Leave
    <3> QED  BY <3>1, <2>16 DEF Open
  <2> QED
    BY <1>9, <2>2, <2>3, <2>4, <2>5, <2>6, <2>7, <2>8, <2>9, <2>10, <2>11, <2>12,
       <2>13, <2>14, <2>15, <2>16 DEF Step, allow, Script, success, fail
<1> QED  BY <1>8, <1>9 DEF BreakerNext

\* The breaker starts closed, with nobody to reset its count.
LEMMA CostInit == BreakerInit => CostInv
<1> SUFFICES ASSUME BreakerInit PROVE CostInv
  OBVIOUS
<1>1. \A P : "out" \notin P => Those(pc, P) = {}
  BY DEF BreakerInit, Those
<1>2. Admitted = 0 /\ Clearing = 0
  BY <1>1, FS_EmptySet DEF Admitted, Clearing, AdmittedPlaces, InSuccess, InFail
<1>3. N \in Nat
  BY GoroutinesAssumption, FS_CardinalityType DEF N
<1> QED
  BY <1>2, <1>3 DEF BreakerInit, CostInv, Erasers, One

\* The cost is at most Threshold failures for each goroutine.
LEMMA CostBounds == BreakerInv /\ CostInv => OpensInTime
<1> SUFFICES ASSUME BreakerInv, CostInv, unopened > 0 PROVE OpensInTime
  <2>1. N \in Nat
    BY GoroutinesAssumption, FS_CardinalityType DEF N
  <2>2. Threshold * N \in Nat
    BY <2>1, BreakerAssumption
  <2> QED  BY <2>2 DEF OpensInTime, N, BreakerInv, BreakerTypeOK
<1>1. /\ N \in Nat /\ Tripping \in Nat /\ Clearing \in Nat /\ Admitted \in Nat
      /\ Tripping <= Admitted
  BY CountTypes DEF BreakerInv
<1>2. Erasers \in Nat /\ Erasers < N /\ Tripping <= N - Erasers
  BY <1>1 DEF CostInv, Erasers, One
<1>3. Counted \in Nat /\ Counted <= Threshold - 1
  BY BreakerAssumption DEF Counted, BreakerInv, BreakerTypeOK
<1>4. Erased \in Nat /\ Erased + (Threshold - 1) + (N - Erasers) <= Threshold * N
  BY <1>1, <1>2, ErasedSteps, BreakerAssumption DEF Erased
<1>5. Threshold * N \in Nat /\ unopened \in Nat
  BY <1>1, BreakerAssumption DEF BreakerInv, BreakerTypeOK
<1>6. unopened <= Erased + Counted + Tripping
  BY DEF CostInv
<1>7. unopened <= Threshold * N
  <2> HIDE DEF Erased, Counted, Tripping
  <2> QED  BY <1>1, <1>2, <1>3, <1>4, <1>5, <1>6, BreakerAssumption
<1> QED  BY <1>7 DEF OpensInTime, N

\* For any number of goroutines and any threshold, the late Store(0) of allow()
\* and the late openings of fail() keep the breaker from opening for at most
\* Threshold failures per goroutine.
THEOREM BreakerOpensInTime == BreakerSafe => []OpensInTime
<1> QED
  BY CostInit, CostBounds, CostStep, BreakerInvariance, PTL DEF BreakerSafe

=============================================================================
