------------------------------ MODULE Auction -------------------------------
(***************************************************************************)
(* What the bid store promises, whatever the network does: one auction     *)
(* that changes by atomic steps only.  A bid id is taken at most once      *)
(* between two moments at which the store forgets the ids it has seen; a   *)
(* taken bid either becomes the standing bid, and then it beats the price, *)
(* or changes nothing but, once the end has passed, the phase.             *)
(***************************************************************************)
EXTENDS Integers

CONSTANTS BidIds, Users, NoUser

VARIABLES
  phase,    \* "none" before the auction is created, then "open" or "closed"
  price,    \* the standing price
  winner,   \* the standing bidder
  version,  \* the number of bids accepted since the auction was created
  seen      \* the bid ids the store remembers

vars == <<phase, price, winner, version, seen>>

Init ==
  /\ phase = "none"
  /\ price = 0
  /\ winner = NoUser
  /\ version = 0
  /\ seen = {}

\* Creating an auction starts it afresh, also when it exists already.
Open ==
  /\ phase' = "open"
  /\ price' \in Int
  /\ winner' = NoUser
  /\ version' = 0
  /\ UNCHANGED seen

\* Bid id b is decided now; the store may be set to remember nothing.
Take(b) ==
  /\ phase # "none"
  /\ b \notin seen
  /\ seen' \in {seen \cup {b}, {}}

Accept(b, u) ==
  /\ Take(b)
  /\ phase = "open"
  /\ price' \in Int
  /\ price' > price
  /\ winner' = u
  /\ version' = version + 1
  /\ UNCHANGED phase

Refuse(b) ==
  /\ Take(b)
  /\ phase' \in {phase, "closed"}
  /\ UNCHANGED <<price, winner, version>>

Forget ==
  /\ seen' = {}
  /\ UNCHANGED <<phase, price, winner, version>>

Next ==
  \/ Open
  \/ \E b \in BidIds : Refuse(b)
  \/ \E b \in BidIds, u \in Users : Accept(b, u)
  \/ Forget

Spec == Init /\ [][Next]_vars

=============================================================================
