--------------------------- MODULE MCEventFanout ----------------------------
(* Instances of EventFanout for TLC.                                       *)
EXTENDS EventFanout, TLC

CONSTANTS c1, c2, a1, a2

\* Everyone watches the same auction, or each client another one.
MCSameAuction == [c \in Clients |-> a1]
MCOwnAuction == [c \in Clients |-> IF c = c1 THEN a1 ELSE a2]

\* Two auctions land on different shards if there are two.
MCHash == [a \in Auctions |-> IF a = a1 THEN 4 ELSE 7]

=============================================================================
