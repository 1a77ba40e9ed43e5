--------------------------- MODULE MCAuctionStore ---------------------------
(* Instances of AuctionStore for TLC.                                      *)
EXTENDS AuctionStore, TLC

CONSTANTS c1, c2, b1, b2

MCWords == {"", "0", "1", "#", "id", "rest", "u1", "u2", "a", "b"} \cup Reasons

u1 == <<"u1">>
u2 == <<"u2">>

Bid(b, u, a) == [op |-> "bid", bid |-> b, user |-> u, amount |-> a]

\* Two bidders; u2 also reuses u1's bid id for another amount.
MCBidRequests == {Bid(b1, u1, 2), Bid(b1, u2, 3), Bid(b2, u2, 3)}

\* A lasting auction, and one with the default duration whose opening price is
\* above one bid.
MCCreateRequests == {[op |-> "create", opening |-> 1, duration |-> 2],
                     [op |-> "create", opening |-> 2, duration |-> 0]}

\* One bidder whose user id holds a separator, as "a|b" does.
MCSeparatorBidRequests == {Bid(b1, <<"a", "b">>, 2)}

Symmetry == Permutations(Callers)

=============================================================================
