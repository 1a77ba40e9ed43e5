---------------------------- MODULE MCBidGateway ----------------------------
(* Instances of BidGateway for TLC.                                        *)
EXTENDS BidGateway, TLC

CONSTANTS g1, g2, g3

Symmetry == Permutations(Goroutines)

=============================================================================
