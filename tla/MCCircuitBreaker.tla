-------------------------- MODULE MCCircuitBreaker --------------------------
(* Instances of CircuitBreaker for TLC.                                    *)
EXTENDS CircuitBreaker, TLC

CONSTANTS g1, g2, g3

Symmetry == Permutations(Goroutines)

=============================================================================
