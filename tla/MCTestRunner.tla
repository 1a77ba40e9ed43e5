---------------------------- MODULE MCTestRunner ----------------------------
(* Instances of TestRunner for TLC.                                        *)
EXTENDS TestRunner, TLC

CONSTANTS p1, p2, k1, k2

=============================================================================
