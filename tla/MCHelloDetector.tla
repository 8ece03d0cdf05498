--------------------------- MODULE MCHelloDetector --------------------------
(* A small instance of HelloDetector: an application that is disabled, and *)
(* two new ones, which nothing tells apart.                                *)
EXTENDS HelloDetector, TLC

CONSTANTS refused, fresh, other

MCApps == {refused, fresh, other}
MCSymmetry == Permutations({fresh, other})
=============================================================================
