------------------------------- MODULE MCAuth -------------------------------
(* Instances of Auth for TLC: tokens a, b, c are allow-listed, x is well
   formed but unknown, y is malformed. *)
EXTENDS Auth, TLC

CONSTANTS a, b, c, x, y, g1, g2, g3

MCTokens == {a, b, c, x, y}
MCAllow == {a, b, c}
MCWellShaped == {a, b, c, x}
TwoGoroutines == {g1, g2}
ThreeGoroutines == {g1, g2, g3}
MCSymmetry == Permutations(Goroutines) \cup Permutations(Allow)
=============================================================================
