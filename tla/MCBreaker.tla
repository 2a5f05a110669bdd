----------------------------- MODULE MCBreaker -----------------------------
(***************************************************************************)
(* Instances of Breaker for TLC.                                           *)
(***************************************************************************)
EXTENDS Breaker, TLC

CONSTANTS r1, r2, r3

MCRequests == {r1, r2, r3}
TwoRequests == {r1, r2}

\* Both ends of the 5xx range and their neighbours.
MCStatusCodes == {200, 499, 500, 599, 600}

RequestSymmetry == Permutations(MCRequests)

=============================================================================
