---------------------------- MODULE MCLifecycle ----------------------------
(* Instances of Lifecycle for TLC. *)
EXTENDS Lifecycle

CONSTANTS e1, e2, e3

ThreeExchanges == {e1, e2, e3}
=============================================================================
