------------------------------ MODULE MCLabels ------------------------------
(* Instances of Labels for TLC. *)
EXTENDS Labels, TLC

CONSTANTS g1, g2, g3

TwoGoroutines == {g1, g2}
ThreeGoroutines == {g1, g2, g3}
GoroutineSymmetry == Permutations(Goroutines)

(* Two base names; "a" comes in four spellings with two normal forms *)
SomeModels ==
    {[base |-> "a", upper |-> u, suffixes |-> n] : u \in BOOLEAN, n \in {0, 2}}
        \cup {[base |-> b, upper |-> FALSE, suffixes |-> 1] : b \in {"b"}}

FewModels ==
    {[base |-> b, upper |-> FALSE, suffixes |-> 1] : b \in {"a", "b"}}
=============================================================================
