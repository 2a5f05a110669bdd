--------------------------- MODULE MCCertManager ---------------------------
(* Instances of CertManager for TLC: generation 1 keeps the key of
   generation 0, generation 2 has a new one. *)
EXTENDS CertManager

MCKeyOf == [n \in Gens |-> IF n < 2 THEN "k0" ELSE "k1"]
NewKeyEachTime == [n \in Gens |-> n]
=============================================================================
