----------------------------- MODULE MCPricing -----------------------------
(* Instances of Pricing for TLC. *)
EXTENDS Pricing, TLC

(* Two letters, one of them in both cases *)
Letters == {"a", "b", "A"}
LowerCase == [b \in Letters |-> IF b = "A" THEN "a" ELSE b]

(* A family, a longer one nested in it, and one of another system *)
Catalogue == (<<"openai", <<"a">> >> :> "family")
          @@ (<<"openai", <<"a", "b">> >> :> "mini")
          @@ (<<"anthropic", <<"b">> >> :> "other")

(* A file of at most two entries *)
Files == {[k \in ks |-> "override"] : ks \in {{}} \cup {{a, b} : a, b \in Entries}}
=============================================================================
