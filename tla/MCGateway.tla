----------------------------- MODULE MCGateway -----------------------------
(***************************************************************************)
(* Instances of Gateway for TLC.                                           *)
(***************************************************************************)
EXTENDS Gateway

CONSTANTS r1, r2

TwoRequests == {r1, r2}

Shape(route, len, advertised, broken) ==
    [route |-> route, len |-> len, advertised |-> advertised, broken |-> broken]

\* With HardCap = 1 and EnrichCap = 2: a body at the cap; bodies over it that
\* announce their length, that fit the buffer, that end one byte after it and
\* that go on; one that cannot be read.
LLMShapes == {Shape("llm", 1, TRUE, FALSE), Shape("llm", 3, TRUE, FALSE)}
             \cup {Shape("llm", n, FALSE, FALSE) : n \in 2..4}
             \cup {Shape("llm", 2, FALSE, TRUE)}

AllShapes == LLMShapes \cup
    {Shape("health", 0, FALSE, FALSE), Shape("unrouted", 0, FALSE, FALSE),
     Shape("passthrough", 3, FALSE, FALSE)}

PlainShape == {Shape("llm", 1, TRUE, FALSE)}

MCUpstreamCodes == {200, 500}

=============================================================================
