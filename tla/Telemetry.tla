----------------------------- MODULE Telemetry -----------------------------
(***************************************************************************)
(* Setup of src/internal/telemetry/telemetry.go: the tracer, meter and     *)
(* logger providers are constructed one after the other, a failure shuts   *)
(* down those constructed before it, and the Shutdown that Setup returns   *)
(* shuts down all three.  The SDK's providers are external: each is up     *)
(* from its construction to its shutdown call, whatever that call returns. *)
(***************************************************************************)
EXTENDS Sequences

VARIABLES
    stage,      \* where Setup is, or how it ended
    up,         \* providers that take records
    closing     \* shutdown calls still to make

telemetry == <<stage, up, closing>>

Constructed == <<"tracer", "meter", "logger">>
Providers == {Constructed[i] : i \in DOMAIN Constructed}
Following == [resource |-> "tracer", tracer |-> "meter", meter |-> "logger",
              logger |-> "instruments", instruments |-> "ready"]
Stages == DOMAIN Following \cup {"ready", "failed", "closed"}

SetupInit ==
    /\ stage = "resource"
    /\ up = {} /\ closing = <<>>

(* One construction of Setup succeeds: buildResource, a new...Provider (which
   counts from here) or newGenAIMeters, after which Setup returns *)
Construct ==
    /\ stage \in DOMAIN Following
    /\ stage' = Following[stage]
    /\ up' = up \cup ({stage} \cap Providers)
    /\ UNCHANGED closing

(* Breaks UnwoundInReverse: the tracer is forgotten when the logger fails. *)
Unwinding_ForgetsTracer(at) ==
    CASE at = "meter" -> <<"tracer">>
      [] at = "logger" -> <<"meter">>
      [] at = "instruments" -> <<"logger", "meter", "tracer">>
      [] OTHER -> <<>>

(* The shutdown calls of the error path of each construction *)
Unwinding(at) ==
    CASE at = "meter" -> <<"tracer">>
      [] at = "logger" -> <<"meter", "tracer">>
      [] at = "instruments" -> <<"logger", "meter", "tracer">>
      [] OTHER -> <<>>

ConstructFails ==
    /\ stage \in DOMAIN Following
    /\ stage' = "failed"
    /\ closing' = Unwinding(stage)
    /\ UNCHANGED up

(* The Shutdown of Providers is called *)
Shutdown ==
    /\ stage = "ready"
    /\ stage' = "closed"
    /\ closing' = <<"logger", "meter", "tracer">>
    /\ UNCHANGED up

(* One provider's shutdown returns; its error is dropped or joined to the
   others', and the next call is made in either case *)
ShutdownProvider ==
    /\ closing # <<>>
    /\ up' = up \ {Head(closing)}
    /\ closing' = Tail(closing)
    /\ UNCHANGED stage

SetupType ==
    /\ stage \in Stages
    /\ up \subseteq Providers
    /\ closing \in Seq(Providers)
=============================================================================
