---------------------------- MODULE ServerProofs ----------------------------
(***************************************************************************)
(* Proofs about the two parts that concurrent request goroutines share in  *)
(* the server: the end of an exchange and of the process, Lifecycle, and   *)
(* the token verifier, Auth; for any finite number of exchanges, and any   *)
(* number of goroutines, tokens and slots.                                 *)
(*                                                                         *)
(* Lifecycle's inductive invariant has three parts: ServerInv, over the    *)
(* variables of the main goroutine and of telemetry; ExchangeInv, over     *)
(* those of the handlers; and KeptInv, which relates the two.              *)
(***************************************************************************)
EXTENDS Lifecycle, Auth, FiniteSetTheorems, WellFoundedInduction, TLAPS

(***************************************************************************)
(* The main goroutine and telemetry.                                       *)
(***************************************************************************)
(* The shutdown calls that are left are those of the providers still up,
   last constructed first. *)
Unwinds ==
    \/ up = {} /\ closing = <<>>
    \/ up = {"tracer"} /\ closing = <<"tracer">>
    \/ up = {"tracer", "meter"} /\ closing = <<"meter", "tracer">>
    \/ up = {"tracer", "meter", "logger"} /\ closing = <<"logger", "meter", "tracer">>

TelemetryInv ==
    /\ stage \in Stages
    /\ stage \in {"failed", "closed"} => Unwinds
    /\ stage \notin {"failed", "closed"} => closing = <<>>
    /\ stage \in {"resource", "tracer"} => up = {}
    /\ stage = "meter" => up = {"tracer"}
    /\ stage = "logger" => up = {"tracer", "meter"}
    /\ stage \in {"instruments", "ready"} => up = {"tracer", "meter", "logger"}

Ahead == {"boot", "setup", "wire", "listen"}
Serving == {"serve", "waitStreams", "shutdown", "shutdownWait"}

ServerInv ==
    /\ TelemetryInv
    /\ main \in MainLocations
    /\ runErr \in {"none", "nil", "err"}
    /\ listening \in BOOLEAN /\ serveErr \in BOOLEAN
    /\ main = "boot" => stage = "resource"
    /\ main = "setup" => stage # "closed"
    /\ main \in {"wire", "listen"} \cup Serving => stage = "ready"
    /\ main = "returned" => stage \in {"ready", "closed"} /\ runErr # "none"
    /\ main \in Ahead \cup Serving => runErr = "none"
    /\ listening => main \in {"serve", "waitStreams"} /\ ~ serveErr
    /\ main \in Ahead => ~ serveErr
    /\ main = "exited" /\ stage # "ready" => up = {}
    /\ main = "exited" /\ runErr # "none" => stage = "closed"

(* One step of Setup or of a shutdown keeps the order of construction. *)
LEMMA TelemetryStep ==
    ASSUME TelemetryInv,
           Construct \/ ConstructFails \/ ShutdownProvider \/ Shutdown
    PROVE  TelemetryInv'
<1>p. Providers = {"tracer", "meter", "logger"}
  BY DEF Providers, Constructed
<1> USE DEF TelemetryInv, Stages, Following
<1>1. CASE Construct
  <2>1. /\ closing = <<>> /\ closing' = <<>>
        /\ \/ stage = "resource" /\ stage' = "tracer"
           \/ stage = "tracer" /\ stage' = "meter"
           \/ stage = "meter" /\ stage' = "logger"
           \/ stage = "logger" /\ stage' = "instruments"
           \/ stage = "instruments" /\ stage' = "ready"
    BY <1>1 DEF Construct
  <2>2. up' = up \cup ({stage} \cap {"tracer", "meter", "logger"})
    BY <1>1, <1>p DEF Construct
  <2>3. CASE stage \in {"resource", "instruments"}
    <3>1. up' = up
      BY <2>2, <2>3
    <3> QED BY <2>1, <2>3, <3>1
  <2>4. CASE stage \in {"tracer", "meter", "logger"}
    <3>1. up' = up \cup {stage}
      BY <2>2, <2>4, ZenonT(60)
    <3> QED BY <2>1, <2>4, <3>1
  <2> QED BY <2>1, <2>3, <2>4
<1>2. CASE ConstructFails
  BY <1>2 DEF ConstructFails, Unwinding, Unwinds
<1>3. CASE ShutdownProvider
  <2>1. stage \in {"failed", "closed"} /\ Unwinds /\ stage' = stage
    BY <1>3 DEF ShutdownProvider
  <2>2. Unwinds'
    <3>1. CASE up = {"tracer"} /\ closing = <<"tracer">>
      BY <1>3, <3>1 DEF ShutdownProvider, Unwinds
    <3>2. CASE up = {"tracer", "meter"} /\ closing = <<"meter", "tracer">>
      BY <1>3, <3>2 DEF ShutdownProvider, Unwinds
    <3>3. CASE up = {"tracer", "meter", "logger"}
               /\ closing = <<"logger", "meter", "tracer">>
      BY <1>3, <3>3 DEF ShutdownProvider, Unwinds
    <3> QED BY <1>3, <2>1, <3>1, <3>2, <3>3, ZenonT(60) DEF Unwinds, ShutdownProvider
  <2> QED BY <2>1, <2>2
<1>4. CASE Shutdown
  BY <1>4 DEF Shutdown, Unwinds
<1> QED BY <1>1, <1>2, <1>3, <1>4

LEMMA ServerInit == Init => ServerInv
BY ZenonT(60) DEF Init, SetupInit, ServerInv, TelemetryInv, Stages, Following, MainLocations,
       Ahead, Serving

(* Steps of the handlers leave the server alone; each step of the main
   goroutine, of a signal and of the clocks keeps ServerInv. *)
LEMMA ServerStep == ServerInv /\ [Next]_vars => ServerInv'
<1> SUFFICES ASSUME ServerInv, [Next]_vars PROVE ServerInv'
  OBVIOUS
<1>1. ASSUME UNCHANGED server PROVE ServerInv'
  BY <1>1 DEF server, telemetry, ServerInv, TelemetryInv, Unwinds
<1>2. ASSUME NEW e \in Exchanges, Start(e) \/ Handle(e) PROVE UNCHANGED server
  BY <1>2 DEF Start, Handle, Unanswered, modify, ReadEOF, Break, onClose, DecStreams,
              FinalizeInCallback, Closed, FinalizeAfterServe
<1>3. ASSUME UNCHANGED telemetry PROVE TelemetryInv'
  BY <1>3 DEF telemetry, ServerInv, TelemetryInv, Unwinds
<1>4. CASE Boot \/ BootFail \/ Wire \/ WireFails
  BY <1>3, <1>4 DEF Boot, BootFail, Wire, WireFails, ServerInv, TelemetryInv, telemetry,
                    MainLocations, Ahead, Serving
<1>5. CASE Setup
  <2>1. /\ main = "setup" /\ UNCHANGED <<main, runErr, listening, serveErr>>
        /\ Construct \/ ConstructFails \/ ShutdownProvider
    BY <1>5 DEF Setup
  <2>2. stage' # "closed" /\ TelemetryInv'
    <3>1. TelemetryInv'
      BY <2>1, TelemetryStep DEF ServerInv
    <3>2. stage' # "closed"
      BY <2>1 DEF Construct, ConstructFails, ShutdownProvider, Following, ServerInv
    <3> QED BY <3>1, <3>2
  <2> QED BY <2>1, <2>2 DEF ServerInv, MainLocations, Ahead, Serving
<1>6. CASE SetupReturns
  <2>1. stage = "failed" => up = {}
    BY <1>6 DEF SetupReturns, ServerInv, TelemetryInv, Unwinds
  <2> QED BY <1>3, <1>6, <2>1 DEF SetupReturns, ServerInv, telemetry, MainLocations,
                                  Ahead, Serving
<1>7. CASE Listen
  <2>1. TelemetryInv'
    BY <1>3, <1>7 DEF Listen
  <2> QED BY <2>1, <1>7 DEF Listen, ServerInv, telemetry, MainLocations, Ahead, Serving
<1>8. CASE ListenFail
  <2>1. TelemetryInv'
    BY <1>3, <1>8 DEF ListenFail
  <2> QED BY <2>1, <1>8 DEF ListenFail, RunReturns, ServerInv, telemetry,
                            MainLocations, Ahead, Serving
<1>9. CASE Signal
  <2>1. TelemetryInv'
    BY <1>3, <1>9 DEF Signal
  <2> QED BY <2>1, <1>9 DEF Signal, ServerInv, telemetry, MainLocations, Ahead, Serving
<1>10. CASE Expire
  <2>1. TelemetryInv'
    BY <1>3, <1>10 DEF Expire
  <2> QED BY <2>1, <1>10 DEF Expire, ServerInv, telemetry, MainLocations, Ahead, Serving
<1>11. CASE ServeFails
  <2>1. TelemetryInv'
    BY <1>3, <1>11 DEF ServeFails
  <2> QED BY <2>1, <1>11, ZenonT(60) DEF ServeFails, ServerInv, telemetry,
                                         MainLocations, Ahead, Serving
<1>12. CASE TakeServeErr
  <2>1. TelemetryInv'
    BY <1>3, <1>12 DEF TakeServeErr
  <2> QED BY <2>1, <1>12 DEF TakeServeErr, RunReturns, ServerInv, telemetry,
                             MainLocations, Ahead, Serving
<1>13. CASE BeginShutdown
  <2>1. TelemetryInv'
    BY <1>3, <1>13 DEF BeginShutdown
  <2> QED BY <2>1, <1>13 DEF BeginShutdown, ServerInv, telemetry,
                             MainLocations, Ahead, Serving
<1>14. CASE WaitForStreams
  <2>1. TelemetryInv'
    BY <1>3, <1>14 DEF WaitForStreams
  <2> QED BY <2>1, <1>14, ZenonT(60) DEF WaitForStreams, ServerInv, telemetry,
                                         MainLocations, Ahead, Serving
<1>15. CASE ShutdownIdle \/ ShutdownBusy \/ ShutdownExpired
  BY <1>3, <1>15 DEF ShutdownIdle, ShutdownBusy, ShutdownExpired, RunReturns, ServerInv,
                     telemetry, MainLocations, Ahead, Serving
<1>16. CASE FlushTelemetry
  <2>1. /\ main = "returned" /\ UNCHANGED <<main, runErr, listening, serveErr>>
        /\ Shutdown \/ ShutdownProvider
    BY <1>16 DEF FlushTelemetry
  <2>2. TelemetryInv'
    BY <2>1, TelemetryStep DEF ServerInv
  <2>3. stage' \in {"ready", "closed"}
    BY <2>1 DEF Shutdown, ShutdownProvider, ServerInv
  <2> QED BY <2>1, <2>2, <2>3 DEF ServerInv, MainLocations, Ahead, Serving
<1>17. CASE Exit
  <2>1. up = {}
    BY <1>17 DEF Exit, ServerInv, TelemetryInv, Unwinds
  <2> QED BY <1>3, <1>17, <2>1, ZenonT(60) DEF Exit, ServerInv, telemetry, MainLocations, Ahead,
                                   Serving
<1>18. CASE UNCHANGED vars
  BY <1>1, <1>18 DEF vars
<1> QED BY <1>1, <1>2, <1>4, <1>5, <1>6, <1>7, <1>8, <1>9, <1>10, <1>11, <1>12, <1>13,
           <1>14, <1>15, <1>16, <1>17, <1>18
        DEF Next, Main

(***************************************************************************)
(* The handlers.  Flow relates the place a handler is at to its locals: a  *)
(* call is recorded when its finalized flag is set, the sync.Once of the   *)
(* wrapper has run when and only when the callback is under way or over,   *)
(* and no handler ends with the call unrecorded.                           *)
(***************************************************************************)
Flow(a, k, o, f, n) ==
    /\ n = IF f THEN 1 ELSE 0
    /\ a \in {"none", "upstream"} => k = "none" /\ ~ o /\ ~ f
    /\ a \in {"copy", "eof"} => ~ o /\ ~ f
    /\ a = "dec" => o /\ ~ f /\ k = "stream"
    /\ a = "final" => o /\ ~ f
    /\ a = "close" => (o <=> f)
    /\ a = "served" => o \/ k = "none"
    /\ a = "done" => f

Counted(a, k, o) == k = "stream" /\ (a \in {"copy", "eof", "dec"} \/ (a = "close" /\ ~ o))

ExchangeInv ==
    /\ at \in [Exchanges -> Locations]
    /\ kind \in [Exchanges -> Kinds]
    /\ onceDone \in [Exchanges -> BOOLEAN]
    /\ finalized \in [Exchanges -> BOOLEAN]
    /\ recorded \in [Exchanges -> Nat]
    /\ kept \in [Exchanges -> BOOLEAN]
    /\ activeStreams \in Int
    /\ \A e \in Exchanges : Flow(at[e], kind[e], onceDone[e], finalized[e], recorded[e])
    /\ StreamsCounted

LEMMA CountedIs ==
    CountedStreams = {e \in Exchanges : Counted(at[e], kind[e], onceDone[e])}
BY DEF CountedStreams, Counted

LEMMA CountedFinite ==
    IsFiniteSet(CountedStreams) /\ Cardinality(CountedStreams) \in Nat
<1>1. CountedStreams \in SUBSET Exchanges
  BY DEF CountedStreams
<1> QED BY <1>1, LifecycleAssumption, FS_Subset, FS_CardinalityType

LEMMA ExchangeInit == Init => ExchangeInv
<1> SUFFICES ASSUME Init PROVE ExchangeInv
  OBVIOUS
<1>1. CountedStreams = {}
  BY DEF Init, CountedStreams
<1>2. StreamsCounted /\ activeStreams \in Int
  BY <1>1, FS_EmptySet DEF Init, StreamsCounted
<1>3. Flow("none", "none", FALSE, FALSE, 0)
  BY DEF Flow
<1> QED BY <1>2, <1>3, ZenonT(60) DEF Init, ExchangeInv, Locations, Kinds

(* A handler moves to a, with locals that fit there. *)
Moves(e, a, k, o, f, n) ==
    /\ a \in Locations /\ k \in Kinds /\ o \in BOOLEAN /\ f \in BOOLEAN /\ n \in Nat
    /\ Flow(a, k, o, f, n)
    /\ at' = [at EXCEPT ![e] = a]
    /\ kind' = [kind EXCEPT ![e] = k]
    /\ onceDone' = [onceDone EXCEPT ![e] = o]
    /\ finalized' = [finalized EXCEPT ![e] = f]
    /\ recorded' = [recorded EXCEPT ![e] = n]
    /\ kept' \in [Exchanges -> BOOLEAN]

(* A stream that modify puts on the counter, or its callback takes off. *)
StreamMoves(e, a, k, o) ==
    \/ /\ Counted(at[e], kind[e], onceDone[e]) <=> Counted(a, k, o)
       /\ activeStreams' = activeStreams
    \/ /\ ~ Counted(at[e], kind[e], onceDone[e]) /\ Counted(a, k, o)
       /\ activeStreams' = activeStreams + 1
    \/ /\ Counted(at[e], kind[e], onceDone[e]) /\ ~ Counted(a, k, o)
       /\ activeStreams' = activeStreams - 1

LEMMA MoveInv ==
    ASSUME ExchangeInv, NEW e \in Exchanges, NEW a, NEW k, NEW o, NEW f, NEW n,
           Moves(e, a, k, o, f, n), StreamMoves(e, a, k, o)
    PROVE  ExchangeInv'
<1>1. /\ at' \in [Exchanges -> Locations]
      /\ kind' \in [Exchanges -> Kinds]
      /\ onceDone' \in [Exchanges -> BOOLEAN]
      /\ finalized' \in [Exchanges -> BOOLEAN]
      /\ recorded' \in [Exchanges -> Nat]
  BY DEF Moves, ExchangeInv
<1>2. \A x \in Exchanges : x # e => /\ at'[x] = at[x] /\ kind'[x] = kind[x]
                                    /\ onceDone'[x] = onceDone[x]
                                    /\ finalized'[x] = finalized[x]
                                    /\ recorded'[x] = recorded[x]
  BY DEF Moves, ExchangeInv
<1>3. at'[e] = a /\ kind'[e] = k /\ onceDone'[e] = o /\ finalized'[e] = f /\ recorded'[e] = n
  BY DEF Moves, ExchangeInv
<1>4. ASSUME NEW x \in Exchanges
      PROVE  Flow(at[x], kind[x], onceDone[x], finalized[x], recorded[x])'
  <2>1. CASE x = e
    BY <1>3, <2>1 DEF Moves
  <2>2. CASE x # e
    BY <1>2, <2>2 DEF ExchangeInv
  <2> QED BY <2>1, <2>2
<1>5. CountedStreams' = {x \in Exchanges : Counted(at'[x], kind'[x], onceDone'[x])}
  BY DEF CountedStreams, Counted
<1>6. StreamsCounted' /\ activeStreams' \in Int
  <2>1. activeStreams = Cardinality(CountedStreams) /\ activeStreams \in Int
    BY DEF ExchangeInv, StreamsCounted
  <2>2. CASE (Counted(at[e], kind[e], onceDone[e]) <=> Counted(a, k, o))
             /\ activeStreams' = activeStreams
    <3>1. CountedStreams' = CountedStreams
      BY <1>2, <1>3, <1>5, <2>2, CountedIs
    <3> QED BY <2>1, <2>2, <3>1 DEF StreamsCounted
  <2>3. CASE /\ ~ Counted(at[e], kind[e], onceDone[e]) /\ Counted(a, k, o)
             /\ activeStreams' = activeStreams + 1
    <3>1. CountedStreams' = CountedStreams \cup {e} /\ e \notin CountedStreams
      BY <1>2, <1>3, <1>5, <2>3, CountedIs
    <3>2. Cardinality(CountedStreams') = Cardinality(CountedStreams) + 1
      BY <3>1, CountedFinite, FS_AddElement
    <3> QED BY <2>1, <2>3, <3>2 DEF StreamsCounted
  <2>4. CASE /\ Counted(at[e], kind[e], onceDone[e]) /\ ~ Counted(a, k, o)
             /\ activeStreams' = activeStreams - 1
    <3>1. CountedStreams' = CountedStreams \ {e} /\ e \in CountedStreams
      BY <1>2, <1>3, <1>5, <2>4, CountedIs
    <3>2. Cardinality(CountedStreams') = Cardinality(CountedStreams) - 1
      BY <3>1, CountedFinite, FS_RemoveElement
    <3> QED BY <2>1, <2>4, <3>2 DEF StreamsCounted
  <2> QED BY <2>2, <2>3, <2>4 DEF StreamMoves
<1>7. kept' \in [Exchanges -> BOOLEAN]
  BY DEF Moves
<1> QED BY <1>1, <1>4, <1>6, <1>7 DEF ExchangeInv

(* Assigning a local its own value changes nothing. *)
Steady(e) ==
    /\ kind = [kind EXCEPT ![e] = kind[e]]
    /\ onceDone = [onceDone EXCEPT ![e] = onceDone[e]]
    /\ finalized = [finalized EXCEPT ![e] = finalized[e]]
    /\ recorded = [recorded EXCEPT ![e] = recorded[e]]
    /\ at[e] \in Locations /\ kind[e] \in Kinds
    /\ onceDone[e] \in BOOLEAN /\ finalized[e] \in BOOLEAN /\ recorded[e] \in Nat
    /\ kept \in [Exchanges -> BOOLEAN]
    /\ activeStreams \in Int
    /\ Flow(at[e], kind[e], onceDone[e], finalized[e], recorded[e])

LEMMA AllSteady ==
    ASSUME ExchangeInv, NEW e \in Exchanges
    PROVE  Steady(e)
BY DEF ExchangeInv, Steady

(* The steps that only move the handler. *)
LEMMA WalkInv ==
    ASSUME ExchangeInv, NEW e \in Exchanges,
           \/ Start(e) \/ Unanswered(e) \/ ReadEOF(e) \/ Break(e) \/ DecStreams(e)
           \/ Closed(e)
    PROVE  ExchangeInv'
<1>k. Steady(e)
  BY AllSteady
<1>1. PICK a :
         /\ at' = [at EXCEPT ![e] = a]
         /\ UNCHANGED <<kind, onceDone, finalized, recorded, kept>>
         /\ \/ at[e] = "none" /\ a = "upstream" /\ UNCHANGED activeStreams
            \/ at[e] = "upstream" /\ a = "served" /\ UNCHANGED activeStreams
            \/ at[e] = "copy" /\ a \in {"eof", "close"} /\ UNCHANGED activeStreams
            \/ at[e] = "dec" /\ a = "final" /\ activeStreams' = activeStreams - 1
            \/ /\ at[e] = "close" /\ a \in {"served", "done"} /\ onceDone[e]
               /\ UNCHANGED activeStreams
  BY DEF Start, Unanswered, ReadEOF, Break, DecStreams, Closed, Goto
<1>2. Flow(a, kind[e], onceDone[e], finalized[e], recorded[e]) /\ a \in Locations
  BY <1>k, <1>1 DEF Steady, Flow, Locations
<1>3. Moves(e, a, kind[e], onceDone[e], finalized[e], recorded[e])
  BY <1>k, <1>1, <1>2, Zenon DEF Steady, Moves
<1>4. StreamMoves(e, a, kind[e], onceDone[e])
  BY <1>k, <1>1 DEF StreamMoves, Counted, Steady, Flow
<1> QED BY <1>3, <1>4, MoveInv

LEMMA ModifyInv ==
    ASSUME ExchangeInv, NEW e \in Exchanges, modify(e)
    PROVE  ExchangeInv'
<1>k. Steady(e) /\ at[e] = "upstream"
  BY AllSteady DEF modify, Goto
<1>1. PICK k \in {"json", "error", "stream"} :
         /\ kind' = [kind EXCEPT ![e] = k]
         /\ activeStreams' = IF k = "stream" THEN activeStreams + 1 ELSE activeStreams
  BY ZenonT(60) DEF modify
<1>2. Flow("copy", k, onceDone[e], finalized[e], recorded[e]) /\ "copy" \in Locations
      /\ k \in Kinds
  BY <1>k DEF Steady, Flow, Locations, Kinds
<1>3. Moves(e, "copy", k, onceDone[e], finalized[e], recorded[e])
  BY <1>k, <1>1, <1>2, Zenon DEF Steady, Moves, modify, Goto
<1>4. StreamMoves(e, "copy", k, onceDone[e])
  BY <1>k, <1>1 DEF StreamMoves, Counted, Steady
<1> QED BY <1>3, <1>4, MoveInv

(* A callback that runs has the call unrecorded, so the stream's takes it off
   the counter next. *)
LEMMA OnCloseInv ==
    ASSUME ExchangeInv, NEW e \in Exchanges, onClose(e)
    PROVE  ExchangeInv'
<1> DEFINE a == IF kind[e] # "stream" THEN "final" ELSE "dec"
<1>k. Steady(e) /\ at[e] \in {"eof", "close"} /\ ~ onceDone[e]
  BY AllSteady DEF onClose
<1>1. ~ finalized[e]
  BY <1>k DEF Steady, Flow
<1>2. at' = [at EXCEPT ![e] = a] /\ onceDone' = [onceDone EXCEPT ![e] = TRUE]
  BY <1>1 DEF onClose
<1>3. Flow(a, kind[e], TRUE, finalized[e], recorded[e]) /\ a \in Locations
  BY <1>k, <1>1 DEF Steady, Flow, Locations
<1>4. StreamMoves(e, a, kind[e], TRUE)
  BY <1>k DEF StreamMoves, Counted, onClose
<1> HIDE DEF a
<1>5. Moves(e, a, kind[e], TRUE, finalized[e], recorded[e])
  BY <1>k, <1>2, <1>3, Zenon DEF Steady, Moves, onClose
<1> QED BY <1>4, <1>5, MoveInv, ZenonT(60)

(* Both calls of finalize leave the call recorded once. *)
LEMMA FinalizeInv ==
    ASSUME ExchangeInv, NEW e \in Exchanges, FinalizeInCallback(e) \/ FinalizeAfterServe(e)
    PROVE  ExchangeInv'
<1> DEFINE a == IF at[e] = "final" THEN "close" ELSE "done"
<1>k. Steady(e) /\ at[e] \in {"final", "served"} /\ finalize(e)
  BY AllSteady DEF FinalizeInCallback, FinalizeAfterServe, Goto
<1>1. /\ at' = [at EXCEPT ![e] = a]
      /\ UNCHANGED <<kind, onceDone, activeStreams>>
  BY DEF FinalizeInCallback, FinalizeAfterServe, Goto
<1>2. finalized' = [finalized EXCEPT ![e] = TRUE] /\ recorded' = [recorded EXCEPT ![e] = 1]
  <2>1. CASE finalized[e]
    <3>1. recorded[e] = 1
      BY <1>k, <2>1 DEF Steady, Flow
    <3>2. finalized[e] = TRUE
      BY <1>k, <2>1 DEF Steady
    <3> QED BY <1>k, <2>1, <3>1, <3>2, Zenon DEF Steady, finalize
  <2>2. CASE ~ finalized[e]
    BY <1>k, <2>2 DEF Steady, Flow, finalize
  <2> QED BY <2>1, <2>2
<1>3. kept' \in [Exchanges -> BOOLEAN]
  BY <1>k, ZenonT(60) DEF Steady, finalize
<1>4. Flow(a, kind[e], onceDone[e], TRUE, 1) /\ a \in Locations /\ 1 \in Nat
  BY <1>k DEF Steady, Flow, Locations
<1>5. StreamMoves(e, a, kind[e], onceDone[e])
  BY <1>k, <1>1 DEF StreamMoves, Counted, Steady, Flow
<1> HIDE DEF a
<1>6. Moves(e, a, kind[e], onceDone[e], TRUE, 1)
  BY <1>k, <1>1, <1>2, <1>3, <1>4, Zenon DEF Steady, Moves
<1> QED BY <1>5, <1>6, MoveInv, ZenonT(60)

(* Steps of the main goroutine leave the handlers alone. *)
LEMMA ServerSteps ==
    ASSUME Main \/ Signal \/ ServeFails \/ Expire
    PROVE  UNCHANGED exchange
BY DEF Main, Signal, ServeFails, Expire, Boot, BootFail, Setup, SetupReturns, Wire,
       WireFails, Listen, ListenFail, TakeServeErr, BeginShutdown, WaitForStreams,
       ShutdownIdle, ShutdownBusy, ShutdownExpired, FlushTelemetry, Exit

LEMMA ExchangeStep == ExchangeInv /\ [Next]_vars => ExchangeInv'
<1> SUFFICES ASSUME ExchangeInv, [Next]_vars PROVE ExchangeInv'
  OBVIOUS
<1>1. ASSUME NEW e \in Exchanges, Start(e) \/ Handle(e) PROVE ExchangeInv'
  BY <1>1, WalkInv, ModifyInv, OnCloseInv, FinalizeInv DEF Handle
<1>2. CASE UNCHANGED exchange
  BY <1>2 DEF exchange, ExchangeInv, StreamsCounted, CountedStreams
<1>3. CASE UNCHANGED vars
  BY <1>2, <1>3 DEF vars
<1> QED BY <1>1, <1>2, <1>3, ServerSteps DEF Next

(***************************************************************************)
(* Handlers and main goroutine together: nothing starts before the server  *)
(* listens, all that is recorded while it serves is kept, and Run returns  *)
(* nil only with no handler running and the listener closed.               *)
(***************************************************************************)
KeptInv ==
    /\ main \in Ahead => \A e \in Exchanges : at[e] = "none"
    /\ runErr = "nil" => Idle
    /\ main \in Serving \/ runErr = "nil" => \A e \in Exchanges : finalized[e] => kept[e]

LEMMA KeptInit == Init => KeptInv
BY DEF Init, KeptInv, Serving, Idle, Running

LEMMA KeptStep == ServerInv /\ ExchangeInv /\ KeptInv /\ [Next]_vars => KeptInv'
<1> SUFFICES ASSUME ServerInv, ExchangeInv, KeptInv, [Next]_vars PROVE KeptInv'
  OBVIOUS
<1>1. ASSUME NEW e \in Exchanges, Start(e) \/ Handle(e) PROVE KeptInv'
  <2>1. UNCHANGED <<main, runErr, up>> /\ main # "exited"
    BY <1>1 DEF Start, Handle, Unanswered, modify, ReadEOF, Break, onClose, DecStreams,
                FinalizeInCallback, Closed, FinalizeAfterServe, server, telemetry, Goto,
                Alive
  <2>2. main \notin Ahead /\ runErr # "nil"
    <3>1. CASE Start(e)
      BY <3>1 DEF Start, ServerInv, Ahead, Serving
    <3>2. CASE Handle(e)
      <4>1. Running(e) /\ at[e] # "none"
        BY <3>2 DEF Handle, Unanswered, modify, ReadEOF, Break, onClose, DecStreams,
                    FinalizeInCallback, Closed, FinalizeAfterServe, Goto, Running
      <4> QED BY <4>1 DEF KeptInv, Idle
    <3> QED BY <1>1, <3>1, <3>2
  <2>3. ASSUME main \in Serving, NEW x \in Exchanges, finalized'[x] PROVE kept'[x]
    <3>1. finalized[x] => kept[x]
      BY <2>3 DEF KeptInv
    <3>2. CASE finalize(e)
      <4>1. {"meter", "tracer"} \subseteq up
        BY <2>3 DEF ServerInv, TelemetryInv
      <4> QED BY <2>3, <3>1, <3>2, <4>1, ZenonT(60) DEF finalize, ExchangeInv
    <3>3. CASE UNCHANGED <<finalized, kept>>
      BY <2>3, <3>1, <3>3
    <3> QED BY <1>1, <3>2, <3>3
            DEF Start, Handle, Unanswered, modify, ReadEOF, Break, onClose, DecStreams,
                FinalizeInCallback, Closed, FinalizeAfterServe
  <2> QED BY <2>1, <2>2, <2>3, SMTT(60) DEF KeptInv
<1>2. CASE Main \/ Signal \/ ServeFails \/ Expire
  <2>1. UNCHANGED <<at, finalized, kept>>
    BY <1>2, ServerSteps DEF exchange
  <2>2. /\ main' \in Ahead => main \in Ahead
        /\ main' \in Serving => main \in Serving \cup {"listen"}
    BY <1>2 DEF Main, Signal, ServeFails, Expire, Boot, BootFail, Setup, SetupReturns,
                Wire, WireFails, Listen, ListenFail, TakeServeErr, BeginShutdown,
                WaitForStreams, ShutdownIdle, ShutdownBusy, ShutdownExpired,
                FlushTelemetry, Exit, RunReturns, Ahead, Serving
  <2>3. runErr' = "nil" => runErr = "nil" \/ (Idle /\ main \in Serving)
    BY <1>2 DEF Main, Signal, ServeFails, Expire, Boot, BootFail, Setup, SetupReturns,
                Wire, WireFails, Listen, ListenFail, TakeServeErr, BeginShutdown,
                WaitForStreams, ShutdownIdle, ShutdownBusy, ShutdownExpired,
                FlushTelemetry, Exit, RunReturns, Serving
  <2>4. Idle' <=> Idle
    BY <2>1 DEF Idle, Running
  <2>5. main = "listen" => \A e \in Exchanges : ~ finalized[e]
    BY SMTT(60) DEF KeptInv, ExchangeInv, Flow, Ahead
  <2> QED BY <2>1, <2>2, <2>3, <2>4, <2>5 DEF KeptInv
<1>3. CASE UNCHANGED vars
  BY <1>3 DEF vars, server, exchange, KeptInv, Idle, Running
<1> QED BY <1>1, <1>2, <1>3 DEF Next

\* Every step of the server, of its telemetry and of every exchange keeps the
\* three invariants.
LEMMA LifecycleInvariant == Spec => [](ServerInv /\ ExchangeInv /\ KeptInv)
BY ServerInit, ServerStep, ExchangeInit, ExchangeStep, KeptInit, KeptStep, PTL DEF Spec

\* For any number of exchanges: activeStreams counts the streams whose callback
\* has not run.
THEOREM StreamCountExact == Spec => []StreamsCounted
<1>1. ExchangeInv => StreamsCounted
  BY DEF ExchangeInv
<1> QED BY <1>1, LifecycleInvariant, PTL

\* Every exchange is recorded at most once, and once when its handler has ended,
\* by whichever of the two paths gets there (responseInterceptor's finalize).
THEOREM NeverRecordedTwice == Spec => []RecordedOnce
<1>1. ExchangeInv => RecordedOnce
  BY DEF ExchangeInv, Flow, RecordedOnce
<1> QED BY <1>1, LifecycleInvariant, PTL

\* When Run has returned nil, every accepted exchange has been recorded while
\* telemetry still took it (Run, Shutdown).
THEOREM CleanExitComplete == Spec => []CleanExitKeepsAll
<1>1. ExchangeInv /\ KeptInv => CleanExitKeepsAll
  BY DEF ExchangeInv, KeptInv, Flow, Idle, Running, CleanExitKeepsAll
<1> QED BY <1>1, LifecycleInvariant, PTL

\* Providers are shut down in the reverse of the order they were constructed in,
\* and all of them, when Setup fails half-way and when Run returns.  The exits of
\* runUp in between, on a failure of newLogger, New or NewServer, shut down none
\* and are outside this (Setup, Shutdown, runUp).
THEOREM ShutDownInReverse == Spec => []UnwoundInReverse
<1>1. ServerInv => UnwoundInReverse
  <2> SUFFICES ASSUME ServerInv PROVE UnwoundInReverse
    OBVIOUS
  <2> DEFINE First(n) == {Constructed[i] : i \in 1..n}
  <2>1. /\ Constructed[1] = "tracer" /\ Constructed[2] = "meter"
        /\ Constructed[3] = "logger" /\ Len(Constructed) = 3
    BY DEF Constructed
  <2>2. /\ 1..0 = {} /\ 1..1 = {1} /\ 1..2 = {1, 2} /\ 1..3 = {1, 2, 3}
    OBVIOUS
  <2>3. /\ First(0) = {} /\ First(1) = {"tracer"} /\ First(2) = {"tracer", "meter"}
        /\ First(3) = {"tracer", "meter", "logger"}
    BY <2>1, <2>2
  <2>4. up \in {{}, {"tracer"}, {"tracer", "meter"}, {"tracer", "meter", "logger"}}
    BY DEF ServerInv, TelemetryInv, Unwinds, Stages, Following
  <2>5. \E n \in 0..Len(Constructed) : up = First(n)
    <3> HIDE DEF First
    <3>1. 0 \in 0..3 /\ 1 \in 0..3 /\ 2 \in 0..3 /\ 3 \in 0..3
      OBVIOUS
    <3> QED BY <2>1, <2>3, <2>4, <3>1
  <2> QED BY <2>5, ZenonT(60) DEF UnwoundInReverse, ServerInv
<1> QED BY <1>1, LifecycleInvariant, PTL

-----------------------------------------------------------------------------
(***************************************************************************)
(* The verifier.  Besides the properties themselves its invariant says     *)
(* what a goroutine inside Verify knows of its token, and that every cached*)
(* token is on the order slice: without that the eviction walk could find  *)
(* nothing to evict in a full cache.                                       *)
(***************************************************************************)
Locals ==
    \A g \in Goroutines :
        /\ pc[g] # "idle" => token[g] \in Tokens
        /\ pc[g] = "store" => token[g] \in Allow

AuthInv ==
    /\ AuthTypeOK
    /\ Locals
    /\ CacheSound
    /\ SemAccounting
    /\ CacheBounded
    /\ OrderCoversCache

(* A non-empty set of naturals has a least element. *)
LEMMA LeastExists ==
  ASSUME NEW S \in SUBSET Nat, S # {}
  PROVE  \E i \in S : \A j \in S : i <= j
  <1> DEFINE R == OpToRel(<, Nat)
  <1>1. IsWellFoundedOn(R, Nat)
    BY NatLessThanWellFounded, Zenon
  <1>2. \A i, j \in Nat : <<j, i>> \in R <=> j < i
    BY DEF OpToRel
  <1> HIDE DEF R
  <1>3. PICK i \in S : \A j \in S : ~ (<<j, i>> \in R)
    BY <1>1, WFMin
  <1>4. \A j \in S : ~ (j < i)
    BY <1>2, <1>3, Zenon
  <1>5. \A j \in S : i <= j
    BY <1>4
  <1> QED
    BY <1>5

(* The walk stops at the first position that is still in the cache. *)
LEMMA OldestIsFirst ==
  ASSUME AuthTypeOK, Present # {}
  PROVE  Oldest \in Present /\ \A j \in Present : Oldest <= j
  <1>1. Present \in SUBSET Nat
    BY DEF Present, AuthTypeOK
  <1>2. \E i \in Present : \A j \in Present : i <= j
    BY <1>1, LeastExists
  <1> QED
    BY <1>2 DEF Oldest

(* The set of cached tokens is finite. *)
LEMMA CachedFinite == IsFiniteSet(Cached) /\ Cardinality(Cached) \in Nat
  <1>1. Cached \in SUBSET Tokens
    BY DEF Cached
  <1> QED
    BY <1>1, AuthAssumption, FS_Subset, FS_CardinalityType

(* The set of goroutines inside the guarded region is finite. *)
LEMMA InArgon2Finite == IsFiniteSet(InArgon2) /\ Cardinality(InArgon2) \in Nat
  <1>1. InArgon2 \in SUBSET Goroutines
    BY DEF InArgon2
  <1> QED
    BY <1>1, AuthAssumption, FS_Subset, FS_CardinalityType

(* When the cache is full the eviction makes room and leaves every other
   entry on the order slice. *)
LEMMA EvictionMakesRoom ==
  ASSUME AuthTypeOK, OrderCoversCache, CacheBounded, Full
  PROVE  \E t \in Cached :
           /\ CacheAfterEviction = [cache EXCEPT ![t] = NoEntry]
           /\ OrderAfterEviction \in Seq(Tokens)
           /\ \A u \in Cached \ {t} :
                \E i \in DOMAIN OrderAfterEviction : OrderAfterEviction[i] = u
  <1>1. Cached # {}
    <2>1. Cardinality(Cached) # 0
      BY AuthAssumption, CachedFinite DEF Full
    <2> QED
      BY <2>1, FS_EmptySet
  <1>2. Present # {}
    BY <1>1 DEF OrderCoversCache, Present
  <1>3. Oldest \in Present /\ \A j \in Present : Oldest <= j
    BY <1>2, OldestIsFirst
  <1> DEFINE t == cacheOrder[Oldest]
  <1>4. /\ t \in Cached /\ Oldest \in 1..Len(cacheOrder)
        /\ cacheOrder \in Seq(Tokens)
    BY <1>3 DEF Present, AuthTypeOK
  <1>5. CacheAfterEviction = [cache EXCEPT ![t] = NoEntry]
    BY <1>2 DEF CacheAfterEviction
  <1>6. OrderAfterEviction = SubSeq(cacheOrder, Oldest + 1, Len(cacheOrder))
    BY <1>2 DEF OrderAfterEviction
  <1>7. OrderAfterEviction \in Seq(Tokens)
    BY <1>4, <1>6
  <1>8. ASSUME NEW u \in Cached \ {t}
        PROVE  \E i \in DOMAIN OrderAfterEviction : OrderAfterEviction[i] = u
    <2>1. PICK k \in DOMAIN cacheOrder : cacheOrder[k] = u
      BY <1>8 DEF OrderCoversCache
    <2>2. k \in Present /\ k # Oldest
      BY <1>8, <2>1 DEF Present
    <2>3. k \in Oldest + 1 .. Len(cacheOrder)
      BY <1>3, <1>4, <2>1, <2>2
    <2>4. /\ k - Oldest \in DOMAIN OrderAfterEviction
          /\ OrderAfterEviction[k - Oldest] = cacheOrder[k]
      BY <1>4, <1>6, <2>3
    <2> QED
      BY <2>1, <2>4
  <1> QED
    BY <1>4, <1>5, <1>7, <1>8

(* A fresh verifier satisfies the invariant. *)
LEMMA AuthInvInit == AuthInit => AuthInv
  <1> SUFFICES ASSUME AuthInit PROVE AuthInv
    OBVIOUS
  <1>1. Cached = {} /\ InArgon2 = {}
    BY DEF AuthInit, NewVerifier, Cached, InArgon2
  <1>2. Cardinality(Cached) = 0 /\ Cardinality(InArgon2) = 0
    BY <1>1, FS_EmptySet
  <1>3. AuthTypeOK
    BY AuthAssumption
    DEF AuthInit, NewVerifier, AuthTypeOK, NoEntry, VerifyLocations, Results
  <1>4. Locals
    BY DEF AuthInit, NewVerifier, Locals
  <1>5. CacheSound /\ OrderCoversCache
    BY <1>1 DEF AuthInit, NewVerifier, CacheSound, OrderCoversCache
  <1>6. SemAccounting /\ CacheBounded
    BY <1>2, AuthAssumption DEF AuthInit, NewVerifier, SemAccounting, CacheBounded
  <1> QED
    BY <1>3, <1>4, <1>5, <1>6 DEF AuthInv

(* A step that moves a goroutine without entering or leaving the guarded
   region keeps the semaphore's accounts. *)
LEMMA SemKept ==
  ASSUME SemAccounting, InArgon2' = InArgon2, sem' = sem
  PROVE  SemAccounting'
  BY DEF SemAccounting

(* A step that leaves the cache and the order slice alone keeps what is said
   of them. *)
LEMMA CacheKept ==
  ASSUME CacheBounded, OrderCoversCache, UNCHANGED <<cache, cacheOrder>>
  PROVE  Cached' = Cached /\ CacheBounded' /\ OrderCoversCache'
  BY DEF CacheBounded, OrderCoversCache, Cached

(* Every step of Verify and every tick preserves the invariant. *)
LEMMA AuthInvStep == AuthInv /\ [AuthNext]_authVars => AuthInv'
  <1> SUFFICES ASSUME AuthInv, [AuthNext]_authVars PROVE AuthInv'
    OBVIOUS
  <1> USE DEF MoveTo, Return
  <1>1. CASE Tick \/ UNCHANGED authVars
    <2>1. /\ now' \in Nat
          /\ UNCHANGED <<cache, cacheOrder, sem, pc, token, result>>
      BY <1>1 DEF Tick, authVars, AuthInv, AuthTypeOK
    <2> QED
      BY <2>1 DEF AuthInv, AuthTypeOK, Locals, CacheSound, SemAccounting, CacheBounded,
                  OrderCoversCache, Cached, InArgon2
  <1>2. ASSUME NEW g \in Goroutines, RejectEarly(g) PROVE AuthInv'
    <2>1. AuthTypeOK' /\ Locals'
      BY <1>2, AuthAssumption DEF RejectEarly, AuthInv, AuthTypeOK, Locals, VerifyLocations, Results
    <2>2. InArgon2' = InArgon2
      BY <1>2 DEF RejectEarly, AuthInv, AuthTypeOK, InArgon2
    <2>3. SemAccounting'
      BY <1>2, <2>2, SemKept DEF RejectEarly, AuthInv
    <2>4. Cached' = Cached /\ CacheBounded' /\ OrderCoversCache'
      BY <1>2, CacheKept DEF RejectEarly, AuthInv
    <2>5. CacheSound'
      BY <1>2, <2>4, AuthAssumption DEF RejectEarly, AuthInv, AuthTypeOK, Locals, CacheSound
    <2> QED
      BY <2>1, <2>3, <2>4, <2>5 DEF AuthInv
  <1>3. ASSUME NEW g \in Goroutines, Call(g) PROVE AuthInv'
    <2>1. AuthTypeOK' /\ Locals'
      BY <1>3, AuthAssumption DEF Call, AuthInv, AuthTypeOK, Locals, VerifyLocations, Results
    <2>2. InArgon2' = InArgon2
      BY <1>3 DEF Call, AuthInv, AuthTypeOK, InArgon2
    <2>3. SemAccounting'
      BY <1>3, <2>2, SemKept DEF Call, AuthInv
    <2>4. Cached' = Cached /\ CacheBounded' /\ OrderCoversCache'
      BY <1>3, CacheKept DEF Call, AuthInv
    <2>5. CacheSound'
      BY <1>3, <2>4, AuthAssumption DEF Call, AuthInv, AuthTypeOK, Locals, CacheSound
    <2> QED
      BY <2>1, <2>3, <2>4, <2>5 DEF AuthInv
  <1>4. ASSUME NEW g \in Goroutines, CacheHit(g) PROVE AuthInv'
    <2>1. AuthTypeOK' /\ Locals'
      BY <1>4, AuthAssumption DEF CacheHit, AuthInv, AuthTypeOK, Locals, VerifyLocations, Results
    <2>2. InArgon2' = InArgon2
      BY <1>4 DEF CacheHit, AuthInv, AuthTypeOK, InArgon2
    <2>3. SemAccounting'
      BY <1>4, <2>2, SemKept DEF CacheHit, AuthInv
    <2>4. Cached' = Cached /\ CacheBounded' /\ OrderCoversCache'
      BY <1>4, CacheKept DEF CacheHit, AuthInv
    <2>5. CacheSound'
      BY <1>4, <2>4, AuthAssumption DEF CacheHit, AuthInv, AuthTypeOK, Locals, CacheSound
    <2> QED
      BY <2>1, <2>3, <2>4, <2>5 DEF AuthInv
  <1>5. ASSUME NEW g \in Goroutines, CacheExpired(g) PROVE AuthInv'
    <2>1. AuthTypeOK' /\ Locals'
      BY <1>5 DEF CacheExpired, AuthInv, AuthTypeOK, Locals, VerifyLocations, NoEntry
    <2>2. InArgon2' = InArgon2
      BY <1>5 DEF CacheExpired, AuthInv, AuthTypeOK, InArgon2
    <2>3. SemAccounting'
      BY <1>5, <2>2, SemKept DEF CacheExpired, AuthInv
    <2>4. Cached' = Cached \ {token[g]}
      BY <1>5 DEF CacheExpired, AuthInv, AuthTypeOK, Cached
    <2>5. CacheBounded'
      <3>1. Cardinality(Cached \ {token[g]}) <= Cardinality(Cached)
        BY CachedFinite, FS_RemoveElement
      <3>2. Cardinality(Cached \ {token[g]}) \in Nat
        BY CachedFinite, FS_RemoveElement, FS_CardinalityType
      <3> QED
        BY <2>4, <3>1, <3>2, CachedFinite, AuthAssumption DEF AuthInv, CacheBounded
    <2>6. OrderCoversCache' /\ CacheSound'
      BY <1>5, <2>4 DEF CacheExpired, AuthInv, OrderCoversCache, CacheSound
    <2> QED
      BY <2>1, <2>3, <2>5, <2>6 DEF AuthInv
  <1>6. ASSUME NEW g \in Goroutines, CacheMiss(g) PROVE AuthInv'
    <2>1. AuthTypeOK' /\ Locals'
      BY <1>6, AuthAssumption DEF CacheMiss, AuthInv, AuthTypeOK, Locals, VerifyLocations, Results
    <2>2. InArgon2' = InArgon2
      BY <1>6 DEF CacheMiss, AuthInv, AuthTypeOK, InArgon2
    <2>3. SemAccounting'
      BY <1>6, <2>2, SemKept DEF CacheMiss, AuthInv
    <2>4. Cached' = Cached /\ CacheBounded' /\ OrderCoversCache'
      BY <1>6, CacheKept DEF CacheMiss, AuthInv
    <2>5. CacheSound'
      BY <1>6, <2>4, AuthAssumption DEF CacheMiss, AuthInv, AuthTypeOK, Locals, CacheSound
    <2> QED
      BY <2>1, <2>3, <2>4, <2>5 DEF AuthInv
  <1>7. ASSUME NEW g \in Goroutines, Acquire(g) PROVE AuthInv'
    <2>1. Locals' /\ pc' \in [Goroutines -> VerifyLocations]
      BY <1>7 DEF Acquire, AuthInv, AuthTypeOK, Locals, VerifyLocations
    <2>2. InArgon2' = InArgon2 \cup {g} /\ g \notin InArgon2
      BY <1>7 DEF Acquire, AuthInv, AuthTypeOK, InArgon2
    <2>3. Cardinality(InArgon2') = Cardinality(InArgon2) + 1
      BY <2>2, InArgon2Finite, FS_AddElement
    <2>4. SemAccounting' /\ sem' \in 0..NumCPU
      BY <1>7, <2>3, AuthAssumption
      DEF Acquire, SlotFree, AuthInv, AuthTypeOK, SemAccounting
    <2>5. AuthTypeOK'
      BY <1>7, <2>1, <2>4 DEF Acquire, AuthInv, AuthTypeOK
    <2>6. Cached' = Cached /\ CacheBounded' /\ OrderCoversCache'
      BY <1>7, CacheKept DEF Acquire, AuthInv
    <2>7. CacheSound'
      BY <1>7, <2>6 DEF Acquire, AuthInv, CacheSound
    <2> QED
      BY <2>1, <2>4, <2>5, <2>6, <2>7 DEF AuthInv
  <1>8. ASSUME NEW g \in Goroutines, Busy(g) PROVE AuthInv'
    <2>1. AuthTypeOK' /\ Locals'
      BY <1>8, AuthAssumption DEF Busy, AuthInv, AuthTypeOK, Locals, VerifyLocations, Results
    <2>2. InArgon2' = InArgon2
      BY <1>8 DEF Busy, AuthInv, AuthTypeOK, InArgon2
    <2>3. SemAccounting'
      BY <1>8, <2>2, SemKept DEF Busy, AuthInv
    <2>4. Cached' = Cached /\ CacheBounded' /\ OrderCoversCache'
      BY <1>8, CacheKept DEF Busy, AuthInv
    <2>5. CacheSound'
      BY <1>8, <2>4, AuthAssumption DEF Busy, AuthInv, AuthTypeOK, Locals, CacheSound
    <2> QED
      BY <2>1, <2>3, <2>4, <2>5 DEF AuthInv
  <1>9. ASSUME NEW g \in Goroutines, Compare(g) PROVE AuthInv'
    <2>1. AuthTypeOK' /\ Locals'
      BY <1>9, AuthAssumption DEF Compare, AuthInv, AuthTypeOK, Locals, VerifyLocations, Results
    <2>2. InArgon2' = InArgon2
      BY <1>9 DEF Compare, AuthInv, AuthTypeOK, InArgon2
    <2>3. SemAccounting'
      BY <1>9, <2>2, SemKept DEF Compare, AuthInv
    <2>4. Cached' = Cached /\ CacheBounded' /\ OrderCoversCache'
      BY <1>9, CacheKept DEF Compare, AuthInv
    <2>5. CacheSound'
      BY <1>9, <2>4, AuthAssumption DEF Compare, AuthInv, AuthTypeOK, Locals, CacheSound
    <2> QED
      BY <2>1, <2>3, <2>4, <2>5 DEF AuthInv
  <1>10. ASSUME NEW g \in Goroutines, Refresh(g) PROVE AuthInv'
    <2>0. now + cacheTTL \in Nat \ {0}
      BY AuthAssumption DEF AuthInv, AuthTypeOK
    <2>1. AuthTypeOK' /\ Locals'
      BY <1>10, <2>0 DEF Refresh, AuthInv, AuthTypeOK, Locals, VerifyLocations
    <2>2. InArgon2' = InArgon2
      BY <1>10 DEF Refresh, AuthInv, AuthTypeOK, InArgon2
    <2>3. SemAccounting'
      BY <1>10, <2>2, SemKept DEF Refresh, AuthInv
    <2>4. Cached' = Cached
      BY <1>10, <2>0 DEF Refresh, AuthInv, AuthTypeOK, Cached, NoEntry
    <2>5. CacheBounded' /\ OrderCoversCache' /\ CacheSound'
      BY <1>10, <2>4 DEF Refresh, AuthInv, CacheBounded, OrderCoversCache, CacheSound
    <2> QED
      BY <2>1, <2>3, <2>5 DEF AuthInv
  <1>11. ASSUME NEW g \in Goroutines, Insert(g) PROVE AuthInv'
    <2> DEFINE t == token[g]
               left == IF Full THEN CacheAfterEviction ELSE cache
               order == IF Full THEN OrderAfterEviction ELSE cacheOrder
    <2>0. /\ now + cacheTTL \in Nat \ {0}
          /\ t \in Tokens /\ t \in Allow /\ t \notin Cached
      BY <1>11, AuthAssumption DEF Insert, AuthInv, AuthTypeOK, Locals
    <2>1. PICK K \in SUBSET Cached :
            /\ left \in [Tokens -> Nat]
            /\ \A u \in Tokens : left[u] # NoEntry <=> u \in K
            /\ order \in Seq(Tokens)
            /\ \A u \in K : \E i \in DOMAIN order : order[i] = u
            /\ Cardinality(K) \in Nat /\ IsFiniteSet(K)
            /\ Cardinality(K) + 1 <= cacheMaxEntries
      <3>1. CASE Full
        <4>1. PICK e \in Cached :
                /\ CacheAfterEviction = [cache EXCEPT ![e] = NoEntry]
                /\ OrderAfterEviction \in Seq(Tokens)
                /\ \A u \in Cached \ {e} : \E i \in DOMAIN OrderAfterEviction :
                       OrderAfterEviction[i] = u
          BY <3>1, EvictionMakesRoom DEF AuthInv
        <4>2. left = [cache EXCEPT ![e] = NoEntry] /\ order = OrderAfterEviction
          BY <3>1, <4>1
        <4>3. /\ IsFiniteSet(Cached \ {e})
              /\ Cardinality(Cached \ {e}) = Cardinality(Cached) - 1
          BY CachedFinite, FS_RemoveElement
        <4>4. Cardinality(Cached \ {e}) \in Nat
          BY <4>3, FS_CardinalityType
        <4>5. Cardinality(Cached \ {e}) + 1 <= cacheMaxEntries
          BY <4>3, <4>4, CachedFinite, AuthAssumption DEF AuthInv, CacheBounded
        <4>6. /\ left \in [Tokens -> Nat]
              /\ \A u \in Tokens : left[u] # NoEntry <=> u \in Cached \ {e}
          <5>1. cache \in [Tokens -> Nat] /\ NoEntry \in Nat /\ e \in Tokens
            BY DEF AuthInv, AuthTypeOK, NoEntry, Cached
          <5> HIDE DEF left
          <5>2. left \in [Tokens -> Nat]
            BY <4>2, <5>1
          <5>3. \A u \in Tokens : left[u] # NoEntry <=> u \in Cached \ {e}
            BY <4>2, <5>1 DEF Cached
          <5> QED
            BY <5>2, <5>3
        <4> QED
          BY <4>1, <4>2, <4>3, <4>4, <4>5, <4>6
      <3>2. CASE ~ Full
        <4>1. left = cache /\ order = cacheOrder
          BY <3>2
        <4>2. Cardinality(Cached) + 1 <= cacheMaxEntries
          BY <3>2, CachedFinite, AuthAssumption DEF Full
        <4>3. \A u \in Tokens : cache[u] # NoEntry <=> u \in Cached
          BY DEF Cached
        <4> QED
          BY <4>1, <4>2, <4>3, CachedFinite DEF AuthInv, AuthTypeOK, OrderCoversCache
      <3> QED
        BY <3>1, <3>2
    <2>2. /\ cache' = [left EXCEPT ![t] = now + cacheTTL]
          /\ cacheOrder' = Append(order, t)
          /\ pc' = [pc EXCEPT ![g] = "release"] /\ pc[g] = "store"
          /\ UNCHANGED <<now, sem, token, result>>
      BY <1>11 DEF Insert
    <2> HIDE DEF left, order
    <2>3. cache' \in [Tokens -> Nat] /\ cacheOrder' \in Seq(Tokens)
      BY <2>0, <2>1, <2>2
    <2>4. AuthTypeOK' /\ Locals'
      BY <2>2, <2>3 DEF AuthInv, AuthTypeOK, Locals, VerifyLocations
    <2>5. InArgon2' = InArgon2
      BY <2>2 DEF AuthInv, AuthTypeOK, InArgon2
    <2>6. SemAccounting'
      BY <2>2, <2>5, SemKept DEF AuthInv
    <2>7. Cached' = K \cup {t}
      BY <2>0, <2>1, <2>2 DEF Cached, NoEntry
    <2>8. CacheBounded'
      <3>1. Cardinality(K \cup {t}) = Cardinality(K) + 1
        <4>1. t \notin K
          BY <2>0, <2>1
        <4> QED
          BY <2>1, <4>1, FS_AddElement
      <3>2. Cardinality(K \cup {t}) \in Nat
        BY <2>1, FS_AddElement, FS_CardinalityType
      <3> QED
        BY <2>1, <2>7, <3>1, <3>2, AuthAssumption DEF CacheBounded
    <2>9. OrderCoversCache'
      <3>1. \A i \in DOMAIN order : i \in DOMAIN cacheOrder' /\ cacheOrder'[i] = order[i]
        BY <2>0, <2>1, <2>2
      <3>2. /\ Len(order) + 1 \in DOMAIN cacheOrder'
            /\ cacheOrder'[Len(order) + 1] = t
        BY <2>0, <2>1, <2>2
      <3> QED
        BY <2>1, <2>7, <3>1, <3>2 DEF OrderCoversCache
    <2>10. CacheSound'
      BY <2>0, <2>1, <2>2, <2>7 DEF AuthInv, CacheSound
    <2> QED
      BY <2>4, <2>6, <2>8, <2>9, <2>10 DEF AuthInv
  <1>12. ASSUME NEW g \in Goroutines, Release(g) PROVE AuthInv'
    <2>1. Locals' /\ pc' \in [Goroutines -> VerifyLocations]
      BY <1>12 DEF Release, AuthInv, AuthTypeOK, Locals, VerifyLocations
    <2>2. InArgon2' = InArgon2 \ {g} /\ g \in InArgon2
      BY <1>12 DEF Release, AuthInv, AuthTypeOK, InArgon2
    <2>3. /\ Cardinality(InArgon2') = Cardinality(InArgon2) - 1
          /\ Cardinality(InArgon2') \in Nat
      BY <2>2, InArgon2Finite, FS_RemoveElement, FS_CardinalityType
    <2>4. SemAccounting' /\ sem' \in 0..NumCPU
      BY <1>12, <2>3, AuthAssumption DEF Release, AuthInv, AuthTypeOK, SemAccounting
    <2>5. AuthTypeOK'
      BY <1>12, <2>1, <2>4 DEF Release, AuthInv, AuthTypeOK
    <2>6. Cached' = Cached /\ CacheBounded' /\ OrderCoversCache'
      BY <1>12, CacheKept DEF Release, AuthInv
    <2>7. CacheSound'
      BY <1>12, <2>6 DEF Release, AuthInv, CacheSound
    <2> QED
      BY <2>1, <2>4, <2>5, <2>6, <2>7 DEF AuthInv
  <1> QED
    BY <1>1, <1>2, <1>3, <1>4, <1>5, <1>6, <1>7, <1>8, <1>9, <1>10, <1>11, <1>12
    DEF AuthNext, Verify

(* Every step of every goroutine keeps the invariant. *)
LEMMA AuthInvariant == AuthSpec => []AuthInv
BY AuthInvInit, AuthInvStep, PTL DEF AuthSpec

(* For any number of goroutines and tokens: whatever the interleaving of
   lookups, evictions and comparisons, only allow-listed tokens are cached or
   answered "ok" (Verify, cacheLookup, cacheStore). *)
THEOREM OnlyAllowedAdmitted == AuthSpec => []CacheSound
<1>1. AuthInv => CacheSound
  BY DEF AuthInv
<1> QED BY <1>1, AuthInvariant, PTL

(* The semaphore counts exactly the comparisons that run, at most NumCPU of
   them, for any NumCPU: no path through Verify leaks or doubles a slot. *)
THEOREM ComparisonsCounted == AuthSpec => []SemAccounting
<1>1. AuthInv => SemAccounting
  BY DEF AuthInv
<1> QED BY <1>1, AuthInvariant, PTL

(* The cache never exceeds its bound, whatever that is: in a full cache the
   eviction walk finds an entry to evict (cacheStore). *)
THEOREM CacheStaysBounded == AuthSpec => []CacheBounded
<1>1. AuthInv => CacheBounded
  BY DEF AuthInv
<1> QED BY <1>1, AuthInvariant, PTL

(* Every cached token is on the order slice, through expiry, refresh and
   eviction in any order (cacheStore, cacheLookup). *)
THEOREM EvictionFindsAll == AuthSpec => []OrderCoversCache
<1>1. AuthInv => OrderCoversCache
  BY DEF AuthInv
<1> QED BY <1>1, AuthInvariant, PTL
=============================================================================
