------------------------------ MODULE Gateway ------------------------------
(***************************************************************************)
(* The request pipeline of internal/proxy/proxy.go: Handler.ServeHTTP with *)
(* its gates, admission, dispatch and release, for the requests of one     *)
(* upstream (breakers and semaphores are per upstream and share nothing).  *)
(* Every request runs in a goroutine of its own; a step is what happens    *)
(* between two accesses to shared state: the breaker (its mutex), the      *)
(* semaphore channel and the in-flight gauge.                              *)
(*                                                                         *)
(* httputil.ReverseProxy, the upstream and the client are external: the    *)
(* actions Forward, Unreachable, Informational, Respond, UpstreamError,    *)
(* and Upgrade are what rp.ServeHTTP may do with the response writer that  *)
(* it is given.                                                            *)
(***************************************************************************)
EXTENDS BreakerFSM, FiniteSets

CONSTANTS
    Requests,       \* identities of concurrently served requests
    NoRequest,
    Shapes,         \* request shapes that may arrive, see ShapeType
    UpstreamCodes,  \* final status codes the upstream may answer with
    MaxInFlight,    \* upstream.max_in_flight, 0 = no cap
    HardCap,        \* request.max_body_bytes, 0 = no cap
    EnrichCap,      \* maxEnrichmentBodyBytes
    MaxTime

ShapeType ==
    [route: {"health", "unrouted", "passthrough", "llm"},
     len: Nat,             \* length of the body the client sends
     advertised: BOOLEAN,  \* Content-Length is set (not chunked)
     broken: BOOLEAN]      \* reading the body fails

NoShape == [route |-> "none", len |-> 0, advertised |-> FALSE, broken |-> FALSE]

ASSUME GatewayAssumption ==
    /\ NoRequest \notin Requests
    /\ IsFiniteSet(Requests)
    /\ Shapes \subseteq ShapeType
    /\ UpstreamCodes \subseteq 200..599
    /\ MaxInFlight \in Nat
    /\ HardCap \in Nat
    /\ EnrichCap \in Nat
    /\ MaxTime \in Nat

VARIABLES
    pc,      \* where each request's goroutine is
    req,     \* its shape, NoShape when idle
    status,  \* statusCaptureWriter.status
    final,   \* final status code the client has been sent, 0 = none
    sent,    \* what the upstream got of the body: "none", "partial", "whole"
    sem,     \* len(upstreamSem[name])
    gauge,   \* llmtap.requests.in_flight
    probe    \* history: the request that opened the half-open episode

handler == <<pc, req, status, final, sent>>
vars == <<state, consecutive, lastFailure, openedAt, probeInFlight, now,
          pc, req, status, final, sent, sem, gauge, probe>>

Locations == {"idle", "gates", "admit", "acquire", "rollback", "dispatch",
              "body", "proxy", "upstream", "release", "report", "done"}

\* Between a successful breaker.admit() and the matching breaker.report().
Admitted == {"acquire", "rollback", "dispatch", "body", "proxy", "upstream",
             "release", "report"}

\* Holding a slot of the semaphore.
Holding == {"dispatch", "body", "proxy", "upstream", "release"}

TypeOK ==
    /\ FSMTypeOK
    /\ pc \in [Requests -> Locations]
    /\ req \in [Requests -> Shapes \cup {NoShape}]
    /\ status \in [Requests -> 0..599]
    /\ final \in [Requests -> 0..599]
    /\ sent \in [Requests -> {"none", "partial", "whole"}]
    /\ sem \in Nat
    /\ gauge \in Int
    /\ probe \in Requests \cup {NoRequest}

Init ==
    /\ newBreaker
    /\ now = 1
    /\ pc = [r \in Requests |-> "idle"]
    /\ req = [r \in Requests |-> NoShape]
    /\ status = [r \in Requests |-> 0]
    /\ final = [r \in Requests |-> 0]
    /\ sent = [r \in Requests |-> "none"]
    /\ sem = 0
    /\ gauge = 0
    /\ probe = NoRequest

Goto(r, from, to) ==
    /\ pc[r] = from
    /\ pc' = [pc EXCEPT ![r] = to]

-----------------------------------------------------------------------------
(***************************************************************************)
(* The gates before admission.                                             *)
(***************************************************************************)
Arrive(r, shape) ==
    /\ Goto(r, "idle", "gates")
    /\ req' = [req EXCEPT ![r] = shape]
    /\ UNCHANGED <<fsm, now, status, final, sent, sem, gauge, probe>>

\* An answer written before statusCaptureWriter is installed.
AnswerEarly(r, from, code) ==
    /\ Goto(r, from, "done")
    /\ final' = [final EXCEPT ![r] = code]
    /\ UNCHANGED <<req, status, sent, now, sem, gauge, probe>>

\* /healthz is always 200; /readyz is 503 until telemetry is ready.
ServeHealth(r) ==
    /\ req[r].route = "health"
    /\ \E code \in {200, 503} : AnswerEarly(r, "gates", code)
    /\ UNCHANGED fsm

\* checkAuth: 401 for a bad token, 429 when the verifier is saturated.
AuthReject(r) ==
    /\ req[r].route # "health"
    /\ \E code \in {401, 429} : AnswerEarly(r, "gates", code)
    /\ UNCHANGED fsm

\* Authorised, but no upstream owns the path.
NotFound(r) ==
    /\ req[r].route = "unrouted"
    /\ AnswerEarly(r, "gates", 404)
    /\ UNCHANGED fsm

PassGates(r) ==
    /\ req[r].route \in {"passthrough", "llm"}
    /\ Goto(r, "gates", "admit")
    /\ UNCHANGED <<fsm, now, req, status, final, sent, sem, gauge, probe>>

-----------------------------------------------------------------------------
(***************************************************************************)
(* Handler.admit: the breaker, then the semaphore.                         *)
(***************************************************************************)
AdmitBreaker(r) ==
    /\ Goto(r, "admit", "acquire")
    /\ admit
    /\ probe' = IF state' = "halfOpen" THEN r ELSE probe
    /\ UNCHANGED <<now, req, status, final, sent, sem, gauge>>

RejectBreaker(r) ==
    /\ ~AdmitOK
    /\ AnswerEarly(r, "admit", 503)
    /\ UNCHANGED fsm

\* Breaks SlotAccounting: one request too many.
SemHasRoom_OffByOne == MaxInFlight = 0 \/ sem <= MaxInFlight

SemHasRoom == MaxInFlight = 0 \/ sem < MaxInFlight

AcquireSlot(r) ==
    /\ SemHasRoom
    /\ Goto(r, "acquire", "dispatch")
    /\ sem' = IF MaxInFlight > 0 THEN sem + 1 ELSE sem
    /\ UNCHANGED <<fsm, now, req, status, final, sent, gauge, probe>>

\* Breaks EveryRequestServed: a blocking send instead of select/default.
SemFull_Blocks(r) == FALSE

SemFull(r) ==
    /\ ~SemHasRoom
    /\ Goto(r, "acquire", "rollback")
    /\ UNCHANGED <<fsm, now, req, status, final, sent, sem, gauge, probe>>

ProbeAfterReport == IF state' = "halfOpen" THEN probe ELSE NoRequest

\* Breaks ProbeSlotHeld: the admission is not returned.
Rollback_NoReport(r) ==
    /\ Goto(r, "rollback", "done")
    /\ final' = [final EXCEPT ![r] = 429]
    /\ UNCHANGED <<fsm, now, req, status, sent, sem, gauge, probe>>

\* The full semaphore: the admission is returned as a report of 429.
Rollback(r) ==
    /\ Goto(r, "rollback", "done")
    /\ report(429)
    /\ probe' = ProbeAfterReport
    /\ final' = [final EXCEPT ![r] = 429]
    /\ UNCHANGED <<now, req, status, sent, sem, gauge>>

-----------------------------------------------------------------------------
(***************************************************************************)
(* dispatch and captureHeadAndForward.                                     *)
(***************************************************************************)
\* statusCaptureWriter.WriteHeader keeps the first code it sees.
WriteHeader(r, code) ==
    status' = [status EXCEPT ![r] = IF @ = 0 THEN code ELSE @]

Dispatch(r) ==
    /\ \/ /\ req[r].route = "passthrough"
          /\ Goto(r, "dispatch", "proxy")
          /\ UNCHANGED gauge
       \/ /\ req[r].route = "llm"
          /\ Goto(r, "dispatch", "body")
          /\ gauge' = gauge + 1
    /\ UNCHANGED <<fsm, now, req, status, final, sent, sem, probe>>

\* dispatch returns: its deferred gauge decrement runs on every path.
GaugeAfterDispatch(r) ==
    gauge' = IF req[r].route = "llm" THEN gauge - 1 ELSE gauge

\* What the capture of the head reads: at most one byte more than the buffer.
HeadLen(q) == IF q.len <= EnrichCap THEN q.len ELSE EnrichCap + 1

\* Breaks CapRespected: Content-Length is not looked at.
TooLarge_IgnoresContentLength(q) ==
    HardCap > 0 /\ ~q.broken /\ HeadLen(q) <= EnrichCap /\ HeadLen(q) > HardCap

\* r.ContentLength > hardCap, or the whole body fits the enrichment buffer and
\* is longer than the cap.
TooLarge(q) ==
    /\ HardCap > 0
    /\ \/ q.advertised /\ q.len > HardCap
       \/ ~q.broken /\ HeadLen(q) <= EnrichCap /\ HeadLen(q) > HardCap

\* Breaks BreakerHearsOutcome: the 413 bypasses the capturing writer.
RejectBody_Uncaptured(r) ==
    /\ TooLarge(req[r])
    /\ Goto(r, "body", "release")
    /\ final' = [final EXCEPT ![r] = 413]
    /\ GaugeAfterDispatch(r)
    /\ UNCHANGED <<fsm, now, req, status, sent, sem, probe>>

\* Breaks GaugeBalanced: the early return misses the decrement.
RejectBody_GaugeLeak(r) ==
    /\ TooLarge(req[r])
    /\ Goto(r, "body", "release")
    /\ WriteHeader(r, 413)
    /\ final' = [final EXCEPT ![r] = 413]
    /\ UNCHANGED <<fsm, now, req, sent, sem, gauge, probe>>

RejectBody(r) ==
    /\ TooLarge(req[r])
    /\ Goto(r, "body", "release")
    /\ WriteHeader(r, 413)
    /\ final' = [final EXCEPT ![r] = 413]
    /\ GaugeAfterDispatch(r)
    /\ UNCHANGED <<fsm, now, req, sent, sem, probe>>

\* The body, or what a failed read left of it, goes to the reverse proxy.
AcceptBody(r) ==
    /\ ~TooLarge(req[r])
    /\ Goto(r, "body", "proxy")
    /\ UNCHANGED <<fsm, now, req, status, final, sent, sem, gauge, probe>>

\* capCountingReader fails a read past the head that takes the count over the
\* cap; a failed capture has consumed and closed the body.
CutShort(q) ==
    \/ q.broken
    \/ /\ q.route = "llm"
       /\ HardCap > 0
       /\ q.len > HeadLen(q)
       /\ q.len > HardCap

-----------------------------------------------------------------------------
(***************************************************************************)
(* rp.ServeHTTP (external).                                                *)
(***************************************************************************)
Forward(r) ==
    /\ Goto(r, "proxy", "upstream")
    /\ sent' = [sent EXCEPT ![r] = IF CutShort(req[r]) THEN "partial" ELSE "whole"]
    /\ UNCHANGED <<fsm, now, req, status, final, sem, gauge, probe>>

\* rp.ServeHTTP returns, having sent the final code.
Finish(r, from, code) ==
    /\ Goto(r, from, "release")
    /\ WriteHeader(r, code)
    /\ final' = [final EXCEPT ![r] = code]
    /\ GaugeAfterDispatch(r)
    /\ UNCHANGED <<fsm, now, req, sent, sem, probe>>

\* Dial, TLS or pin failure, or the client is gone: ErrorHandler sends 502.
Unreachable(r) == Finish(r, "proxy", 502)

\* A 1xx of the upstream is passed on through the same WriteHeader.
Informational(r) ==
    /\ pc[r] = "upstream"
    /\ status[r] = 0
    /\ WriteHeader(r, 103)
    /\ UNCHANGED <<fsm, now, pc, req, final, sent, sem, gauge, probe>>

\* The answer is copied to the client; a copy that fails panics with
\* http.ErrAbortHandler after the header is out, to the same effect here.
Respond(r) ==
    \E code \in UpstreamCodes : Finish(r, "upstream", code)

\* Timeout, connection loss, cancelled client or a failing body reader.
UpstreamError(r) == Finish(r, "upstream", 502)

\* 101 Switching Protocols: the connection is hijacked and the response is
\* written to it directly, so WriteHeader is never called.  It needs the
\* transport's own body: where modify has wrapped it, ErrorHandler sends 502.
Upgrade(r) ==
    /\ req[r].route = "passthrough" \/ req[r].broken
    /\ Goto(r, "upstream", "release")
    /\ final' = [final EXCEPT ![r] = 101]
    /\ GaugeAfterDispatch(r)
    /\ UNCHANGED <<fsm, now, req, status, sent, sem, probe>>

-----------------------------------------------------------------------------
(***************************************************************************)
(* admission.release, deferred by ServeHTTP: slot first, breaker last.     *)
(***************************************************************************)
ReleaseSlot(r) ==
    /\ Goto(r, "release", "report")
    /\ sem' = IF MaxInFlight > 0 THEN sem - 1 ELSE sem
    /\ UNCHANGED <<fsm, now, req, status, final, sent, gauge, probe>>

ReleaseCode(r) == IF status[r] = 0 THEN 502 ELSE status[r]

\* Breaks HalfOpenResolves: a response without a status is not reported.
ReleaseReport_SkipsUnset(r) ==
    /\ Goto(r, "report", "done")
    /\ IF status[r] = 0 THEN UNCHANGED <<fsm, probe>>
       ELSE report(status[r]) /\ probe' = ProbeAfterReport
    /\ UNCHANGED <<now, req, status, final, sent, sem, gauge>>

ReleaseReport(r) ==
    /\ Goto(r, "report", "done")
    /\ report(ReleaseCode(r))
    /\ probe' = ProbeAfterReport
    /\ UNCHANGED <<now, req, status, final, sent, sem, gauge>>

\* The identity is free for the next request.
Leave(r) ==
    /\ Goto(r, "done", "idle")
    /\ req' = [req EXCEPT ![r] = NoShape]
    /\ status' = [status EXCEPT ![r] = 0]
    /\ final' = [final EXCEPT ![r] = 0]
    /\ sent' = [sent EXCEPT ![r] = "none"]
    /\ UNCHANGED <<fsm, now, sem, gauge, probe>>

Tick ==
    /\ now < MaxTime
    /\ now' = now + 1
    /\ UNCHANGED <<fsm, handler, sem, gauge, probe>>

\* What the goroutine of a request does by itself once the request has arrived.
Handle(r) ==
    \/ ServeHealth(r) \/ AuthReject(r) \/ NotFound(r) \/ PassGates(r)
    \/ AdmitBreaker(r) \/ RejectBreaker(r)
    \/ AcquireSlot(r) \/ SemFull(r) \/ Rollback(r) \/ Dispatch(r)
    \/ ReleaseSlot(r) \/ ReleaseReport(r) \/ Leave(r)

\* Where it waits for a peer: the client's body, the upstream, or the two ends
\* of the copy of the answer.
AtPeers == {"body", "proxy", "upstream"}

Exchange(r) ==
    \/ RejectBody(r) \/ AcceptBody(r)
    \/ Forward(r) \/ Unreachable(r) \/ Informational(r)
    \/ Respond(r) \/ UpstreamError(r) \/ Upgrade(r)

Next ==
    \/ \E r \in Requests, q \in Shapes : Arrive(r, q)
    \/ \E r \in Requests : Handle(r) \/ Exchange(r)
    \/ Tick

Spec == Init /\ [][Next]_vars

\* Goroutines are scheduled.  Nothing is assumed of the peers: body_read_timeout
\* may be 0, the transport bounds only the wait for the header of the answer,
\* and WriteTimeout is zero, so a body that stalls or never ends is copied for
\* as long as both ends stay connected.
FairSpec == Spec /\ \A r \in Requests : WF_vars(Handle(r))

-----------------------------------------------------------------------------
(***************************************************************************)
(* Properties that hold.                                                   *)
(***************************************************************************)

\* The semaphore counts exactly the requests between AcquireSlot and
\* ReleaseSlot, whatever gate or error ends them, and with it the number of
\* requests that may be at the upstream stays within max_in_flight.
SlotHolders == {r \in Requests : pc[r] \in Holding}

SlotAccounting ==
    MaxInFlight > 0 => sem = Cardinality(SlotHolders) /\ sem <= MaxInFlight

\* C1, for the whole pipeline: while the breaker is half-open, the request that
\* took the probe slot has still its report ahead of it.
ProbeSlotHeld ==
    /\ state = "halfOpen" => /\ probeInFlight
                             /\ probe \in Requests
                             /\ pc[probe] \in Admitted
    /\ state # "halfOpen" => ~probeInFlight

\* llmtap.requests.in_flight is the number of recognised LLM calls inside
\* dispatch: the 413, fallback, upstream-error and abort exits all balance it.
LLMCalls == {r \in Requests : /\ pc[r] \in {"body", "proxy", "upstream"}
                              /\ req[r].route = "llm"}

GaugeBalanced == gauge = Cardinality(LLMCalls)

\* What the body cap does guarantee for recognised LLM calls, wherever it lies
\* with respect to the enrichment buffer: a body over the cap that announces its
\* length, or that fits the buffer, never reaches the upstream; any other is cut
\* short on the way, except one that ends with the very byte that is read to see
\* whether it fits the buffer (dispatch, captureHeadAndForward,
\* capCountingReader).  That one is longer than the cap only where the cap is
\* not above the buffer.
CapRespected ==
    \A r \in Requests :
        req[r].route = "llm" /\ HardCap > 0 /\ req[r].len > HardCap =>
            /\ req[r].advertised => sent[r] = "none"
            /\ ~req[r].broken /\ req[r].len <= EnrichCap => sent[r] = "none"
            /\ sent[r] = "whole" => req[r].len = EnrichCap + 1

\* The code that release reports to the breaker is the final code the client was
\* sent, with two exceptions: the first informational code stands for all that
\* follows it, and an upgraded connection, which has no code, counts as a 502
\* (statusCaptureWriter, admission.release).
BreakerHearsOutcome ==
    \A r \in Requests :
        pc[r] \in {"release", "report"} =>
            \/ ReleaseCode(r) = final[r]
            \/ 0 < status[r] /\ status[r] < 200
            \/ status[r] = 0 /\ final[r] = 101

\* ServeHTTP drives the breaker as the fuse allows: every admission is followed
\* by exactly one report and nothing else changes the breaker.
F == INSTANCE Fuse WITH
        phase <- state,
        outstanding <- {r \in Requests : pc[r] \in Admitted}

FuseSpec == F!Spec

\* A request that has arrived is answered and leaves, or is for ever with its
\* peers: no gate, no full semaphore and no other request stops it.
EveryRequestServed ==
    \A r \in Requests :
        pc[r] = "gates" ~> (pc[r] = "idle" \/ [](pc[r] \in AtPeers))

\* The probe's handler resolves the half-open state, whichever way it ends; only
\* a probe that is for ever with its peers keeps the breaker half-open.
HalfOpenResolves ==
    state = "halfOpen" ~>
        \/ state # "halfOpen"
        \/ \E r \in Requests : [](probe = r /\ pc[r] \in AtPeers)

-----------------------------------------------------------------------------
(***************************************************************************)
(* Properties that comments claim and the code does not have.              *)
(***************************************************************************)

\* proxy.go:489: "concurrency rejection is a no-upstream-contact event, not a
\* probe outcome": a probe that gives its admission back does not close the
\* breaker.
RollbackIsNoOutcome ==
    [][\A r \in Requests :
          probe = r /\ pc[r] = "rollback" /\ pc'[r] = "done" => state' # "closed"]_vars

\* proxy.go:397: release "can read the final status code that reached the
\* client and fold it into the breaker".
StatusIsFinal ==
    \A r \in Requests :
        pc[r] \in {"release", "report"} => ReleaseCode(r) = final[r]

\* config.go:261: "Above this, llmtap returns 413 without contacting upstream".
\* A chunked body is forwarded up to the cap, and whole where it is one byte
\* longer than an enrichment buffer that is not below the cap.
OversizeNotForwarded ==
    \A r \in Requests :
        HardCap > 0 /\ req[r].len > HardCap => sent[r] = "none"

=============================================================================
