--------------------------- MODULE GatewayProofs ---------------------------
(***************************************************************************)
(* Proofs about Gateway, for any number of concurrent requests of any      *)
(* shapes, any limits and any breaker configuration.                       *)
(***************************************************************************)
EXTENDS Gateway, FiniteSetTheorems, TLAPS

(***************************************************************************)
(* The inductive invariant.  Flow is what a goroutine knows of its own     *)
(* request, as a relation between the place it is at and its locals: no    *)
(* code is captured before the reverse proxy has the request, and what was *)
(* forwarded had passed the cap.  The shared counters and the probe slot   *)
(* then depend on the places alone.                                        *)
(***************************************************************************)
Before == {"idle", "gates", "admit", "acquire", "rollback", "dispatch", "body", "proxy"}

Flow(p, q, s, f, t) ==
    /\ p \in Before => s = 0 /\ t = "none"
    /\ p = "upstream" => s \in {0, 103}
    /\ (p = "proxy" \/ t # "none") /\ q.route = "llm" => ~TooLarge(q)
    /\ t = "whole" => ~CutShort(q)
    /\ p \in {"release", "report"} => /\ s >= 200 => s = f
                                      /\ s = 0 => f = 101

Flows ==
    /\ pc \in [Requests -> Locations]
    /\ req \in [Requests -> ShapeType \cup {NoShape}]
    /\ status \in [Requests -> 0..599]
    /\ final \in [Requests -> 0..599]
    /\ sent \in [Requests -> {"none", "partial", "whole"}]
    /\ \A r \in Requests : Flow(pc[r], req[r], status[r], final[r], sent[r])

GInv ==
    /\ state \in BreakerStates
    /\ sem \in Int /\ gauge \in Int
    /\ Flows
    /\ SlotAccounting
    /\ ProbeSlotHeld
    /\ GaugeBalanced

(* The sets that the semaphore and the gauge count are finite. *)
LEMMA CountedFinite ==
    /\ IsFiniteSet(SlotHolders) /\ Cardinality(SlotHolders) \in Nat
    /\ IsFiniteSet(LLMCalls) /\ Cardinality(LLMCalls) \in Nat
<1>1. SlotHolders \in SUBSET Requests /\ LLMCalls \in SUBSET Requests
  BY DEF SlotHolders, LLMCalls
<1> QED BY <1>1, GatewayAssumption, FS_Subset, FS_CardinalityType

(* Before any request nothing is counted and the breaker is closed. *)
LEMMA InitGInv == Init => GInv
<1> SUFFICES ASSUME Init PROVE GInv
  OBVIOUS
<1>1. SlotHolders = {} /\ LLMCalls = {}
  BY DEF Init, SlotHolders, LLMCalls, Holding
<1>2. Cardinality(SlotHolders) = 0 /\ Cardinality(LLMCalls) = 0
  BY <1>1, FS_EmptySet
<1>3. Flows
  <2>1. "idle" \in Locations /\ 0 \in 0..599 /\ "none" \in {"none", "partial", "whole"}
    BY DEF Locations
  <2>2. ~CutShort(NoShape)
    BY DEF CutShort, NoShape
  <2>3. Flow("idle", NoShape, 0, 0, "none")
    BY <2>2 DEF Flow, Before, NoShape
  <2> QED BY <2>1, <2>3 DEF Init, Flows
<1>4. SlotAccounting /\ GaugeBalanced
  BY <1>2, GatewayAssumption DEF Init, SlotAccounting, GaugeBalanced
<1>5. ProbeSlotHeld
  BY SMTT(60) DEF Init, newBreaker, ProbeSlotHeld
<1> QED BY <1>3, <1>4, <1>5 DEF Init, newBreaker, GInv, BreakerStates

(* One goroutine moves to p, with a shape, a captured status, a final code
   and a forwarded body that fit there; the others keep their flow. *)
Moves(r, p, q, s, f, t) ==
    /\ p \in Locations
    /\ q \in ShapeType \cup {NoShape}
    /\ s \in 0..599 /\ f \in 0..599
    /\ t \in {"none", "partial", "whole"}
    /\ Flow(p, q, s, f, t)
    /\ pc' = [pc EXCEPT ![r] = p]
    /\ req' = [req EXCEPT ![r] = q]
    /\ status' = [status EXCEPT ![r] = s]
    /\ final' = [final EXCEPT ![r] = f]
    /\ sent' = [sent EXCEPT ![r] = t]

LEMMA FlowStep ==
    ASSUME Flows, NEW r \in Requests, NEW p, NEW q, NEW s, NEW f, NEW t,
           Moves(r, p, q, s, f, t)
    PROVE  Flows'
<1> USE DEF Moves
<1>1. /\ pc' \in [Requests -> Locations]
      /\ req' \in [Requests -> ShapeType \cup {NoShape}]
      /\ status' \in [Requests -> 0..599]
      /\ final' \in [Requests -> 0..599]
      /\ sent' \in [Requests -> {"none", "partial", "whole"}]
  BY SMTT(60) DEF Flows
<1>2. \A x \in Requests : Flow(pc'[x], req'[x], status'[x], final'[x], sent'[x])
  <2> TAKE x \in Requests
  <2>1. CASE x = r
    BY <2>1, ZenonT(60) DEF Flows
  <2>2. CASE x # r
    BY <2>2 DEF Flows
  <2> QED BY <2>1, <2>2
<1> QED BY <1>1, <1>2, ZenonT(60) DEF Flows

(* A goroutine that enters or leaves the part between AcquireSlot and
   ReleaseSlot moves the semaphore with it. *)
SlotMoves(r, p) ==
    /\ sem' \in Int
    /\ MaxInFlight > 0 =>
           \/ (pc[r] \in Holding <=> p \in Holding) /\ sem' = sem
           \/ /\ pc[r] \notin Holding /\ p \in Holding
              /\ sem < MaxInFlight /\ sem' = sem + 1
           \/ pc[r] \in Holding /\ p \notin Holding /\ sem' = sem - 1

LEMMA SlotStep ==
    ASSUME GInv, NEW r \in Requests, NEW p, pc' = [pc EXCEPT ![r] = p],
           SlotMoves(r, p)
    PROVE  SlotAccounting'
<1> SUFFICES ASSUME MaxInFlight > 0
             PROVE  sem' = Cardinality(SlotHolders') /\ sem' <= MaxInFlight
  BY DEF SlotAccounting
<1>1. sem = Cardinality(SlotHolders) /\ sem <= MaxInFlight /\ MaxInFlight \in Nat
  BY GatewayAssumption DEF GInv, SlotAccounting
<1>2. \A x \in Requests : pc'[x] = IF x = r THEN p ELSE pc[x]
  BY DEF GInv, Flows
<1>3. CASE (pc[r] \in Holding <=> p \in Holding) /\ sem' = sem
  <2>1. SlotHolders' = SlotHolders
    BY <1>2, <1>3 DEF SlotHolders
  <2> QED BY <1>1, <1>3, <2>1
<1>4. CASE pc[r] \notin Holding /\ p \in Holding /\ sem < MaxInFlight /\ sem' = sem + 1
  <2>1. SlotHolders' = SlotHolders \cup {r} /\ r \notin SlotHolders
    BY <1>2, <1>4 DEF SlotHolders
  <2>2. Cardinality(SlotHolders') = Cardinality(SlotHolders) + 1
    BY <2>1, CountedFinite, FS_AddElement, ZenonT(60)
  <2> QED BY <1>1, <1>4, <2>2, CountedFinite
<1>5. CASE pc[r] \in Holding /\ p \notin Holding /\ sem' = sem - 1
  <2>1. SlotHolders' = SlotHolders \ {r} /\ r \in SlotHolders
    BY <1>2, <1>5 DEF SlotHolders
  <2>2. Cardinality(SlotHolders') = Cardinality(SlotHolders) - 1
    BY <2>1, CountedFinite, FS_RemoveElement, ZenonT(60)
  <2> QED BY <1>1, <1>5, <2>2, CountedFinite
<1> QED BY <1>3, <1>4, <1>5 DEF SlotMoves

(* A recognised call that enters or leaves dispatch moves the gauge with it. *)
InDispatch(p, q) == p \in {"body", "proxy", "upstream"} /\ q.route = "llm"

GaugeMoves(r, p, q) ==
    \/ (InDispatch(pc[r], req[r]) <=> InDispatch(p, q)) /\ gauge' = gauge
    \/ ~InDispatch(pc[r], req[r]) /\ InDispatch(p, q) /\ gauge' = gauge + 1
    \/ InDispatch(pc[r], req[r]) /\ ~InDispatch(p, q) /\ gauge' = gauge - 1

LEMMA GaugeStep ==
    ASSUME GInv, NEW r \in Requests, NEW p, NEW q,
           pc' = [pc EXCEPT ![r] = p], req' = [req EXCEPT ![r] = q],
           GaugeMoves(r, p, q)
    PROVE  GaugeBalanced' /\ gauge' \in Int
<1>1. gauge = Cardinality(LLMCalls) /\ gauge \in Int
  BY DEF GInv, GaugeBalanced
<1>2. \A x \in Requests : /\ pc'[x] = IF x = r THEN p ELSE pc[x]
                          /\ req'[x] = IF x = r THEN q ELSE req[x]
  BY DEF GInv, Flows
<1>3. LLMCalls = {x \in Requests : InDispatch(pc[x], req[x])}
  BY DEF LLMCalls, InDispatch
<1>4. LLMCalls' = {x \in Requests : InDispatch(pc'[x], req'[x])}
  BY DEF LLMCalls, InDispatch
<1>5. CASE (InDispatch(pc[r], req[r]) <=> InDispatch(p, q)) /\ gauge' = gauge
  <2>1. LLMCalls' = LLMCalls
    BY <1>2, <1>3, <1>4, <1>5
  <2> QED BY <1>1, <1>5, <2>1 DEF GaugeBalanced
<1>6. CASE ~InDispatch(pc[r], req[r]) /\ InDispatch(p, q) /\ gauge' = gauge + 1
  <2>1. LLMCalls' = LLMCalls \cup {r} /\ r \notin LLMCalls
    BY <1>2, <1>3, <1>4, <1>6
  <2>2. Cardinality(LLMCalls') = Cardinality(LLMCalls) + 1
    BY <2>1, CountedFinite, FS_AddElement, ZenonT(60)
  <2> QED BY <1>1, <1>6, <2>2 DEF GaugeBalanced
<1>7. CASE InDispatch(pc[r], req[r]) /\ ~InDispatch(p, q) /\ gauge' = gauge - 1
  <2>1. LLMCalls' = LLMCalls \ {r} /\ r \in LLMCalls
    BY <1>2, <1>3, <1>4, <1>7
  <2>2. Cardinality(LLMCalls') = Cardinality(LLMCalls) - 1
    BY <2>1, CountedFinite, FS_RemoveElement, ZenonT(60)
  <2> QED BY <1>1, <1>7, <2>2 DEF GaugeBalanced
<1> QED BY <1>5, <1>6, <1>7 DEF GaugeMoves

(* While the breaker is left alone, an admitted request that stays admitted
   keeps the probe slot, whoever holds it. *)
LEMMA ProbeStep ==
    ASSUME GInv, NEW r \in Requests, NEW p, pc' = [pc EXCEPT ![r] = p],
           pc[r] \in Admitted => p \in Admitted,
           UNCHANGED <<fsm, probe>>
    PROVE  ProbeSlotHeld' /\ state' \in BreakerStates
<1>1. \A x \in Requests : pc'[x] = IF x = r THEN p ELSE pc[x]
  BY DEF GInv, Flows
<1> QED BY <1>1 DEF GInv, ProbeSlotHeld, fsm

(* A step whose flow is right, with its counters, keeps the invariant. *)
LEMMA MoveInv ==
    ASSUME GInv, NEW r \in Requests, NEW p, NEW q, NEW s, NEW f, NEW t,
           Moves(r, p, q, s, f, t), SlotMoves(r, p), GaugeMoves(r, p, q),
           ProbeSlotHeld', state' \in BreakerStates
    PROVE  GInv'
<1>1. Flows'
  BY FlowStep DEF GInv
<1>2. SlotAccounting' /\ sem' \in Int
  BY SlotStep, ZenonT(60) DEF Moves, SlotMoves
<1>3. GaugeBalanced' /\ gauge' \in Int
  BY GaugeStep, ZenonT(60) DEF Moves
<1> QED BY <1>1, <1>2, <1>3 DEF GInv

(* The same for the steps that leave the breaker alone. *)
LEMMA QuietInv ==
    ASSUME GInv, NEW r \in Requests, NEW p, NEW q, NEW s, NEW f, NEW t,
           Moves(r, p, q, s, f, t), SlotMoves(r, p), GaugeMoves(r, p, q),
           pc[r] \in Admitted => p \in Admitted,
           UNCHANGED <<fsm, probe>>
    PROVE  GInv'
<1>1. ProbeSlotHeld' /\ state' \in BreakerStates
  BY ProbeStep, ZenonT(60) DEF Moves
<1> QED BY <1>1, MoveInv

(* Assigning a local its own value changes nothing. *)
Steady(r) ==
    /\ req = [req EXCEPT ![r] = req[r]]
    /\ status = [status EXCEPT ![r] = status[r]]
    /\ final = [final EXCEPT ![r] = final[r]]
    /\ sent = [sent EXCEPT ![r] = sent[r]]

Locals(r) ==
    /\ req[r] \in ShapeType \cup {NoShape}
    /\ status[r] \in 0..599
    /\ final[r] \in 0..599
    /\ sent[r] \in {"none", "partial", "whole"}
    /\ Flow(pc[r], req[r], status[r], final[r], sent[r])

LEMMA AllSteady ==
    ASSUME GInv, NEW r \in Requests
    PROVE  Steady(r) /\ Locals(r)
<1>1. Steady(r)
  BY DEF GInv, Flows, Steady
<1>2. Locals(r)
  BY DEF GInv, Flows, Locals
<1> QED BY <1>1, <1>2

LEMMA PlaceNames ==
    /\ "idle" \in Locations /\ "gates" \in Locations /\ "acquire" \in Locations
    /\ "upstream" \in Locations /\ "release" \in Locations /\ "done" \in Locations
BY DEF Locations

(* An answer before statusCaptureWriter is installed. *)
LEMMA EarlyInv ==
    ASSUME GInv, NEW r \in Requests, NEW from \in {"gates", "admit"},
           NEW code \in 200..599, AnswerEarly(r, from, code), UNCHANGED fsm
    PROVE  GInv'
<1>1. /\ Steady(r) /\ Locals(r)
      /\ pc[r] = from /\ sem' = sem /\ gauge' = gauge /\ sem \in Int
      /\ UNCHANGED <<fsm, probe>>
  BY AllSteady, ZenonT(60) DEF AnswerEarly, Goto, GInv
<1>f. Flow(from, req[r], status[r], final[r], sent[r])
  BY <1>1 DEF Locals
<1>2. Flow("done", req[r], status[r], code, sent[r]) /\ code \in 0..599
  BY <1>f DEF Flow, Before
<1>3. Moves(r, "done", req[r], status[r], code, sent[r])
  BY <1>1, <1>2, PlaceNames, ZenonT(60) DEF Steady, Locals, AnswerEarly, Goto, Moves
<1>4. SlotMoves(r, "done") /\ GaugeMoves(r, "done", req[r])
  BY <1>1 DEF SlotMoves, GaugeMoves, InDispatch, Holding
<1>5. pc[r] \notin Admitted
  BY <1>1 DEF Admitted
<1> QED BY <1>1, <1>3, <1>4, <1>5, QuietInv

(* rp.ServeHTTP, or the 413 before it, sends a final code through the
   capturing writer and dispatch returns. *)
LEMMA FinishInv ==
    ASSUME GInv, NEW r \in Requests, NEW from \in {"body", "proxy", "upstream"},
           NEW code \in 200..599, Finish(r, from, code)
    PROVE  GInv'
<1> DEFINE s == IF status[r] = 0 THEN code ELSE status[r]
<1>1. /\ Steady(r) /\ Locals(r)
      /\ pc[r] = from /\ sem' = sem /\ sem \in Int /\ gauge \in Int
      /\ gauge' = IF req[r].route = "llm" THEN gauge - 1 ELSE gauge
      /\ UNCHANGED <<fsm, probe>>
  BY AllSteady, ZenonT(60) DEF Finish, Goto, GInv, GaugeAfterDispatch
<1>f. Flow(from, req[r], status[r], final[r], sent[r]) /\ status[r] \in 0..599
  BY <1>1, ZenonT(60) DEF Locals
<1>g. status[r] \in {0, 103}
  BY <1>f, ZenonT(60) DEF Flow, Before
<1>h. (s >= 200 => s = code) /\ s # 0
  BY <1>g
<1>k. /\ sent[r] # "none" /\ req[r].route = "llm" => ~TooLarge(req[r])
      /\ sent[r] = "whole" => ~CutShort(req[r])
  BY <1>f, ZenonT(60) DEF Flow
<1>2. Flow("release", req[r], s, code, sent[r])
  BY <1>h, <1>k, ZenonT(60) DEF Flow, Before
<1>a. code \in 0..599 /\ s \in 0..599
  BY <1>f
<1>b. status' = [status EXCEPT ![r] = s]
  BY DEF Finish, WriteHeader
<1> HIDE DEF s
<1>3. Moves(r, "release", req[r], s, code, sent[r])
  BY <1>1, <1>2, <1>a, <1>b, PlaceNames, ZenonT(60) DEF Steady, Locals, Finish, Goto, Moves
<1>4. SlotMoves(r, "release") /\ GaugeMoves(r, "release", req[r])
  BY <1>1 DEF SlotMoves, GaugeMoves, InDispatch, Holding
<1>5. "release" \in Admitted
  BY DEF Admitted
<1> QED BY <1>1, <1>3, <1>4, <1>5, QuietInv

(* After a report the breaker is never half-open and holds no probe slot. *)
LEMMA ReportSettles ==
    ASSUME GInv, NEW code, report(code)
    PROVE  /\ state' \in {"closed", "open"} /\ ~probeInFlight'
           /\ \/ state' = "open" /\ openedAt' = now
              \/ /\ state' = IF state = "halfOpen" THEN "closed" ELSE state
                 /\ UNCHANGED openedAt
<1>1. state \in BreakerStates /\ (state # "halfOpen" => ~probeInFlight)
  BY DEF GInv, ProbeSlotHeld
<1>2. CASE reportHalfOpen(code)
  BY <1>1, <1>2 DEF reportHalfOpen, trip, BreakerStates
<1>3. CASE reportClosed(code)
  BY <1>1, <1>3 DEF reportClosed, trip, BreakerStates
<1>4. CASE reportOpen(code)
  BY <1>1, <1>4 DEF reportOpen, BreakerStates
<1> QED BY <1>2, <1>3, <1>4 DEF report

(* Admission: a request let through by an open breaker becomes the probe. *)
LEMMA AdmitInv ==
    ASSUME GInv, NEW r \in Requests, AdmitBreaker(r)
    PROVE  GInv'
<1>1. /\ Steady(r) /\ Locals(r)
      /\ pc[r] = "admit" /\ sem' = sem /\ gauge' = gauge /\ sem \in Int
      /\ pc \in [Requests -> Locations]
  BY AllSteady, ZenonT(60) DEF AdmitBreaker, Goto, GInv, Flows
<1>f. Flow("admit", req[r], status[r], final[r], sent[r])
  BY <1>1 DEF Locals
<1>2. Flow("acquire", req[r], status[r], final[r], sent[r])
  BY <1>f DEF Flow, Before
<1>3. Moves(r, "acquire", req[r], status[r], final[r], sent[r])
  BY <1>1, <1>2, PlaceNames, ZenonT(60) DEF Steady, Locals, AdmitBreaker, Goto, Moves
<1>4. SlotMoves(r, "acquire") /\ GaugeMoves(r, "acquire", req[r])
  BY <1>1 DEF SlotMoves, GaugeMoves, InDispatch, Holding
<1>5. ProbeSlotHeld' /\ state' \in BreakerStates
  <2>1. pc'[r] \in Admitted
    BY <1>1 DEF AdmitBreaker, Goto, Admitted
  <2> QED BY <2>1 DEF AdmitBreaker, admit, AdmitOK, GInv, ProbeSlotHeld, BreakerStates
<1> QED BY <1>3, <1>4, <1>5, MoveInv, ZenonT(60)

(* The two reports: of a rolled back admission, and of a served request. *)
LEMMA ReportInv ==
    ASSUME GInv, NEW r \in Requests, Rollback(r) \/ ReleaseReport(r)
    PROVE  GInv'
<1> DEFINE f == final'[r]
<1>1. /\ Steady(r) /\ Locals(r)
      /\ pc[r] \in {"rollback", "report"}
      /\ sem' = sem /\ gauge' = gauge /\ sem \in Int
  BY AllSteady, ZenonT(60) DEF Rollback, ReleaseReport, Goto, GInv
<1>2. f \in 0..599 /\ final' = [final EXCEPT ![r] = f]
  BY <1>1, SMTT(60) DEF Rollback, ReleaseReport, GInv, Flows
<1> HIDE DEF f
<1>f. Flow("rollback", req[r], status[r], final[r], sent[r])
      \/ Flow("report", req[r], status[r], final[r], sent[r])
  BY <1>1 DEF Locals
<1>3. Flow("done", req[r], status[r], f, sent[r])
  BY <1>f DEF Flow, Before
<1>4. Moves(r, "done", req[r], status[r], f, sent[r])
  BY <1>1, <1>2, <1>3, PlaceNames, ZenonT(60) DEF Steady, Locals, Rollback, ReleaseReport, Goto, Moves
<1>5. SlotMoves(r, "done") /\ GaugeMoves(r, "done", req[r])
  BY <1>1 DEF SlotMoves, GaugeMoves, InDispatch, Holding
<1>6. ProbeSlotHeld' /\ state' \in BreakerStates
  BY ReportSettles DEF Rollback, ReleaseReport, ProbeSlotHeld, BreakerStates
<1> QED BY <1>4, <1>5, <1>6, MoveInv

(* The steps that change nothing but the place of the request, and the
   counter it takes or gives back on the way. *)
LEMMA WalkInv ==
    ASSUME GInv, NEW r \in Requests,
           \/ PassGates(r) \/ AcquireSlot(r) \/ SemFull(r) \/ Dispatch(r)
           \/ AcceptBody(r) \/ ReleaseSlot(r)
    PROVE  GInv'
<1> DEFINE p == pc'[r]
<1>1. /\ Steady(r) /\ Locals(r)
      /\ sem \in Int /\ gauge \in Int /\ MaxInFlight \in Nat
      /\ pc \in [Requests -> Locations]
  BY AllSteady, GatewayAssumption, ZenonT(60) DEF GInv, Flows
<1>2. /\ UNCHANGED <<req, status, final, sent, fsm, probe>>
      /\ pc' = [pc EXCEPT ![r] = p]
      /\ \/ pc[r] = "gates" /\ p = "admit" /\ UNCHANGED <<sem, gauge>>
         \/ /\ pc[r] = "acquire" /\ p = "dispatch" /\ UNCHANGED gauge
            /\ SemHasRoom /\ sem' = IF MaxInFlight > 0 THEN sem + 1 ELSE sem
         \/ pc[r] = "acquire" /\ p = "rollback" /\ UNCHANGED <<sem, gauge>>
         \/ /\ pc[r] = "dispatch" /\ p = "proxy" /\ UNCHANGED <<sem, gauge>>
            /\ req[r].route = "passthrough"
         \/ /\ pc[r] = "dispatch" /\ p = "body" /\ UNCHANGED sem
            /\ req[r].route = "llm" /\ gauge' = gauge + 1
         \/ /\ pc[r] = "body" /\ p = "proxy" /\ UNCHANGED <<sem, gauge>>
            /\ ~TooLarge(req[r])
         \/ /\ pc[r] = "release" /\ p = "report" /\ UNCHANGED gauge
            /\ sem' = IF MaxInFlight > 0 THEN sem - 1 ELSE sem
  BY <1>1, SMTT(60) DEF PassGates, AcquireSlot, SemFull, Dispatch, AcceptBody, ReleaseSlot, Goto
<1> HIDE DEF p
<1>f. Flow(pc[r], req[r], status[r], final[r], sent[r])
  BY <1>1, ZenonT(60) DEF Locals
<1>3. Flow(p, req[r], status[r], final[r], sent[r]) /\ p \in Locations
  BY <1>f, <1>2, SMTT(60) DEF Flow, Before, Locations
<1>4. Moves(r, p, req[r], status[r], final[r], sent[r])
  BY <1>1, <1>2, <1>3, ZenonT(60) DEF Steady, Locals, Moves
<1>5. SlotMoves(r, p)
  BY <1>1, <1>2, SMTT(60) DEF SlotMoves, Holding, SemHasRoom
<1>6. GaugeMoves(r, p, req[r])
  BY <1>1, <1>2, ZenonT(60) DEF GaugeMoves, InDispatch
<1>7. pc[r] \in Admitted => p \in Admitted
  BY <1>2, ZenonT(60) DEF Admitted
<1> QED BY <1>2, <1>4, <1>5, <1>6, <1>7, QuietInv, ZenonT(60)

(* A new request, the forwarding of its body, a 1xx answer, an upgrade, and
   the end of the goroutine. *)
LEMMA ArriveInv ==
    ASSUME GInv, NEW r \in Requests, NEW q \in Shapes, Arrive(r, q)
    PROVE  GInv'
<1>1. /\ Steady(r) /\ Locals(r)
      /\ pc[r] = "idle" /\ sem' = sem /\ gauge' = gauge /\ sem \in Int
      /\ UNCHANGED <<fsm, probe>> /\ q \in ShapeType \cup {NoShape}
  BY AllSteady, GatewayAssumption, ZenonT(60) DEF Arrive, Goto, GInv
<1>f. Flow("idle", req[r], status[r], final[r], sent[r])
  BY <1>1, ZenonT(60) DEF Locals
<1>2. Flow("gates", q, status[r], final[r], sent[r])
  BY <1>f DEF Flow, Before
<1>3. Moves(r, "gates", q, status[r], final[r], sent[r])
  BY <1>1, <1>2, PlaceNames, ZenonT(60) DEF Steady, Locals, Arrive, Goto, Moves
<1>4. SlotMoves(r, "gates") /\ GaugeMoves(r, "gates", q)
  BY <1>1 DEF SlotMoves, GaugeMoves, InDispatch, Holding
<1>5. pc[r] \notin Admitted
  BY <1>1 DEF Admitted
<1> QED BY <1>1, <1>3, <1>4, <1>5, QuietInv

LEMMA ForwardInv ==
    ASSUME GInv, NEW r \in Requests, Forward(r)
    PROVE  GInv'
<1> DEFINE t == IF CutShort(req[r]) THEN "partial" ELSE "whole"
<1>1. /\ Steady(r) /\ Locals(r)
      /\ pc[r] = "proxy" /\ sem' = sem /\ gauge' = gauge /\ sem \in Int
      /\ UNCHANGED <<fsm, probe>> /\ sent' = [sent EXCEPT ![r] = t]
  BY AllSteady, ZenonT(60) DEF Forward, Goto, GInv
<1>f. Flow("proxy", req[r], status[r], final[r], sent[r])
  BY <1>1 DEF Locals
<1>2. Flow("upstream", req[r], status[r], final[r], t) /\ t \in {"none", "partial", "whole"}
  BY <1>f DEF Flow, Before
<1> HIDE DEF t
<1>3. Moves(r, "upstream", req[r], status[r], final[r], t)
  BY <1>1, <1>2, PlaceNames, ZenonT(60) DEF Steady, Locals, Forward, Goto, Moves
<1>4. SlotMoves(r, "upstream") /\ GaugeMoves(r, "upstream", req[r])
  BY <1>1 DEF SlotMoves, GaugeMoves, InDispatch, Holding
<1>5. "upstream" \in Admitted
  BY DEF Admitted
<1> QED BY <1>1, <1>3, <1>4, <1>5, QuietInv

LEMMA InformationalInv ==
    ASSUME GInv, NEW r \in Requests, Informational(r)
    PROVE  GInv'
<1>1. /\ Steady(r) /\ Locals(r)
      /\ pc[r] = "upstream" /\ sem' = sem /\ gauge' = gauge /\ sem \in Int
      /\ UNCHANGED <<fsm, probe>>
  BY AllSteady, ZenonT(60) DEF Informational, GInv
<1>f. Flow("upstream", req[r], status[r], final[r], sent[r])
  BY <1>1, ZenonT(60) DEF Locals
<1>a. pc' = [pc EXCEPT ![r] = "upstream"]
  BY <1>1, SMTT(60) DEF Informational, GInv, Flows
<1>b. status' = [status EXCEPT ![r] = 103]
  BY <1>f, ZenonT(60) DEF Informational, WriteHeader, Flow
<1>2. Flow("upstream", req[r], 103, final[r], sent[r]) /\ 103 \in 0..599
  BY <1>f DEF Flow, Before
<1>3. Moves(r, "upstream", req[r], 103, final[r], sent[r])
  BY <1>1, <1>2, <1>a, <1>b, PlaceNames, ZenonT(60) DEF Steady, Locals, Informational, Moves
<1>4. SlotMoves(r, "upstream") /\ GaugeMoves(r, "upstream", req[r])
  BY <1>1, ZenonT(60) DEF SlotMoves, GaugeMoves, InDispatch, Holding
<1>5. "upstream" \in Admitted
  BY DEF Admitted
<1> QED BY <1>1, <1>3, <1>4, <1>5, QuietInv, ZenonT(60)

LEMMA UpgradeInv ==
    ASSUME GInv, NEW r \in Requests, Upgrade(r)
    PROVE  GInv'
<1>1. /\ Steady(r) /\ Locals(r)
      /\ pc[r] = "upstream" /\ sem' = sem /\ sem \in Int /\ gauge \in Int
      /\ gauge' = IF req[r].route = "llm" THEN gauge - 1 ELSE gauge
      /\ UNCHANGED <<fsm, probe>>
  BY AllSteady, ZenonT(60) DEF Upgrade, Goto, GInv, GaugeAfterDispatch
<1>f. Flow("upstream", req[r], status[r], final[r], sent[r])
  BY <1>1 DEF Locals
<1>2. Flow("release", req[r], status[r], 101, sent[r]) /\ 101 \in 0..599
  BY <1>f DEF Flow, Before
<1>3. Moves(r, "release", req[r], status[r], 101, sent[r])
  BY <1>1, <1>2, PlaceNames, ZenonT(60) DEF Steady, Locals, Upgrade, Goto, Moves
<1>4. SlotMoves(r, "release") /\ GaugeMoves(r, "release", req[r])
  BY <1>1 DEF SlotMoves, GaugeMoves, InDispatch, Holding
<1>5. "release" \in Admitted
  BY DEF Admitted
<1> QED BY <1>1, <1>3, <1>4, <1>5, QuietInv, ZenonT(60)

LEMMA LeaveInv ==
    ASSUME GInv, NEW r \in Requests, Leave(r)
    PROVE  GInv'
<1>1. /\ pc[r] = "done" /\ sem' = sem /\ sem \in Int /\ gauge' = gauge
      /\ UNCHANGED <<fsm, probe>>
  BY DEF Leave, Goto, GInv
<1>2. /\ Flow("idle", NoShape, 0, 0, "none") /\ "idle" \in Locations
      /\ 0 \in 0..599 /\ NoShape \in ShapeType \cup {NoShape}
      /\ "none" \in {"none", "partial", "whole"}
  BY DEF Flow, Before, Locations, NoShape
<1>3. Moves(r, "idle", NoShape, 0, 0, "none")
  BY <1>2, Zenon DEF Leave, Goto, Moves
<1>4. SlotMoves(r, "idle") /\ GaugeMoves(r, "idle", NoShape)
  BY <1>1 DEF SlotMoves, GaugeMoves, InDispatch, Holding
<1>5. pc[r] \notin Admitted
  BY <1>1 DEF Admitted
<1> QED BY <1>1, <1>3, <1>4, <1>5, QuietInv

(* Every step of the pipeline keeps the invariant. *)
LEMMA GStep == GInv /\ [Next]_vars => GInv'
<1> SUFFICES ASSUME GInv, [Next]_vars PROVE GInv'
  OBVIOUS
<1>1. ASSUME NEW r \in Requests, Handle(r) \/ Exchange(r) PROVE GInv'
  <2>1. CASE ServeHealth(r)
    BY <2>1, EarlyInv DEF ServeHealth
  <2>2. CASE AuthReject(r)
    BY <2>2, EarlyInv DEF AuthReject
  <2>3. CASE NotFound(r)
    BY <2>3, EarlyInv DEF NotFound
  <2>4. CASE RejectBreaker(r)
    BY <2>4, EarlyInv DEF RejectBreaker
  <2>5. CASE \/ PassGates(r) \/ AcquireSlot(r) \/ SemFull(r) \/ Dispatch(r)
             \/ AcceptBody(r) \/ ReleaseSlot(r)
    BY <2>5, WalkInv
  <2>6. CASE AdmitBreaker(r)
    BY <2>6, AdmitInv
  <2>7. CASE Rollback(r) \/ ReleaseReport(r)
    BY <2>7, ReportInv
  <2>8. CASE RejectBody(r)
    <3>1. Finish(r, "body", 413)
      BY <2>8 DEF RejectBody, Finish
    <3> QED BY <3>1, FinishInv, SMTT(60)
  <2>9. CASE Forward(r)
    BY <2>9, ForwardInv
  <2>10. CASE Unreachable(r) \/ UpstreamError(r)
    BY <2>10, FinishInv, SMTT(60) DEF Unreachable, UpstreamError
  <2>11. CASE Respond(r)
    <3>1. PICK code \in UpstreamCodes : Finish(r, "upstream", code)
      BY <2>11 DEF Respond
    <3>2. code \in 200..599
      BY GatewayAssumption, ZenonT(60)
    <3> QED BY <3>1, <3>2, FinishInv
  <2>12. CASE Upgrade(r)
    BY <2>12, UpgradeInv
  <2>13. CASE Leave(r)
    BY <2>13, LeaveInv
  <2>14. CASE Informational(r)
    BY <2>14, InformationalInv
  <2> QED BY ZenonT(60), <1>1, <2>1, <2>2, <2>3, <2>4, <2>5, <2>6, <2>7, <2>8, <2>9, <2>10,
             <2>11, <2>12, <2>13, <2>14 DEF Handle, Exchange
<1>2. ASSUME UNCHANGED <<fsm, handler, sem, gauge, probe>> PROVE GInv'
  BY <1>2 DEF GInv, Flows, SlotAccounting, SlotHolders, ProbeSlotHeld, GaugeBalanced,
              LLMCalls, fsm, handler
<1>3. CASE Tick
  BY <1>2, <1>3 DEF Tick
<1>4. CASE UNCHANGED vars
  BY <1>2, <1>4 DEF vars, fsm, handler
<1> QED BY <1>1, <1>3, <1>4, ArriveInv DEF Next

(* What the flow of a request says of the body cap. *)
LEMMA FlowCaps == Flows => CapRespected
<1> SUFFICES ASSUME Flows, NEW r \in Requests, req[r].route = "llm", HardCap > 0,
                    req[r].len > HardCap
             PROVE  /\ req[r].advertised => sent[r] = "none"
                    /\ ~req[r].broken /\ req[r].len <= EnrichCap => sent[r] = "none"
                    /\ sent[r] = "whole" => req[r].len = EnrichCap + 1
  BY DEF CapRespected
<1>1. Flow(pc[r], req[r], status[r], final[r], sent[r]) /\ req[r].len \in Nat
      /\ HardCap \in Nat /\ EnrichCap \in Nat
  BY GatewayAssumption DEF Flows, ShapeType, NoShape
<1> QED BY <1>1 DEF Flow, TooLarge, CutShort, HeadLen

\* Every step of every request keeps the invariant.
LEMMA GatewayInvariant == Spec => []GInv
BY InitGInv, GStep, PTL DEF Spec

\* For any number of requests: the semaphore counts the requests that hold a
\* slot and stays within max_in_flight, on every path through ServeHTTP.
THEOREM SlotsBalanced == Spec => []SlotAccounting
<1>1. GInv => SlotAccounting
  BY DEF GInv
<1> QED BY <1>1, GatewayInvariant, PTL

\* A half-open breaker has a probe whose report is still to come, the rollback
\* of a full semaphore included (ServeHTTP, admit, report).
THEOREM GatewayProbeHeld == Spec => []ProbeSlotHeld
<1>1. GInv => ProbeSlotHeld
  BY DEF GInv
<1> QED BY <1>1, GatewayInvariant, PTL

\* The in-flight gauge counts exactly the recognised calls inside dispatch.
THEOREM InFlightExact == Spec => []GaugeBalanced
<1>1. GInv => GaugeBalanced
  BY DEF GInv
<1> QED BY <1>1, GatewayInvariant, PTL

\* For every cap and every buffer: over the cap, an announced body and one that
\* fits the buffer are not forwarded at all, and of the others only a body one
\* byte longer than the buffer is forwarded whole; with a cap above the buffer
\* there is no such body (dispatch, captureHeadAndForward, capCountingReader).
THEOREM BodyCapKept == Spec => []CapRespected
<1>1. GInv => CapRespected
  BY FlowCaps DEF GInv
<1> QED BY <1>1, GatewayInvariant, PTL

\* The code that release is about to report is the final code the client was
\* sent, unless an informational code went first or the connection was upgraded
\* (statusCaptureWriter, release).
THEOREM OutcomeReported == Spec => []BreakerHearsOutcome
<1>1. GInv => BreakerHearsOutcome
  <2> SUFFICES ASSUME GInv, NEW r \in Requests, pc[r] \in {"release", "report"}
               PROVE  \/ ReleaseCode(r) = final[r]
                      \/ 0 < status[r] /\ status[r] < 200
                      \/ status[r] = 0 /\ final[r] = 101
    BY DEF BreakerHearsOutcome
  <2>1. status[r] \in 0..599
    BY DEF GInv, Flows
  <2>2. /\ status[r] >= 200 => status[r] = final[r]
        /\ status[r] = 0 => final[r] = 101
    BY DEF GInv, Flows, Flow
  <2> QED BY <2>1, <2>2 DEF ReleaseCode
<1> QED BY <1>1, GatewayInvariant, PTL

(* A step of the pipeline that neither admits nor reports leaves the fuse
   alone: the breaker is unchanged and the same requests are outstanding. *)
Outstanding == {r \in Requests : pc[r] \in Admitted}

LEMMA FuseStutters ==
    ASSUME GInv, NEW r \in Requests, NEW p, pc' = [pc EXCEPT ![r] = p],
           pc[r] \in Admitted <=> p \in Admitted
    PROVE  Outstanding' = Outstanding
BY DEF GInv, Flows, Outstanding

\* ServeHTTP, with its gates, semaphore, rollback and deferred release, keeps the
\* promise of the fuse: a half-open breaker lets nobody through because its
\* probe flag is set, every admission is settled by exactly one report, and
\* every other step leaves the breaker and the outstanding requests alone.
THEOREM GatewayRefinement == Spec => FuseSpec
<1>1. Init => F!Init
  BY DEF Init, newBreaker, F!Init, ZeroTime, Admitted
<1>2. GInv /\ [Next]_vars => [F!Next]_(F!vars)
  <2> SUFFICES ASSUME GInv, [Next]_vars PROVE [F!Next]_(F!vars)
    OBVIOUS
  <2>t. state \in BreakerStates /\ pc \in [Requests -> Locations]
    BY DEF GInv, Flows
  <2>1. ASSUME NEW r \in Requests, AdmitBreaker(r) PROVE F!LetThrough(r)
    <3>1. state # "halfOpen"
      BY <2>1 DEF AdmitBreaker, admit, AdmitOK, GInv, ProbeSlotHeld
    <3>2. pc[r] \notin Admitted /\ Outstanding' = Outstanding \cup {r}
      BY <2>1, <2>t DEF AdmitBreaker, Goto, Admitted, Outstanding
    <3>3. CASE state = "closed"
      BY <2>1, <3>2, <3>3, ZenonT(60) DEF AdmitBreaker, admit, F!LetThrough, Outstanding
    <3>4. CASE state = "open"
      BY <2>1, <3>2, <3>4 DEF AdmitBreaker, admit, AdmitOK, Recovered, F!LetThrough,
                              Outstanding
    <3> QED BY <2>t, <3>1, <3>3, <3>4 DEF BreakerStates
  <2>2. ASSUME NEW r \in Requests, Rollback(r) \/ ReleaseReport(r) PROVE F!Settle(r)
    <3>1. /\ \/ state' = "open" /\ openedAt' = now
             \/ /\ state' = IF state = "halfOpen" THEN "closed" ELSE state
                /\ UNCHANGED openedAt
          /\ UNCHANGED now
      BY <2>2, ReportSettles DEF Rollback, ReleaseReport
    <3>2. r \in Outstanding /\ Outstanding' = Outstanding \ {r}
      BY <2>2, <2>t, ZenonT(60) DEF Rollback, ReleaseReport, Goto, Admitted, Outstanding
    <3> QED BY <3>1, <3>2 DEF F!Settle, F!Blow, Outstanding
  <2>3. ASSUME UNCHANGED <<fsm, now>>, Outstanding' = Outstanding
        PROVE  UNCHANGED F!vars
    BY <2>3 DEF fsm, F!vars, Outstanding
  <2>4. ASSUME NEW r \in Requests,
               \/ ServeHealth(r) \/ AuthReject(r) \/ NotFound(r) \/ RejectBreaker(r)
               \/ Leave(r) \/ PassGates(r) \/ \E q \in Shapes : Arrive(r, q)
        PROVE  UNCHANGED F!vars
    <3>1. PICK p : pc' = [pc EXCEPT ![r] = p] /\ p \in {"gates", "admit", "done", "idle"}
      BY <2>4, SMTT(60) DEF ServeHealth, AuthReject, NotFound, RejectBreaker, AnswerEarly, Leave,
                  PassGates, Arrive, Goto
    <3>2. pc[r] \in {"gates", "admit", "done", "idle"} /\ UNCHANGED <<fsm, now>>
      BY <2>4 DEF ServeHealth, AuthReject, NotFound, RejectBreaker, AnswerEarly, Leave,
                  PassGates, Arrive, Goto
    <3>3. Outstanding' = Outstanding
      BY <3>1, <3>2, FuseStutters, ZenonT(60) DEF Admitted
    <3> QED BY <2>3, <3>2, <3>3, ZenonT(60)
  <2>5. ASSUME NEW r \in Requests,
               \/ AcquireSlot(r) \/ SemFull(r) \/ Dispatch(r) \/ RejectBody(r)
               \/ AcceptBody(r) \/ Forward(r) \/ Unreachable(r) \/ Respond(r)
               \/ UpstreamError(r) \/ Upgrade(r) \/ ReleaseSlot(r)
        PROVE  UNCHANGED F!vars
    <3> DEFINE Inside == {"acquire", "dispatch", "rollback", "body", "proxy", "upstream",
                          "release", "report"}
    <3>1. PICK p \in Inside : pc' = [pc EXCEPT ![r] = p]
      BY <2>5, ZenonT(60) DEF AcquireSlot, SemFull, Dispatch, RejectBody, AcceptBody, Forward,
                  Unreachable, Respond, UpstreamError, Upgrade, ReleaseSlot, Finish, Goto
    <3>2. pc[r] \in Inside /\ UNCHANGED <<fsm, now>>
      BY <2>5, ZenonT(60) DEF AcquireSlot, SemFull, Dispatch, RejectBody, AcceptBody, Forward,
                  Unreachable, Respond, UpstreamError, Upgrade, ReleaseSlot, Finish, Goto
    <3>3. Outstanding' = Outstanding
      BY <3>1, <3>2, FuseStutters, ZenonT(60) DEF Admitted
    <3> QED BY <2>3, <3>2, <3>3
  <2>6. ASSUME NEW r \in Requests, Informational(r) PROVE UNCHANGED F!vars
    BY <2>3, <2>6 DEF Informational, Outstanding
  <2>7. CASE Tick
    BY <2>7 DEF Tick, fsm, handler, F!Next, F!Tick
  <2>8. CASE UNCHANGED vars
    BY <2>8 DEF vars, F!vars
  <2>9. ASSUME NEW r \in Requests, Handle(r) \/ Exchange(r) PROVE [F!Next]_(F!vars)
    <3>1. CASE AdmitBreaker(r)
      BY <2>1, <3>1 DEF F!Next
    <3>2. CASE Rollback(r) \/ ReleaseReport(r)
      BY <2>2, <3>2 DEF F!Next
    <3>3. CASE \/ ServeHealth(r) \/ AuthReject(r) \/ NotFound(r) \/ RejectBreaker(r)
               \/ Leave(r) \/ PassGates(r)
      BY <2>4, <3>3, Zenon
    <3>4. CASE \/ AcquireSlot(r) \/ SemFull(r) \/ Dispatch(r) \/ RejectBody(r)
               \/ AcceptBody(r) \/ Forward(r) \/ Unreachable(r) \/ Respond(r)
               \/ UpstreamError(r) \/ Upgrade(r) \/ ReleaseSlot(r)
      BY <2>5, <3>4, Zenon
    <3>5. CASE Informational(r)
      BY <2>6, <3>5, Zenon
    <3> QED BY <2>9, <3>1, <3>2, <3>3, <3>4, <3>5, ZenonT(60) DEF Handle, Exchange
  <2> QED BY <2>4, <2>7, <2>8, <2>9 DEF Next
<1> QED BY <1>1, <1>2, InitGInv, GStep, PTL DEF Spec, FuseSpec, F!Spec

=============================================================================
