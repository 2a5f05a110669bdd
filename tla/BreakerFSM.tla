----------------------------- MODULE BreakerFSM -----------------------------
(***************************************************************************)
(* The circuit breaker of internal/proxy/breaker.go as a state machine:    *)
(* the fields of the struct `breaker` as variables, and the two calls that *)
(* go through its mutex, admit() and report(), as action fragments.  Each  *)
(* holds b.mu from its first to its last line, so each is one atomic step. *)
(*                                                                         *)
(* The module only says what one call does.  Breaker adds the callers, and *)
(* Gateway adds the request pipeline that makes the calls in the proxy.    *)
(*                                                                         *)
(* Definitions named Op_What are variants of Op with a plausible mistake;  *)
(* no specification uses them.  Replacing Op by one of them must break the *)
(* property named in the comment, which shows that the property has teeth. *)
(*                                                                         *)
(* Time is counted in ticks, TicksPerSecond of them to the second, so that *)
(* the truncation of Retry-After to whole seconds is visible.  The clock   *)
(* starts above 0: 0 is Go's zero time.Time.                               *)
(***************************************************************************)
EXTENDS Integers

CONSTANTS
    Failures,         \* cfg.Failures: 5xx in a row that trip the breaker
    Window,           \* cfg.Window, 0 = no time bound
    RecoveryCfg,      \* cfg.RecoveryWindow as configured, 0 = take the default
    DefaultRecovery,  \* the built-in 15 s
    TicksPerSecond

ASSUME BreakerAssumption ==
    /\ Failures \in Nat \ {0}      \* New builds no breaker for Failures = 0
    /\ Window \in Nat
    /\ RecoveryCfg \in Nat
    /\ DefaultRecovery \in Nat \ {0}
    /\ TicksPerSecond \in Nat \ {0}

RecoveryWindow ==
    IF RecoveryCfg > 0 THEN RecoveryCfg
    ELSE IF Window > 0 THEN Window
    ELSE DefaultRecovery

ZeroTime == 0

VARIABLES
    state,          \* "closed", "open" or "halfOpen"
    consecutive,    \* counted failures of the current run
    lastFailure,    \* time of the last counted failure, or ZeroTime
    openedAt,       \* start of the recovery window
    probeInFlight,  \* half-open has admitted its probe
    now             \* what b.now() returns

fsm == <<state, consecutive, lastFailure, openedAt, probeInFlight>>

BreakerStates == {"closed", "open", "halfOpen"}

FSMTypeOK ==
    /\ state \in BreakerStates
    /\ consecutive \in 0..(Failures - 1)
    /\ lastFailure \in Nat
    /\ openedAt \in Nat
    /\ probeInFlight \in BOOLEAN
    /\ now \in Nat \ {0}

newBreaker ==
    /\ state = "closed"
    /\ consecutive = 0
    /\ lastFailure = ZeroTime
    /\ openedAt = ZeroTime
    /\ probeInFlight = FALSE

(***************************************************************************)
(* admit().  AdmitOK says when it returns true; admit is what it then      *)
(* does; retryAfter is what it returns otherwise.                          *)
(***************************************************************************)
Recovered == now - openedAt >= RecoveryWindow

\* Breaks FuseSpec: a half-open breaker admits everyone.
AdmitOK_NoProbeCheck ==
    \/ state = "closed"
    \/ state = "open" /\ Recovered
    \/ state = "halfOpen"

AdmitOK ==
    \/ state = "closed"
    \/ state = "open" /\ Recovered
    \/ state = "halfOpen" /\ ~probeInFlight

admit ==
    /\ AdmitOK
    /\ state' = IF state = "closed" THEN "closed" ELSE "halfOpen"
    /\ probeInFlight' = IF state = "closed" THEN probeInFlight ELSE TRUE
    /\ UNCHANGED <<consecutive, lastFailure, openedAt>>

\* Breaks AdviceBounded: no floor of one second.
WholeSeconds_NoFloor(ticks) == ticks \div TicksPerSecond

WholeSeconds(ticks) ==
    LET secs == ticks \div TicksPerSecond
    IN  IF secs < 1 THEN 1 ELSE secs

retryAfter ==
    IF state = "open" THEN WholeSeconds(RecoveryWindow - (now - openedAt))
    ELSE WholeSeconds(RecoveryWindow)

(***************************************************************************)
(* report(statusCode).                                                     *)
(***************************************************************************)
Failure(statusCode) == statusCode >= 500 /\ statusCode <= 599

trip ==
    /\ state' = "open"
    /\ openedAt' = now
    /\ probeInFlight' = FALSE
    /\ consecutive' = 0

\* Breaks ProbeSlotHeld: the flag stays set when the probe succeeds.
reportHalfOpen_LeaksSlot(statusCode) ==
    /\ state = "halfOpen"
    /\ IF Failure(statusCode)
       THEN trip /\ UNCHANGED lastFailure
       ELSE /\ state' = "closed"
            /\ consecutive' = 0
            /\ lastFailure' = ZeroTime
            /\ UNCHANGED <<openedAt, probeInFlight>>

\* Breaks NoStaleFailureTime: lastFailure is not cleared on recovery.
reportHalfOpen_KeepsLastFailure(statusCode) ==
    /\ state = "halfOpen"
    /\ IF Failure(statusCode)
       THEN trip
       ELSE /\ state' = "closed"
            /\ probeInFlight' = FALSE
            /\ consecutive' = 0
            /\ UNCHANGED openedAt
    /\ UNCHANGED lastFailure

\* The half-open case: the report is taken for the probe's, whoever made it.
reportHalfOpen(statusCode) ==
    /\ state = "halfOpen"
    /\ IF Failure(statusCode)
       THEN trip /\ UNCHANGED lastFailure
       ELSE /\ state' = "closed"
            /\ probeInFlight' = FALSE
            /\ consecutive' = 0
            /\ lastFailure' = ZeroTime
            /\ UNCHANGED openedAt

\* Breaks CountIsRun: a gap of exactly Window ends the run.
RunBroken_AtWindow ==
    Window > 0 /\ lastFailure # ZeroTime /\ now - lastFailure >= Window

RunBroken ==
    Window > 0 /\ lastFailure # ZeroTime /\ now - lastFailure > Window

reportClosed(statusCode) ==
    /\ state = "closed"
    /\ IF Failure(statusCode)
       THEN LET run == IF RunBroken THEN 1 ELSE consecutive + 1
            IN  /\ lastFailure' = now
                /\ IF run >= Failures
                   THEN trip
                   ELSE /\ consecutive' = run
                        /\ UNCHANGED <<state, openedAt, probeInFlight>>
       ELSE /\ consecutive' = 0
            /\ lastFailure' = ZeroTime
            /\ UNCHANGED <<state, openedAt, probeInFlight>>

\* Breaks OpenSinceLastFailure: stragglers are ignored while open.
reportOpen_IgnoresStraggler(statusCode) ==
    state = "open" /\ UNCHANGED fsm

\* A straggler admitted before the trip: a 5xx restarts the recovery window.
reportOpen(statusCode) ==
    /\ state = "open"
    /\ openedAt' = IF Failure(statusCode) THEN now ELSE openedAt
    /\ UNCHANGED <<state, consecutive, lastFailure, probeInFlight>>

report(statusCode) ==
    \/ reportHalfOpen(statusCode)
    \/ reportClosed(statusCode)
    \/ reportOpen(statusCode)

=============================================================================
