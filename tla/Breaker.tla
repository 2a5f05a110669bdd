------------------------------ MODULE Breaker ------------------------------
(***************************************************************************)
(* The circuit breaker together with its callers, as proxy.go uses it:     *)
(* a request calls admit() once; if it is let through it calls report()    *)
(* exactly once, at any later time and in any order with respect to the    *)
(* other requests, with the status code it ended with.  (Gateway shows     *)
(* that ServeHTTP keeps to this protocol.)  Request identities are reused, *)
(* so the history of requests is unbounded.                                *)
(***************************************************************************)
EXTENDS BreakerFSM, Sequences, FiniteSets

CONSTANTS
    Requests,     \* identities of concurrently served requests
    NoRequest,    \* not a request
    StatusCodes,  \* status codes a request may end with
    MaxTime       \* bound on the clock

ASSUME CallersAssumption ==
    /\ NoRequest \notin Requests
    /\ StatusCodes \subseteq Nat
    /\ MaxTime \in Nat

VARIABLES
    inflight,  \* requests admitted and not reported yet
    probe,     \* history: the request that opened the current half-open episode
    lastBad,   \* history: time of the latest 5xx reported by anyone
    streak,    \* history: times of the latest 5xx since the last non-5xx,
               \* at most Failures of them, oldest first
    advice     \* history: the latest Retry-After, 1 before the first

vars == <<state, consecutive, lastFailure, openedAt, probeInFlight, now,
          inflight, probe, lastBad, streak, advice>>

TypeOK ==
    /\ FSMTypeOK
    /\ inflight \subseteq Requests
    /\ probe \in Requests \cup {NoRequest}
    /\ lastBad \in Nat
    /\ streak \in Seq(Nat)
    /\ advice \in Nat

Init ==
    /\ newBreaker
    /\ now = 1
    /\ inflight = {}
    /\ probe = NoRequest
    /\ lastBad = 0
    /\ streak = <<>>
    /\ advice = 1

Admit(r) ==
    /\ r \notin inflight
    /\ admit
    /\ inflight' = inflight \cup {r}
    /\ probe' = IF state' = "halfOpen" THEN r ELSE probe
    /\ UNCHANGED <<now, lastBad, streak, advice>>

\* The request is answered 503 with Retry-After and leaves.
Reject(r) ==
    /\ r \notin inflight
    /\ ~AdmitOK
    /\ advice' = retryAfter
    /\ UNCHANGED <<state, consecutive, lastFailure, openedAt, probeInFlight,
                   now, inflight, probe, lastBad, streak>>

\* History of the run of failures that the breaker is counting.
Latest(times) ==
    IF Len(times) > Failures THEN Tail(times) ELSE times

StreakAfter(statusCode) ==
    IF state # "closed" \/ ~Failure(statusCode) THEN <<>>
    ELSE Latest(Append(streak, now))

Report(r, statusCode) ==
    /\ r \in inflight
    /\ report(statusCode)
    /\ inflight' = inflight \ {r}
    /\ probe' = IF state' = "halfOpen" THEN probe ELSE NoRequest
    /\ lastBad' = IF Failure(statusCode) THEN now ELSE lastBad
    /\ streak' = StreakAfter(statusCode)
    /\ UNCHANGED <<now, advice>>

Tick ==
    /\ now < MaxTime
    /\ now' = now + 1
    /\ UNCHANGED <<state, consecutive, lastFailure, openedAt, probeInFlight,
                   inflight, probe, lastBad, streak, advice>>

Next ==
    \/ \E r \in Requests : Admit(r)
    \/ \E r \in Requests : Reject(r)
    \/ \E r \in Requests, c \in StatusCodes : Report(r, c)
    \/ Tick

Spec == Init /\ [][Next]_vars

-----------------------------------------------------------------------------
(***************************************************************************)
(* Properties that hold.                                                   *)
(***************************************************************************)

\* The probe slot is never leaked (the invariant proxy.go calls C1): while the
\* breaker is half-open its probe flag is set and the request that opened the
\* episode is still out and will report; in every other state the flag is
\* clear.  In particular the `!b.probeInFlight` branch of admit is never taken.
ProbeSlotHeld ==
    /\ state = "halfOpen" => probeInFlight /\ probe \in inflight
    /\ state # "halfOpen" => ~probeInFlight

\* The recovery window of an open breaker runs from the most recent 5xx that
\* anyone reported, stragglers admitted before the trip included: report's
\* three cases together never leave openedAt behind.
OpenSinceLastFailure ==
    state = "open" => openedAt = lastBad /\ lastBad # ZeroTime

\* What the code counts incrementally is the run the comments describe: the
\* longest suffix of the failures since the last non-5xx in which no two
\* neighbours are more than Window apart.
RunLengths ==
    {k \in 0..Len(streak) :
        Window > 0 => \A i \in (Len(streak) - k + 2)..Len(streak) :
                          streak[i] - streak[i-1] <= Window}

CountIsRun ==
    state = "closed" =>
        /\ consecutive \in RunLengths
        /\ \A k \in RunLengths : k <= consecutive

\* lastFailure survives a trip, yet never reaches the next run: in the closed
\* state it is set exactly when a failure of the current run is counted.
NoStaleFailureTime ==
    state = "closed" => (lastFailure = ZeroTime <=> consecutive = 0)

\* Retry-After is at least one second and never sends the client away for
\* longer than the recovery window (rounded to whole seconds).
AdviceBounded ==
    /\ advice >= 1
    /\ advice <= WholeSeconds(RecoveryWindow)

\* The breaker refines the abstract fuse: counting, the probe flag and the
\* Retry-After arithmetic never let a request through that the fuse stops.
F == INSTANCE Fuse WITH phase <- state, outstanding <- inflight

FuseSpec == F!Spec

-----------------------------------------------------------------------------
(***************************************************************************)
(* Properties that comments claim and the code does not have.              *)
(***************************************************************************)

\* breaker.go:131: "Probes are the only requests the state machine cares about
\* while half-open": only the probe's own report ends a half-open episode.
OnlyProbeResolves ==
    [][state = "halfOpen" /\ state' # "halfOpen" => probe \notin inflight']_vars

\* config.go:143: "A 5xx older than Window relative to the most recent failure
\* does not contribute": the failures that trip the breaker lie within Window.
TripWithinWindow ==
    [][state = "closed" /\ state' = "open" /\ Window > 0
        => now - streak'[1] <= Window]_vars

=============================================================================
