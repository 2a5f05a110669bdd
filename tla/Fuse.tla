-------------------------------- MODULE Fuse --------------------------------
(***************************************************************************)
(* What a circuit breaker promises to the upstream it protects, without    *)
(* saying how failures are counted: a fuse that                            *)
(*   - lets every request through while closed, and may blow when an       *)
(*     outstanding request reports back;                                   *)
(*   - once blown lets nothing through for RecoveryWindow, counted from    *)
(*     the last time it was (re)blown;                                     *)
(*   - then lets exactly one request through, and nothing more until some  *)
(*     outstanding request reports and the fuse is mended or blown again.  *)
(* The promise is taken from the comments on breakerState and BreakerConfig*)
(* (internal/proxy/breaker.go, internal/config/config.go); Breaker and     *)
(* Gateway are shown to keep it.                                           *)
(***************************************************************************)
EXTENDS Integers

CONSTANTS
    Requests,        \* identities of concurrently served requests
    RecoveryWindow,
    MaxTime          \* bound on the clock

VARIABLES
    phase,           \* "closed", "open" or "halfOpen"
    openedAt,
    now,
    outstanding      \* let through and not reported yet

vars == <<phase, openedAt, now, outstanding>>

Init ==
    /\ phase = "closed"
    /\ openedAt = 0
    /\ now = 1
    /\ outstanding = {}

LetThrough(r) ==
    /\ r \notin outstanding
    /\ \/ phase = "closed" /\ phase' = "closed"
       \/ /\ phase = "open"
          /\ now - openedAt >= RecoveryWindow
          /\ phase' = "halfOpen"
    /\ outstanding' = outstanding \cup {r}
    /\ UNCHANGED <<openedAt, now>>

Blow == phase' = "open" /\ openedAt' = now

Settle(r) ==
    /\ r \in outstanding
    /\ outstanding' = outstanding \ {r}
    /\ UNCHANGED now
    /\ \/ Blow
       \/ /\ phase' = IF phase = "halfOpen" THEN "closed" ELSE phase
          /\ UNCHANGED openedAt

Tick ==
    /\ now < MaxTime
    /\ now' = now + 1
    /\ UNCHANGED <<phase, openedAt, outstanding>>

Next ==
    \/ \E r \in Requests : LetThrough(r) \/ Settle(r)
    \/ Tick

Spec == Init /\ [][Next]_vars

=============================================================================
