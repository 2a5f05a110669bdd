----------------------------- MODULE Lifecycle -----------------------------
(***************************************************************************)
(* The life of the process and of the enriched exchanges in it:            *)
(*   - runUp (src/cmd/llmtap/main.go) and Server.Run                       *)
(*     (src/internal/proxy/server.go): start, telemetry set-up (module     *)
(*     Telemetry), serve, graceful shutdown under a deadline, telemetry    *)
(*     shutdown, exit;                                                     *)
(*   - the response side of an LLM call (responseInterceptor, parseOnClose *)
(*     in src/internal/proxy/proxy.go and sseTee in provider/sse.go): the  *)
(*     wrapped body, the callback that runs once on EOF or Close, the      *)
(*     activeStreams counter and the finalize that records the call.       *)
(*                                                                         *)
(* Each exchange runs in its handler goroutine, Run in the main one.  The  *)
(* HTTP server, the reverse proxy and the telemetry SDK are external: a    *)
(* record reaches the backend if it is made while its provider is up.      *)
(***************************************************************************)
EXTENDS Integers, FiniteSets, Telemetry

CONSTANTS Exchanges      \* LLM calls the clients may make

ASSUME LifecycleAssumption == IsFiniteSet(Exchanges)

VARIABLES
    main,          \* where the main goroutine is
    ctxDone,       \* SIGINT or SIGTERM has cancelled the root context
    deadline,      \* shutCtx has expired
    listening,     \* the listener accepts connections
    serveErr,      \* Serve has returned an error of its own
    runErr,        \* what Run returned: "none" before, then "nil" or "err"
    at,            \* where each exchange's handler goroutine is
    kind,          \* how modify wrapped its response body
    onceDone,      \* the sync.Once of that wrapper
    finalized,     \* the atomic flag of finalize
    recorded,      \* how often metrics and span were recorded
    kept,          \* its metrics and span were made while the SDK took them
    activeStreams

server == <<main, ctxDone, deadline, listening, serveErr, runErr, telemetry>>
exchange == <<at, kind, onceDone, finalized, recorded, kept, activeStreams>>
vars == <<server, exchange>>

Kinds == {"none", "json", "error", "stream"}
MainLocations == {"boot", "setup", "wire", "listen", "serve", "waitStreams", "shutdown",
                  "shutdownWait", "returned", "exited"}
Locations == {"none", "upstream", "copy", "eof", "dec", "final", "close",
              "served", "done"}

(* The handler goroutine of e is running *)
Running(e) == at[e] \notin {"none", "done"}

Init ==
    /\ main = "boot"
    /\ ctxDone = FALSE /\ deadline = FALSE /\ listening = FALSE
    /\ serveErr = FALSE /\ SetupInit
    /\ runErr = "none"
    /\ at = [e \in Exchanges |-> "none"]
    /\ kind = [e \in Exchanges |-> "none"]
    /\ onceDone = [e \in Exchanges |-> FALSE]
    /\ finalized = [e \in Exchanges |-> FALSE]
    /\ recorded = [e \in Exchanges |-> 0]
    /\ kept = [e \in Exchanges |-> FALSE]
    /\ activeStreams = 0

-----------------------------------------------------------------------------
(***************************************************************************)
(* Exchanges                                                               *)
(***************************************************************************)
Alive == main # "exited"

Goto(e, from, to) ==
    /\ Alive
    /\ at[e] = from
    /\ at' = [at EXCEPT ![e] = to]

(* A request is accepted and forwarded, up to the upstream's answer *)
Start(e) ==
    /\ listening
    /\ Goto(e, "none", "upstream")
    /\ UNCHANGED <<server, kind, onceDone, finalized, recorded, kept, activeStreams>>

(* No answer: ErrorHandler sends 502 and modify is never called *)
Unanswered(e) ==
    /\ Goto(e, "upstream", "served")
    /\ UNCHANGED <<server, kind, onceDone, finalized, recorded, kept, activeStreams>>

(* modify wraps the body by status code and content type *)
modify(e) ==
    /\ Goto(e, "upstream", "copy")
    /\ \E k \in {"json", "error", "stream"} :
           /\ kind' = [kind EXCEPT ![e] = k]
           /\ activeStreams' = IF k = "stream" THEN activeStreams + 1
                               ELSE activeStreams
    /\ UNCHANGED <<server, onceDone, finalized, recorded, kept>>

(* Breaks StreamsCounted: the callback runs on EOF and again on Close. *)
onClose_Unguarded(e) ==
    /\ Alive
    /\ at[e] \in {"eof", "close"}
    /\ at' = [at EXCEPT ![e] = IF kind[e] = "stream" THEN "dec" ELSE "final"]
    /\ onceDone' = [onceDone EXCEPT ![e] = at[e] = "close"]
    /\ UNCHANGED <<server, kind, finalized, recorded, kept, activeStreams>>

(* once.Do(onClose), from the Read that ends the body or from Close: the
   stream's callback does nothing for a finished call, else takes it off the
   counter and then finalizes *)
onClose(e) ==
    /\ Alive
    /\ at[e] \in {"eof", "close"}
    /\ ~ onceDone[e]
    /\ at' = [at EXCEPT ![e] = IF kind[e] # "stream" THEN "final"
                               ELSE IF finalized[e] THEN "close" ELSE "dec"]
    /\ onceDone' = [onceDone EXCEPT ![e] = TRUE]
    /\ UNCHANGED <<server, kind, finalized, recorded, kept, activeStreams>>

(* The copy loop meets the end of the body *)
ReadEOF(e) ==
    /\ Goto(e, "copy", "eof")
    /\ UNCHANGED <<server, kind, onceDone, finalized, recorded, kept, activeStreams>>

(* The client or the upstream is lost, or all is copied: the body is closed *)
Break(e) ==
    /\ Goto(e, "copy", "close")
    /\ UNCHANGED <<server, kind, onceDone, finalized, recorded, kept, activeStreams>>

DecStreams(e) ==
    /\ Goto(e, "dec", "final")
    /\ activeStreams' = activeStreams - 1
    /\ UNCHANGED <<server, kind, onceDone, finalized, recorded, kept>>

(* Breaks RecordedOnce: no compare-and-swap in finalize. *)
finalize_NoSwap(e) ==
    /\ finalized' = [finalized EXCEPT ![e] = TRUE]
    /\ recorded' = [recorded EXCEPT ![e] = @ + 1]
    /\ kept' = [kept EXCEPT ![e] = {"meter", "tracer"} \subseteq up]

(* finalize: the first caller records metrics and ends the span *)
finalize(e) ==
    IF finalized[e] THEN UNCHANGED <<finalized, recorded, kept>>
    ELSE /\ finalized' = [finalized EXCEPT ![e] = TRUE]
         /\ recorded' = [recorded EXCEPT ![e] = @ + 1]
         /\ kept' = [kept EXCEPT ![e] = {"meter", "tracer"} \subseteq up]

FinalizeInCallback(e) ==
    /\ Goto(e, "final", "close")
    /\ finalize(e)
    /\ UNCHANGED <<server, kind, onceDone, activeStreams>>

(* Close when the callback has run: rp.ServeHTTP returns, or, after a failed
   copy, panics with http.ErrAbortHandler past the rest of dispatch *)
Closed(e) ==
    /\ Alive
    /\ at[e] = "close" /\ onceDone[e]
    /\ at' \in {[at EXCEPT ![e] = to] : to \in {"served", "done"}}
    /\ UNCHANGED <<server, kind, onceDone, finalized, recorded, kept, activeStreams>>

(* dispatch's own finalize after rp.ServeHTTP *)
FinalizeAfterServe(e) ==
    /\ Goto(e, "served", "done")
    /\ finalize(e)
    /\ UNCHANGED <<server, kind, onceDone, activeStreams>>

Handle(e) ==
    \/ Unanswered(e) \/ modify(e) \/ ReadEOF(e) \/ Break(e)
    \/ onClose(e) \/ DecStreams(e) \/ FinalizeInCallback(e) \/ Closed(e)
    \/ FinalizeAfterServe(e)

-----------------------------------------------------------------------------
(***************************************************************************)
(* runUp and Server.Run                                                    *)
(***************************************************************************)
(* config.Load *)
BootFail ==
    /\ main = "boot"
    /\ main' = "exited"
    /\ UNCHANGED <<ctxDone, deadline, listening, serveErr, runErr, telemetry, exchange>>

Boot ==
    /\ main = "boot"
    /\ main' = "setup"
    /\ UNCHANGED <<ctxDone, deadline, listening, serveErr, runErr, telemetry, exchange>>

(* telemetry.Setup, with the unwinding of a failed one *)
Setup ==
    /\ main = "setup"
    /\ Construct \/ ConstructFails \/ ShutdownProvider
    /\ UNCHANGED <<main, ctxDone, deadline, listening, serveErr, runErr, exchange>>

SetupReturns ==
    /\ main = "setup"
    /\ stage \in {"ready", "failed"} /\ closing = <<>>
    /\ main' = IF stage = "ready" THEN "wire" ELSE "exited"
    /\ UNCHANGED <<ctxDone, deadline, listening, serveErr, runErr, telemetry, exchange>>

(* newLogger, proxy.New and NewServer; an error of any of them leaves runUp,
   which then does not call Shutdown *)
Wire ==
    /\ main = "wire"
    /\ main' = "listen"
    /\ UNCHANGED <<ctxDone, deadline, listening, serveErr, runErr, telemetry, exchange>>

WireFails ==
    /\ main = "wire"
    /\ main' = "exited"
    /\ UNCHANGED <<ctxDone, deadline, listening, serveErr, runErr, telemetry, exchange>>

RunReturns(err) ==
    /\ main' = "returned"
    /\ runErr' = err

ListenFail ==
    /\ main = "listen"
    /\ RunReturns("err")
    /\ UNCHANGED <<ctxDone, deadline, listening, serveErr, telemetry, exchange>>

Listen ==
    /\ main = "listen"
    /\ main' = "serve"
    /\ listening' = TRUE
    /\ UNCHANGED <<ctxDone, deadline, serveErr, runErr, telemetry, exchange>>

Signal ==
    /\ Alive /\ ~ ctxDone
    /\ ctxDone' = TRUE
    /\ UNCHANGED <<main, deadline, listening, serveErr, runErr, telemetry, exchange>>

(* The goroutine in Serve ends with an accept error, sent to errCh *)
ServeFails ==
    /\ main = "serve" /\ listening
    /\ listening' = FALSE
    /\ serveErr' = TRUE
    /\ UNCHANGED <<main, ctxDone, deadline, runErr, telemetry, exchange>>

(* Run's select: the error channel, or the cancelled context; when both are
   ready either may be taken *)
TakeServeErr ==
    /\ main = "serve" /\ serveErr
    /\ RunReturns("err")
    /\ UNCHANGED <<ctxDone, deadline, listening, serveErr, telemetry, exchange>>

BeginShutdown ==
    /\ main = "serve" /\ ctxDone
    /\ main' = "waitStreams"
    /\ UNCHANGED <<ctxDone, deadline, listening, serveErr, runErr, telemetry, exchange>>

(* shutCtx runs from BeginShutdown to the end of Run *)
Expire ==
    /\ main \in {"waitStreams", "shutdown", "shutdownWait"}
    /\ ~ deadline
    /\ deadline' = TRUE
    /\ UNCHANGED <<main, ctxDone, listening, serveErr, runErr, telemetry, exchange>>

(* Breaks ProcessExits: the poll loop has no case for the context. *)
WaitForStreams_NoDeadline ==
    /\ main = "waitStreams"
    /\ activeStreams = 0
    /\ main' = "shutdown"
    /\ listening' = FALSE
    /\ UNCHANGED <<ctxDone, deadline, serveErr, runErr, telemetry, exchange>>

(* WaitForStreams returns, at zero or at the deadline; Shutdown closes the
   listener, which has accepted requests up to here *)
WaitForStreams ==
    /\ main = "waitStreams"
    /\ activeStreams = 0 \/ deadline
    /\ main' = "shutdown"
    /\ listening' = FALSE
    /\ UNCHANGED <<ctxDone, deadline, serveErr, runErr, telemetry, exchange>>

Idle == \A e \in Exchanges : ~ Running(e)

(* Breaks CleanExitKeepsAll: the streams are gone, so Run does not wait for
   the other handlers. *)
ShutdownIdle_Skipped ==
    /\ main \in {"shutdown", "shutdownWait"}
    /\ RunReturns("nil")
    /\ UNCHANGED <<ctxDone, deadline, listening, serveErr, telemetry, exchange>>

(* http.Server.Shutdown looks whether every connection is idle, and between
   two looks waits for its poll timer or for shutCtx *)
ShutdownIdle ==
    /\ main \in {"shutdown", "shutdownWait"}
    /\ Idle
    /\ RunReturns("nil")
    /\ UNCHANGED <<ctxDone, deadline, listening, serveErr, telemetry, exchange>>

ShutdownBusy ==
    /\ main = "shutdown"
    /\ ~ Idle
    /\ main' = "shutdownWait"
    /\ UNCHANGED <<ctxDone, deadline, listening, serveErr, runErr, telemetry, exchange>>

ShutdownExpired ==
    /\ main = "shutdownWait" /\ deadline
    /\ RunReturns("err")
    /\ UNCHANGED <<ctxDone, deadline, listening, serveErr, telemetry, exchange>>

(* runUp shuts telemetry down whatever Run returned *)
FlushTelemetry ==
    /\ main = "returned"
    /\ Shutdown \/ ShutdownProvider
    /\ UNCHANGED <<main, ctxDone, deadline, listening, serveErr, runErr, exchange>>

Exit ==
    /\ main = "returned"
    /\ stage = "closed" /\ closing = <<>>
    /\ main' = "exited"
    /\ listening' = FALSE
    /\ UNCHANGED <<ctxDone, deadline, serveErr, runErr, telemetry, exchange>>

Main ==
    \/ Boot \/ BootFail \/ Setup \/ SetupReturns \/ Wire \/ WireFails
    \/ Listen \/ ListenFail
    \/ TakeServeErr \/ BeginShutdown \/ WaitForStreams
    \/ ShutdownIdle \/ ShutdownBusy \/ ShutdownExpired
    \/ FlushTelemetry \/ Exit

Next ==
    \/ Main \/ Signal \/ ServeFails \/ Expire
    \/ \E e \in Exchanges : Start(e) \/ Handle(e)

Spec == Init /\ [][Next]_vars

(* The main goroutine is scheduled and time passes.  Nothing is assumed of
   the exchanges: a stream may stay open for ever. *)
FairSpec == Spec /\ WF_vars(Main) /\ WF_vars(Expire)

-----------------------------------------------------------------------------
(* Exchanges between the two updates of activeStreams *)
CountedStreams ==
    {e \in Exchanges : kind[e] = "stream" /\ at[e] \in {"copy", "eof", "dec"}}
        \cup {e \in Exchanges :
                 kind[e] = "stream" /\ at[e] = "close" /\ ~ onceDone[e]}

(* Type invariant *)
TypeOK ==
    /\ main \in MainLocations
    /\ ctxDone \in BOOLEAN /\ deadline \in BOOLEAN /\ listening \in BOOLEAN
    /\ serveErr \in BOOLEAN /\ SetupType
    /\ runErr \in {"none", "nil", "err"}
    /\ at \in [Exchanges -> Locations]
    /\ kind \in [Exchanges -> Kinds]
    /\ onceDone \in [Exchanges -> BOOLEAN]
    /\ finalized \in [Exchanges -> BOOLEAN]
    /\ recorded \in [Exchanges -> Nat]
    /\ kept \in [Exchanges -> BOOLEAN]
    /\ activeStreams \in 0..Cardinality(Exchanges)

(* activeStreams is the number of streams whose callback has not run yet,
   whether the stream ends by EOF, by a broken copy or both: it is never
   negative and comes back to zero (modify, sseTee.Read, sseTee.Close). *)
StreamsCounted == activeStreams = Cardinality(CountedStreams)

(* Every exchange is recorded exactly once: the callback of the body and the
   call after rp.ServeHTTP never both count it, and no way through the
   handler, an unanswered request or an aborted copy included, leaves it out
   (responseInterceptor's finalize). *)
RecordedOnce ==
    \A e \in Exchanges :
        /\ recorded[e] <= 1
        /\ at[e] = "done" => recorded[e] = 1

(* When Run returns without an error, telemetry is shut down only after every
   exchange that was accepted has been recorded: a graceful shutdown within
   the deadline loses no span and no metric (Run, runUp). *)
CleanExitKeepsAll ==
    runErr = "nil" =>
        \A e \in Exchanges : at[e] # "none" => kept[e] /\ ~ Running(e)

(* After a signal the process exits, whatever the streams do: the deadline
   bounds the wait for streams and the wait for handlers (Run,
   WaitForStreams). *)
ProcessExits == ctxDone ~> main = "exited"

(* The providers that are up are always the first ones constructed, so that
   each is shut down before those it was built after, on the error paths of
   Setup and at the end alike; and a process that ends without a Setup left
   standing, because Setup failed half-way or because Run returned, has shut
   down every provider.  A process that ends between the two, because newLogger,
   New or NewServer fails, has shut down none (Setup, Shutdown, runUp). *)
UnwoundInReverse ==
    /\ \E n \in 0..Len(Constructed) : up = {Constructed[i] : i \in 1..n}
    /\ main = "exited" /\ stage # "ready" => up = {}
    /\ runErr # "none" /\ main = "exited" => stage = "closed"

(* What the comment on Providers says: Shutdown is the one handle the caller
   has to manage.  runUp returns without calling it when newLogger, proxy.New
   or NewServer fails. *)
ShutdownManaged == main = "exited" => up = {}

(* What the comment on WaitForStreams says: without the deadline, shutdown
   proceeds only once the parser side of every stream has drained.  The
   callback takes a stream off the counter before it finalizes it. *)
StreamsDrained ==
    [][WaitForStreams /\ ~ deadline =>
          \A e \in Exchanges : kind[e] = "stream" => finalized[e]]_vars
=============================================================================
