------------------------------ MODULE Exchange ------------------------------
(***************************************************************************)
(* One enriched call from its request to its metrics: dispatch and         *)
(* responseInterceptor of src/internal/proxy/proxy.go, with the parsers of *)
(* Enrich and, for an event stream, the tap of SSE.  The answer is read    *)
(* piece by piece, by a reader that may stop, fail or close at any point.  *)
(* How several calls and the end of the process interleave is Lifecycle's. *)
(***************************************************************************)
EXTENDS SSE, Enrich

CONSTANTS
    Calls,                     \* calls: provider, path, content settings,
                               \* request, the kind of the answer and its body
    maxEnrichmentBodyBytes     \* what is kept of a JSON answer

RequestType == [valid : BOOLEAN, model : Models, system : BOOLEAN, messages : Nat]

(* What a document is when the parser for c reads it *)
ReadAs(c, d) ==
    IF c.provider = "openai" THEN d \in ChunkType
    ELSE d \in PartType /\ (d.type = "message" <=> c.kind # "stream")

ASSUME ExchangeAssumption ==
    /\ \A c \in Calls :
           /\ c.provider \in {"openai", "anthropic"}
           /\ c.kind \in {"error", "stream", "json"}
           /\ c.request \in RequestType
           /\ c.body \in Seq(Byte)
           /\ \A i \in DOMAIN c.body : c.body[i] \in DOMAIN Doc => ReadAs(c, Doc[c.body[i]])
    /\ maxEnrichmentBodyBytes \in Nat

VARIABLES
    call,       \* the call
    stage,      \* "request", "sent", "answered", "passed" (not enriched), "done"
    info,       \* Info
    span,       \* events, attributes and the error snippet of the span
    recorded    \* what finalize recorded; one entry for each time

vars == <<tap, call, stage, info, span, recorded>>

opts == ContentOpts(call)

NoAttrs == [model |-> NoName, finishReasons |-> 0, input |-> 0, output |-> 0]

Init ==
    /\ call \in Calls
    /\ newSSETee(call.body)
    /\ stage = "request"
    /\ info = NewInfo(NoName)
    /\ span = [events |-> <<>>, attrs |-> NoAttrs, snippet |-> {}]
    /\ recorded = <<>>

-----------------------------------------------------------------------------
(* dispatch: a path without an operation is proxied as it is *)
PassThrough ==
    /\ stage = "request"
    /\ OperationFor(call.provider, call.path) = NoName
    /\ stage' = "passed"
    /\ UNCHANGED <<tap, call, info, span, recorded>>

(* Its body could not be read: it is proxied as it is *)
BodyUnread ==
    /\ stage = "request"
    /\ OperationFor(call.provider, call.path) # NoName
    /\ stage' = "passed"
    /\ UNCHANGED <<tap, call, info, span, recorded>>

Send ==
    /\ stage = "request"
    /\ OperationFor(call.provider, call.path) # NoName
    /\ stage' = "sent"
    /\ info' = ParseRequest(call.provider, call.path, call.request)
    /\ span' = [span EXCEPT !.events =
                    RequestEvents(call.provider, info', call.request, opts)]
    /\ UNCHANGED <<tap, call, recorded>>

recordMetrics(i, status) ==
    [model |-> IF i.responseModel # NoName THEN i.responseModel ELSE i.requestModel,
     input |-> Prefer(i.input, 0, 0), output |-> Prefer(i.output, 0, 0),
     firstToken |-> i.firstTokenAt, status |-> status]

(* finalize, and finishSpan with the snippet of an error's body *)
finalize(i, s, status, snippet) ==
    IF recorded # <<>>
    THEN info' = i /\ span' = s /\ UNCHANGED recorded
    ELSE /\ info' = [i EXCEPT !.finished = TRUE]
         /\ recorded' = Append(recorded, recordMetrics(i, status))
         /\ span' = [s EXCEPT !.snippet = IF opts.capture THEN snippet ELSE {}]

(* The upstream is not reached; ServeHTTP returns and dispatch finalizes *)
Unanswered ==
    /\ stage = "sent"
    /\ stage' = "done"
    /\ finalize(info, span, "none", {})
    /\ UNCHANGED <<tap, call>>

modify ==
    /\ stage = "sent"
    /\ stage' = "answered"
    /\ UNCHANGED <<tap, call, info, span, recorded>>

-----------------------------------------------------------------------------
(* The events that follow the first n, handed to onEvent in order *)
Enriched(n) ==
    LET new == Len(events') - n
        upto[k \in 0..new] ==
            IF k = 0 THEN info
            ELSE onEvent(call.provider, upto[k - 1], events'[n + k].data, n + k, opts)
    IN upto[new]

(* The closer of the tap, run by the Once *)
closer(i) ==
    IF once \/ i.finished
    THEN info' = i /\ UNCHANGED <<span, recorded>>
    ELSE finalize([i EXCEPT !.finished = TRUE],
                  [span EXCEPT !.attrs = responseAttrs(i),
                               !.events = @ \o AssembledEvents(call.provider, i, opts)], "ok", {})

Streaming == stage = "answered" /\ call.kind = "stream" /\ UNCHANGED <<call, stage>>

StreamRead(n) ==
    /\ Streaming /\ Read(n)
    /\ info' = Enriched(Len(events))
    /\ UNCHANGED <<span, recorded>>

StreamErr == Streaming /\ ReadErr /\ closer(Enriched(Len(events)))

StreamClose == Streaming /\ Close /\ closer(info)

-----------------------------------------------------------------------------
(* snippetCapture: the first cap bytes of what was read *)
head(cap) == SubSeq(stream, 1, IF pos < cap THEN pos ELSE cap)

(* Breaks CapturedOnlyWhenAsked: the snippet of an error is not cleaned. *)
Snippet_Raw == IF pos > 0 THEN Items ELSE {}

(* The head of the body is raw and is cut before it is cleaned *)
Snippet == IF pos > 0 THEN Clean(opts, Items) ELSE {}

(* onClose of the two kinds of parseOnClose *)
onClose ==
    LET doc == Unmarshal(head(maxEnrichmentBodyBytes))
        parsed == ParseResponseJSON(call.provider, info, doc)
    IN CASE once -> UNCHANGED <<info, span, recorded>>
         [] ~ once /\ call.kind = "error" -> finalize(info, span, "error", Snippet)
         [] ~ once /\ call.kind = "json" ->
               finalize(parsed,
                        [span EXCEPT
                            !.attrs = IF doc = Malformed THEN @ ELSE responseAttrs(parsed),
                            !.events = @ \o ResponseEvents(call.provider, parsed, doc, opts)],
                        "ok", {})

Whole == stage = "answered" /\ call.kind # "stream" /\ open /\ UNCHANGED <<call, stage>>

BodyRead(n) ==
    /\ Whole
    /\ ~ once /\ pos + n <= Len(stream)
    /\ pos' = pos + n
    /\ UNCHANGED <<stream, buf, events, overflows, closes, once, open, base, past,
                   info, span, recorded>>

(* Only EOF runs the callback; after another error the reader closes *)
BodyEOF ==
    /\ Whole
    /\ pos = Len(stream)
    /\ CloseOnce
    /\ onClose
    /\ UNCHANGED <<stream, pos, buf, events, overflows, open, base, past>>

BodyClose ==
    /\ Whole
    /\ open' = FALSE
    /\ CloseOnce
    /\ onClose
    /\ UNCHANGED <<stream, pos, buf, events, overflows, base, past>>

(* ServeHTTP returns with the body closed; dispatch calls finalize again *)
Return ==
    /\ stage = "answered" /\ ~ open
    /\ stage' = "done"
    /\ finalize(info, span, "none", {})
    /\ UNCHANGED <<tap, call>>

Next ==
    \/ PassThrough \/ BodyUnread \/ Send \/ Unanswered \/ modify
    \/ \E n \in 1..Len(stream) : StreamRead(n)
    \/ StreamErr \/ StreamClose
    \/ \E n \in 1..Len(stream) : BodyRead(n)
    \/ BodyEOF \/ BodyClose \/ Return

Spec == Init /\ [][Next]_vars

-----------------------------------------------------------------------------
(* How the upstream's bytes are cut into reads cannot be seen in the events:
   frame terminators that straddle two or three reads are found, and nothing
   is taken for one that a longer read would not show.  At the end of the
   stream the last, unterminated frame is included, once.  After an overflow
   the same holds of what follows it (sseTee.Read, drain, findFrameBoundary). *)
ChunkingInvisible ==
    call.kind = "stream" /\ open => events = drain(SinceOverflow, past, once).out

(* A stream with uniform line ends, read to its end without an overflow, gives
   the events that the EventSource rules give: the search for the three
   terminator strings finds exactly the blank lines.  It is about where frames
   and lines end; what the lines of a frame mean is the tap's own dispatch on
   both sides (findFrameBoundary, splitSSELines). *)
AgreesWithEventSource ==
    call.kind = "stream" /\ once /\ open /\ pos = Len(stream) /\ overflows = 0 /\ Uniform
        => events = Gathered(Lines(stream))

-----------------------------------------------------------------------------
(* What the answer reported of itself: the documents of the events, or the
   document that was read and kept of a JSON answer *)
Reports ==
    CASE call.kind = "stream" -> [i \in DOMAIN events |-> Unmarshal(events[i].data)]
      [] call.kind = "json" -> <<Unmarshal(head(maxEnrichmentBodyBytes))>>
      [] OTHER -> <<>>

(* The last value that is not absent, else the default *)
LastReported(Value(_), absent, default) ==
    LET set == {i \in DOMAIN Reports : Value(Reports[i]) # absent}
    IN IF set = {} THEN default
       ELSE Value(Reports[CHOOSE i \in set : \A j \in set : j <= i])

(* A count that is not positive is no report *)
Positive(count) == IF count > 0 THEN count ELSE 0

ReportedInput(d) ==
    CASE d.type = "chunk" -> IF d.prompt > 0 THEN d.prompt ELSE Positive(d.input)
      [] d.type \in {"message", "message_start"} -> Positive(d.input)
      [] OTHER -> 0

ReportedOutput(d) ==
    CASE d.type = "chunk" -> IF d.completion > 0 THEN d.completion ELSE Positive(d.output)
      [] d.type \in {"message", "message_delta"} -> Positive(d.output)
      [] OTHER -> 0

ReportedModel(d) ==
    IF d.type \in {"chunk", "message", "message_start"} THEN d.model ELSE NoName

RequestedModel == IF call.request.valid THEN call.request.model ELSE NoName

(* A call is billed and measured with the counts and the model name that the
   upstream reported last, through repeated and partial reports, both field
   names, documents cut off by the reader, by a limit or by the end of the
   stream, and error answers; the span's attributes agree with the metrics.  A
   call without an operation records nothing (recordMetrics, responseAttrs,
   mergeOpenAIUsage, ParseResponseJSON, the events of WrapStream). *)
RecordedAsReported ==
    /\ stage = "passed" => recorded = <<>>
    /\ stage = "done" => Len(recorded) = 1
    /\ \A i \in DOMAIN recorded :
           /\ recorded[i].input = LastReported(ReportedInput, 0, 0)
           /\ recorded[i].output = LastReported(ReportedOutput, 0, 0)
           /\ recorded[i].model = LastReported(ReportedModel, NoName, RequestedModel)
           /\ (\E k \in DOMAIN Reports : Reports[k] # Malformed)
                  => /\ span.attrs.input = recorded[i].input
                     /\ span.attrs.output = recorded[i].output

HasToken(d) ==
    CASE d.type = "chunk" -> \E i \in DOMAIN d.choices :
                                 d.choices[i].content # "absent" \/ d.choices[i].tools
      [] d.type = "text_delta" -> HasText(d.content)
      [] OTHER -> d.type = "input_json_delta"

(* onClose runs once, and has run when the answer has ended or was closed, in
   whatever order a reader sees errors and calls Close; onFirstToken runs once,
   at the first event with a token, however many events one Read completes, and
   the recorded time is that event's (sync.Once, the gotFirst flag). *)
CallbacksOnce ==
    LET with == {i \in DOMAIN events : HasToken(Unmarshal(events[i].data))}
        first == IF with = {} THEN 0 ELSE CHOOSE i \in with : \A j \in with : i <= j
    IN /\ closes = IF once THEN 1 ELSE 0
       /\ info.firstCalls = IF with = {} THEN 0 ELSE 1
       /\ info.firstTokenAt = first
       /\ \A i \in DOMAIN recorded : recorded[i].firstToken = first

(* What the privacy table of the README lets a profile mask *)
Masked == CASE call.redact = "default" -> {"key"}
            [] call.redact = "strict" -> {"key", "card"}
            [] OTHER -> {}

Captured == {span.events[i].text : i \in DOMAIN span.events} \cup {span.snippet}

(* No prompt, completion or error text reaches a span unless content.mode is
   events, and what does has been through the configured profile, on all of the
   five paths text takes to a span: an item that stands whole and alone in the
   string that is attached, such as a key that an Anthropic stream delivered in
   two deltas, is masked (RequestEvents, ResponseEvents, AssembledEvents, the
   error snippet; ContentOpts.Clean, redact.Func). *)
CapturedOnlyWhenAsked ==
    /\ call.mode # "events" => span.events = <<>> /\ span.snippet = {}
    /\ \A t \in Captured : t \cap Masked = {}

(* What README says of the default profile: it "will NOT silently ship raw
   secrets".  A key in two deltas of an OpenAI stream has the quotes
   of two JSON strings inside it, in raw JSON a key may follow the letter of an
   escape, and the snippet is cut before it is cleaned: no pattern matches. *)
RawOnlyWhenOff ==
    call.redact \in {"default", "strict"} => \A t \in Captured : "part" \notin t

(* What README says of the first token: "The first content delta (text or
   tool-call) records time_to_first_token".  A role-only first chunk with
   "content":"" or null has neither. *)
FirstTokenIsContent ==
    info.firstTokenAt > 0 =>
        LET d == Unmarshal(events[info.firstTokenAt].data)
        IN \/ d.type # "chunk"
           \/ \E i \in DOMAIN d.choices : HasText(d.choices[i].content) \/ d.choices[i].tools

(* What README says of content.mode logs: it "routes the same content through
   the OTel log signal".  The code captures for events only, and has no other
   path, so with mode logs the content of a recorded chat goes nowhere. *)
LogsModeCaptures ==
    stage = "done" /\ call.mode = "logs" /\ call.request.messages > 0 /\ call.request.valid
        => span.events # <<>>
=============================================================================
