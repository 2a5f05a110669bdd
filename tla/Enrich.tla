------------------------------- MODULE Enrich -------------------------------
(***************************************************************************)
(* What a provider makes of one call: OperationFor, ParseRequest,          *)
(* ParseResponseJSON and the callbacks of WrapStream of                    *)
(* src/internal/provider/openai.go and anthropic.go, as functions from the *)
(* call's Info to the next one, and the redaction its content goes through *)
(* (src/internal/redact/redact.go).  Exchange runs them.                   *)
(*                                                                         *)
(* A document is a record of the fields the parsers look at.  Counts are 0 *)
(* and names NoName where a field is absent; content is "absent", "null",  *)
(* "empty" (the JSON string ""), "text", or one of the two parts of a key, *)
(* "head" and "tail".  A captured text is the set of the sensitive items   *)
(* in it.                                                                  *)
(***************************************************************************)
EXTENDS Integers, Sequences

CONSTANTS
    Doc,     \* the JSON documents: a function from symbols to their fields
    Models   \* the model names

NoName == ""

Contents == {"absent", "null", "empty", "text", "head", "tail"}

HasText(content) == content \in {"text", "head", "tail"}

(* The fields that the parsers read: of a chunk or an answer of OpenAI, of an
   event or an answer of Anthropic *)
ChoiceType == [finish : BOOLEAN, content : Contents, tools : BOOLEAN]
ChunkType == [type : {"chunk"}, model : Models, prompt : Int, input : Int,
              completion : Int, output : Int, choices : Seq(ChoiceType)]
PartType == [type : {"message", "message_start", "message_delta", "text_delta",
                     "input_json_delta", "ping"},
             model : Models, input : Int, output : Int, finish : BOOLEAN,
             content : Contents]

ASSUME EnrichAssumption ==
    /\ NoName \in Models
    /\ Doc \in [DOMAIN Doc -> ChunkType \cup PartType]

(* A document is its name and its end, with any white space (SP); a part of one,
   or anything else, is not valid JSON *)
Malformed == [type |-> "malformed"]

Unmarshal(data) ==
    LET names == {i \in DOMAIN data :
                     /\ data[i] \in DOMAIN Doc
                     /\ \E j \in (i + 1)..Len(data) :
                            /\ data[j] = "}"
                            /\ \A k \in DOMAIN data \ {i, j} : data[k] = "SP"}
    IN IF names = {} THEN Malformed ELSE Doc[data[CHOOSE i \in names : TRUE]]

-----------------------------------------------------------------------------
(***************************************************************************)
(* Paths: sequences of segments; a trailing slash leaves a last segment "" *)
(***************************************************************************)
CleanPath(path) ==
    LET upto[i \in 0..Len(path)] ==
            IF i = 0 THEN <<>>
            ELSE LET done == upto[i - 1]
                 IN CASE path[i] \in {"", "."} -> done
                      [] path[i] = ".." -> IF done = <<>> THEN done
                                           ELSE SubSeq(done, 1, Len(done) - 1)
                      [] OTHER -> Append(done, path[i])
    IN upto[Len(path)]

pathSegments(path) ==
    IF path = <<>> \/ path[Len(path)] = "" THEN <<>> ELSE CleanPath(path)

isVersionSegment(s) == s \in {"v0", "v1", "V2"}

isAPIParent(parents) ==
    /\ parents # <<>>
    /\ \/ isVersionSegment(parents[Len(parents)])
       \/ Len(parents) >= 2 /\ parents[Len(parents) - 1] = "deployments"

(* The path is parents followed by the segments of the operation *)
Under(segs, operation) ==
    /\ Len(segs) > Len(operation)
    /\ SubSeq(segs, Len(segs) - Len(operation) + 1, Len(segs)) = operation
    /\ isAPIParent(SubSeq(segs, 1, Len(segs) - Len(operation)))

OpenAIOperationFor(path) ==
    CASE Under(pathSegments(path), <<"chat", "completions">>) -> "chat"
      [] Under(pathSegments(path), <<"embeddings">>) -> "embeddings"
      [] OTHER -> NoName

AnthropicOperationFor(path) ==
    IF Under(pathSegments(path), <<"messages">>) THEN "chat" ELSE NoName

OperationFor(provider, path) ==
    IF provider = "openai" THEN OpenAIOperationFor(path) ELSE AnthropicOperationFor(path)

-----------------------------------------------------------------------------
(***************************************************************************)
(* Captured content                                                        *)
(***************************************************************************)
defaultPatterns == {"key"}
strictPatterns == {"card"}
Sensitive == defaultPatterns \cup strictPatterns

(* Besides the items that stand whole and alone, "part": one that no pattern
   matches, a part of it or one with a letter of an escape sequence before it *)
Items == Sensitive \cup {"part"}

Apply(text, profile) ==
    CASE profile = "default" -> text \ defaultPatterns
      [] profile = "strict" -> (text \ defaultPatterns) \ strictPatterns
      [] OTHER -> text

Func(profile) == IF profile \in {"off", NoName} THEN "nil" ELSE profile

ContentOpts(cfg) == [capture |-> cfg.mode = "events", redact |-> Func(cfg.redact)]

Clean(opts, text) == IF opts.redact = "nil" THEN text ELSE Apply(text, opts.redact)

(* A string as the JSON that came, in its quotes, with its line ends as \n *)
RawText(content) ==
    CASE content = "text" -> Items
      [] content \in {"head", "tail"} -> {"part"}
      [] OTHER -> {}

PlainText(content) ==
    CASE content = "text" -> Sensitive
      [] content \in {"head", "tail"} -> {"part"}
      [] OTHER -> {}

(* Deltas put together: between raw ones the quotes stay, between decoded ones a
   key that was split is whole again *)
RawDeltas(contents) == UNION {RawText(contents[i]) : i \in DOMAIN contents}

PlainDeltas(contents) ==
    LET whole(i) == /\ {i, i + 1} \subseteq DOMAIN contents
                    /\ contents[i] = "head" /\ contents[i + 1] = "tail"
    IN UNION {IF whole(i) \/ whole(i - 1) THEN {"key"} ELSE PlainText(contents[i]) :
                 i \in DOMAIN contents}

SpanEvent(name, opts, text) == [name |-> name, text |-> Clean(opts, text)]

-----------------------------------------------------------------------------
(***************************************************************************)
(* Info, with the two variables of WrapStream's callbacks (gotFirst and    *)
(* assembled), and the calls of onFirstToken                               *)
(***************************************************************************)
NewInfo(op) ==
    [operation |-> op, requestModel |-> NoName, responseModel |-> NoName,
     finishReasons |-> 0, input |-> 0, output |-> 0, firstTokenAt |-> 0,
     finished |-> FALSE, gotFirst |-> FALSE, assembled |-> <<>>, firstCalls |-> 0]

ParseRequest(provider, path, body) ==
    LET info == NewInfo(OperationFor(provider, path))
    IN IF body.valid THEN [info EXCEPT !.requestModel = body.model] ELSE info

(* The span events of a request: OpenAI's only for chat, Anthropic's with the
   system prompt in front; all of them as raw JSON *)
MessageEvents(body, opts) ==
    [i \in 1..body.messages |-> SpanEvent("message", opts, Items)]

AnthropicRequestEvents(body, opts) ==
    (IF body.system THEN <<SpanEvent("system", opts, Items)>> ELSE <<>>)
        \o MessageEvents(body, opts)

RequestEvents(provider, info, body, opts) ==
    IF ~ (opts.capture /\ body.valid) THEN <<>>
    ELSE IF provider = "anthropic" THEN AnthropicRequestEvents(body, opts)
    ELSE IF info.operation = "chat" THEN MessageEvents(body, opts)
    ELSE <<>>

(* The first of the counts that is set, else what is known already *)
Prefer(first, second, known) ==
    IF first > 0 THEN first ELSE IF second > 0 THEN second ELSE known

(* Breaks RecordedAsReported: the usage of the chunks is added up. *)
mergeOpenAIUsage_Sums(info, doc) ==
    [info EXCEPT !.input = @ + Prefer(doc.prompt, doc.input, 0),
                 !.output = @ + Prefer(doc.completion, doc.output, 0)]

mergeOpenAIUsage(info, doc) ==
    [info EXCEPT !.input = Prefer(doc.prompt, doc.input, @),
                 !.output = Prefer(doc.completion, doc.output, @)]

Named(info, doc) ==
    IF doc.model = NoName THEN info ELSE [info EXCEPT !.responseModel = doc.model]

Finishes(info, c) ==
    IF c.finish THEN [info EXCEPT !.finishReasons = @ + 1] ELSE info

(* What the loop over the choices makes of info *)
OpenAIResponse(info, doc) ==
    LET upto[k \in 0..Len(doc.choices)] ==
            IF k = 0 THEN Named(mergeOpenAIUsage(info, doc), doc)
            ELSE Finishes(upto[k - 1], doc.choices[k])
    IN upto[Len(doc.choices)]

AnthropicResponse(info, doc) ==
    [Finishes(Named(info, doc), doc) EXCEPT !.input = doc.input, !.output = doc.output]

ParseResponseJSON(provider, info, doc) ==
    IF doc = Malformed THEN info
    ELSE IF provider = "openai" THEN OpenAIResponse(info, doc)
    ELSE AnthropicResponse(info, doc)

OpenAIResponseEvents(info, doc, opts) ==
    IF info.operation # "chat" THEN <<>>
    ELSE [i \in DOMAIN doc.choices |->
             SpanEvent("choice", opts, RawText(doc.choices[i].content))]

AnthropicResponseEvents(doc, opts) ==
    IF ~ HasText(doc.content) THEN <<>>
    ELSE <<SpanEvent("choice", opts, PlainText(doc.content))>>

ResponseEvents(provider, info, doc, opts) ==
    IF ~ opts.capture \/ doc = Malformed THEN <<>>
    ELSE IF provider = "openai" THEN OpenAIResponseEvents(info, doc, opts)
    ELSE AnthropicResponseEvents(doc, opts)

responseAttrs(info) ==
    [model |-> info.responseModel, finishReasons |-> info.finishReasons,
     input |-> Prefer(info.input, 0, 0), output |-> Prefer(info.output, 0, 0)]

-----------------------------------------------------------------------------
(* Breaks CallbacksOnce: every delta is taken for the first. *)
FirstToken_Each(info, now) ==
    [info EXCEPT !.gotFirst = TRUE, !.firstTokenAt = now, !.firstCalls = @ + 1]

FirstToken(info, now) ==
    IF info.gotFirst THEN info
    ELSE [info EXCEPT !.gotFirst = TRUE, !.firstTokenAt = now, !.firstCalls = @ + 1]

Assemble(info, content, opts) ==
    IF opts.capture THEN [info EXCEPT !.assembled = Append(@, content)] ELSE info

(* One choice of a chunk.  The delta's content is raw JSON: null and "" are
   not the empty Go string. *)
Choice(info, c, now, opts) ==
    LET delta == c.content # "absent"
        counted == IF delta \/ c.tools THEN FirstToken(Finishes(info, c), now)
                   ELSE Finishes(info, c)
    IN IF delta THEN Assemble(counted, c.content, opts) ELSE counted

OpenAIEvent(info, doc, now, opts) ==
    LET upto[k \in 0..Len(doc.choices)] ==
            IF k = 0 THEN mergeOpenAIUsage(Named(info, doc), doc)
            ELSE Choice(upto[k - 1], doc.choices[k], now, opts)
    IN upto[Len(doc.choices)]

AnthropicEvent(info, doc, now, opts) ==
    CASE doc.type = "message_start" ->
            [Named(info, doc) EXCEPT !.input = Prefer(doc.input, 0, @)]
      [] doc.type = "text_delta" /\ HasText(doc.content) ->
            Assemble(FirstToken(info, now), doc.content, opts)
      [] doc.type = "input_json_delta" -> FirstToken(info, now)
      [] doc.type = "message_delta" ->
            [Finishes(info, doc) EXCEPT !.output = Prefer(doc.output, 0, @)]
      [] OTHER -> info

onEvent(provider, info, data, now, opts) ==
    LET doc == Unmarshal(data)
    IN IF doc = Malformed THEN info
       ELSE IF provider = "openai" THEN OpenAIEvent(info, doc, now, opts)
       ELSE AnthropicEvent(info, doc, now, opts)

(* The choice event of the tap's closer *)
Assembled(provider, info) ==
    IF provider = "openai" THEN RawDeltas(info.assembled) ELSE PlainDeltas(info.assembled)

AssembledEvents(provider, info, opts) ==
    IF opts.capture /\ info.assembled # <<>>
    THEN <<SpanEvent("choice", opts, Assembled(provider, info))>>
    ELSE <<>>
=============================================================================
