----------------------------- MODULE MCExchange -----------------------------
(* Instances of Exchange for TLC. *)
EXTENDS Exchange, TLC

None == [finish |-> FALSE, content |-> "absent", tools |-> FALSE]
Chunk == [type |-> "chunk", model |-> "", prompt |-> 0, input |-> 0,
          completion |-> 0, output |-> 0, choices |-> <<>>]
Part == [type |-> "ping", model |-> "", input |-> 0, output |-> 0,
         finish |-> FALSE, content |-> "absent"]

(* OpenAI: usage under either pair of names or one count only, a model name,
   every kind of delta, one or two choices; Anthropic: every kind of event *)
ChunkDoc == [
    c1 |-> [Chunk EXCEPT !.prompt = 1, !.completion = 1, !.model = "m1"],
    c2 |-> [Chunk EXCEPT !.prompt = 2, !.input = 3, !.model = "m2"],
    c3 |-> [Chunk EXCEPT !.input = 3, !.output = 3, !.choices = <<[None EXCEPT !.finish = TRUE]>>],
    c4 |-> [Chunk EXCEPT !.choices = <<[None EXCEPT !.content = "empty"]>>],
    c5 |-> [Chunk EXCEPT !.choices = <<[None EXCEPT !.content = "text"],
                                       [None EXCEPT !.tools = TRUE, !.finish = TRUE]>>],
    c6 |-> [Chunk EXCEPT !.choices = <<[None EXCEPT !.content = "null"]>>],
    c7 |-> [Chunk EXCEPT !.prompt = -1, !.input = -1, !.completion = 2],
    c8 |-> [Chunk EXCEPT !.choices = <<[None EXCEPT !.content = "head"]>>],
    c9 |-> [Chunk EXCEPT !.choices = <<[None EXCEPT !.content = "tail"]>>]]
PartDoc == [
    p1 |-> [Part EXCEPT !.type = "message_start", !.input = 1, !.model = "m1"],
    p2 |-> [Part EXCEPT !.type = "message_start", !.input = 2],
    p3 |-> [Part EXCEPT !.type = "text_delta", !.content = "empty"],
    p4 |-> [Part EXCEPT !.type = "text_delta", !.content = "text"],
    p5 |-> [Part EXCEPT !.type = "input_json_delta"],
    p6 |-> [Part EXCEPT !.type = "message_delta", !.output = 1, !.finish = TRUE],
    p7 |-> [Part EXCEPT !.type = "message_delta", !.output = 2],
    p8 |-> Part,
    p9 |-> [Part EXCEPT !.type = "text_delta", !.content = "head"],
    p10 |-> [Part EXCEPT !.type = "text_delta", !.content = "tail"]]
BodyDoc == [
    b1 |-> [Part EXCEPT !.type = "message", !.input = 1, !.output = 2, !.model = "m1",
                        !.content = "text", !.finish = TRUE],
    b2 |-> [Part EXCEPT !.type = "message"],
    b3 |-> [Part EXCEPT !.type = "message", !.input = -1, !.output = 1]]
AllDoc == ChunkDoc @@ PartDoc @@ BodyDoc
AllModels == {"", "m0", "m1", "m2"}
AllBytes == {CR, LF, SP, "data:", "event:", "x", "}"} \cup DOMAIN AllDoc

Frame(k) == <<"data:", k, "}", LF, LF>>
Frames(keys) == UNION {{<<>>}, {Frame(a) : a \in keys},
                       {Frame(a) \o Frame(b) : a, b \in keys}}
Triples(keys) == {Frame(a) \o Frame(b) \o Frame(c) : a, b, c \in keys}
Torn(keys) == {SubSeq(Frame(a) \o Frame(b), 1, n) : a, b \in keys, n \in {6, 7, 8, 9}}
Spaced(keys) == {<<"data:", SP, a, "}", CR, LF, "data:", SP, CR, LF, CR, LF>> : a \in keys}

(* Every short stream of line ends, field names and letters, alone and behind
   letters that fill the parse buffer *)
Bytes == {CR, LF, "data:", "event:", "x"}
Filler == [i \in 1..maxEventBytes |-> "x"]
Raw == UNION {[1..n -> Bytes] : n \in 0..5} \cup [1..6 -> Bytes \ {"event:"}]
       \cup {Filler \o s : s \in UNION {[1..n -> Bytes] : n \in 0..4}}
       \cup {Filler \o s : s \in [1..5 -> Bytes \ {"event:"}]}

Chat == <<"v1", "chat", "completions">>
Request == [valid |-> TRUE, model |-> "m0", system |-> TRUE, messages |-> 1]
Call(provider, path, kind, body) ==
    [provider |-> provider, path |-> path, mode |-> "events", redact |-> "default",
     request |-> Request, kind |-> kind, body |-> body]

ChunkKeys == DOMAIN ChunkDoc
PartKeys == DOMAIN PartDoc

StreamCalls ==
    {Call("openai", Chat, "stream", s) :
        s \in Raw \cup Frames(ChunkKeys) \cup Torn({"c1", "c2", "c5"})
             \cup Spaced({"c5"}) \cup [1..5 -> {"data:", "x", SP, LF}]}
    \cup {Call("anthropic", <<"v1", "messages">>, "stream", s) :
        s \in Frames(PartKeys) \cup Torn({"p1", "p4", "p6"})
              \cup Triples({"p1", "p4", "p5", "p6"})}
WholeCalls ==
    {Call("openai", Chat, "json", <<k, "}">>) : k \in ChunkKeys}
    \cup {Call("anthropic", <<"v1", "messages">>, "json", <<k, "}">>) : k \in DOMAIN BodyDoc}
    \cup {Call("openai", Chat, "json", s) :
              s \in {<<"c1", "SP", "}">>, <<"c1", "SP", "SP", "}">>, <<"c1", "}", "SP", "SP">>}}

(* Every content setting and the odd requests and paths, on a few answers *)
Settings ==
    {[c EXCEPT !.mode = m, !.redact = r] : m \in {"off", "events", "logs"},
        r \in {"", "off", "default", "strict"},
        c \in {Call("openai", Chat, k, <<"c5", "}">>) : k \in {"json", "error"}}
              \cup {Call("anthropic", <<"v1", "messages">>, k, <<"b1", "}">>) : k \in {"json", "error"}}
              \cup {Call("openai", Chat, "stream", Frame("c5")),
                    Call("anthropic", <<"v1", "messages">>, "stream", Frame("p4"))}}
Requests ==
    {[c EXCEPT !.request.valid = v, !.path = p] : v \in BOOLEAN,
        p \in {Chat, <<"v1", "messages">>, <<"v1", "embeddings">>, Append(Chat, ""),
               <<"v1", "files">> \o Chat, <<"v1", "files", "embeddings">>,
               <<"openai", "deployments", "d", "chat", "completions">>,
               <<"v1", "", "x", "..", "messages">>, <<"..", "messages">>, <<>>},
        c \in {Call("openai", Chat, "json", <<"c1", "}">>),
               Call("anthropic", Chat, "json", <<"b1", "}">>)}}

AllCalls == StreamCalls \cup WholeCalls \cup Settings \cup Requests
=============================================================================
