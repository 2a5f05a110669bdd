------------------------------ MODULE MCConfig ------------------------------
(* Instances of Config for TLC: groups of keys that decide together, each in
   the file, in the environment, in both or in neither. *)
EXTENDS Config, TLC

Base == [fileState |-> "good", file |-> <<>>, env |-> <<>>,
         meter |-> "good", pricing |-> "good", certificate |-> "good", clientCA |-> "good"]

Opt(key, values) == {<<>>} \cup {key :> v : v \in values}
Cross(A, B) == {a @@ b : a \in A, b \in B}
Given(files, envs) == {[Base EXCEPT !.file = f, !.env = e] : f \in files, e \in envs}

Hosts == {[host |-> h, port |-> TRUE] : h \in {"", "localhost", "loopback", "public"}}
         \cup {[host |-> h, port |-> FALSE] : h \in {"", "loopback", "public"}}
SetTLS == Cross(Opt("certFile", {"set"}), Opt("keyFile", {"set"}))
EnvTLS == Cross(Opt("certFile", {"", "set"}), Opt("keyFile", {"", "set"}))
FileAllow == Cross(Opt("allowInsecure", {TRUE}), Opt("clientCAFile", {"set"}))
EnvAllow == Cross(Opt("allowInsecure", {"true", "false", "junk"}), Opt("clientCAFile", {"", "set"}))
EnvListen == Cross(Opt("listen", Hosts), EnvTLS)
ListenerFiles == Cross(FileAllow, SetTLS)
ListenerEnvs == Cross(EnvAllow, EnvListen)
Listeners == Given(ListenerFiles, ListenerEnvs)

Endpoints == [host : {"", "localhost", "loopback", "private", "public"},
              port : BOOLEAN, bracket : {FALSE}]
             \cup [host : {"loopback", "private", "public"}, port : BOOLEAN, bracket : {TRUE}]
FileInsecure == Cross(Opt("insecure", {FALSE}), Opt("acknowledgeInsecure", {TRUE}))
EnvInsecure == Cross(Opt("insecure", {"true", "false", "junk"}), Opt("protocol", {"http", "tcp"}))
ExporterFiles == Cross(Opt("endpoint", Endpoints), FileInsecure)
ExporterEnvs == Cross(Opt("endpoint", Endpoints), EnvInsecure)
RatioFiles == Cross(Opt("sampleRatio", {-1, 0, 2, NaN}), Opt("headers", {{"file"}}))
RatioEnvs == Cross(Opt("sampleRatio", {"low", "high", "NaN", "junk"}), Opt("headers", {"pairs", "junk"}))
ContentFiles == Cross(Opt("mode", {"", "events", "all"}), Opt("redact", {"", "off", "none"}))
ContentEnvs == Opt("mode", {"", "logs", "all"})
Exporters == Given(ExporterFiles, ExporterEnvs) \cup Given(RatioFiles, RatioEnvs)
             \cup Given(ContentFiles, ContentEnvs)

One == Upstream("a", <<"/", "v1">>, "openai")
Pool == {One,
         [Upstream("b", <<"/", "v1", "/", "x">>, "anthropic") EXCEPT !.maxInFlight = 1],
         [Upstream("a", <<"/">>, "openai") EXCEPT !.target = "c", !.failures = 2],
         [Upstream("d", <<"/", "v1", "0">>, "openai") EXCEPT
             !.pins = <<[len |-> 64, hex |-> TRUE], [len |-> 64, hex |-> TRUE]>>, !.failures = 1],
         [Upstream("e", <<"/", "healthz", "-">>, "openai") EXCEPT !.maxInFlight = -1],
         [One EXCEPT !.name = "f", !.target = "f"]}
Faulty == {Upstream("g", <<"/", "healthz">>, "openai"),
           Upstream("g", <<"/", "readyz", "/", "x">>, "openai"),
           Upstream("g", <<"v1">>, "openai"), Upstream("g", <<>>, "openai"),
           Upstream("", <<"/", "g">>, "openai"), Upstream("g", <<"/", "g">>, "other")}
          \cup {[Upstream("g", <<"/", "g">>, "openai") EXCEPT !.target = t] : t \in {"", "unparsable"}}
          \cup {[Upstream("g", <<"/", "g">>, "openai") EXCEPT
                    !.pins = <<[len |-> 64, hex |-> TRUE], [len |-> n, hex |-> h]>>] :
                    n \in {62, 63, 64, 65}, h \in BOOLEAN}
          \cup {[Upstream("g", <<"/", "g">>, "openai") EXCEPT
                    !.failures = f, !.window = w, !.recovery = v] : f, w, v \in {-1, 0}}
Lists == UNION {[1..n -> Pool] : n \in 0..3} \cup {<<One, u>> : u \in Faulty}
Upstreams == Given({"upstreams" :> us : us \in Lists}, {<<>>})

PricingFiles == Cross(Opt("pricingPath", {"set"}), Opt("failOpen", {TRUE}))
TokenFiles == Cross(PricingFiles, Opt("tokens", {<<"hash">>, <<"hash", "malformed">>}))
OtherFiles == Cross(TokenFiles, Cross(SetTLS, Opt("clientCAFile", {"set"})))
Files ==
    {[Base EXCEPT !.fileState = s, !.pricing = p, !.certificate = c, !.clientCA = a,
                  !.file = f] :
        s \in {"good", "missing", "malformed"}, p, c, a \in {"good", "bad"}, f \in OtherFiles}
    \cup {[Base EXCEPT !.meter = "bad", !.file = f] : f \in TokenFiles}

AllSettings == Listeners \cup Exporters \cup Upstreams \cup Files

SomeWords == {"", "/", "v1", "0", "x", "y", "-", "healthz", "readyz", "other", "unparsable",
              "openai", "anthropic", "a", "b", "c", "d", "e", "f", "g"}
SomePaths == {<<"/">>, <<"/", "v1">>, <<"/", "v1", "0">>, <<"/", "v1", "/", "x">>,
              <<"/", "v1", "/", "x", "/", "y">>, <<"/", "v1", "/", "y">>,
              <<"/", "healthz">>, <<"/", "healthz", "-">>, <<"/", "other">>}
SomeRequests == [method : {"GET"}, path : SomePaths]
                \cup [method : {"other"}, path : {<<"/", "healthz">>, <<"/", "v1", "/", "x">>}]
=============================================================================
