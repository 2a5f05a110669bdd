------------------------------- MODULE Config -------------------------------
(***************************************************************************)
(* From the operator's settings to a serving process: Default, Load,       *)
(* applyEnv, Validate and Match of src/internal/config/config.go, what     *)
(* proxy.New, NewServer and Server.Run build from the result, and the      *)
(* routing of requests through it.  Lifecycle models the same start as     *)
(* steps that succeed or fail; here are the values that decide it.         *)
(*                                                                         *)
(* A configuration is a record with one field for each key.  Addresses are *)
(* records of the parts SplitHostPort tells apart; a prefix or a path is a *)
(* sequence of symbols with "/" one of them, so that "/v1" is a prefix of  *)
(* "/v10".  A pin is its length and whether it is hexadecimal.             *)
(***************************************************************************)
EXTENDS Integers, Sequences

CONSTANTS
    Settings,   \* what the operator gives: the file and the environment, as
                \* functions on some of the keys, and the state of other files
    Words,      \* the words that names, prefixes and paths are made of
    Requests    \* requests: method and path

(* An upstream's entry in the file, with the keys that are left out at zero *)
UpstreamType ==
    [name : Words, prefix : Seq(Words), target : Words, provider : Words,
     pins : Seq([len : Nat, hex : BOOLEAN]),
     maxInFlight : Int, failures : Int, window : Int, recovery : Int]

(* No environment variable sets the list of upstreams *)
ASSUME ConfigAssumption ==
    /\ {"/", "v1", "openai", "anthropic"} \subseteq Words
    /\ Requests \subseteq [method : {"GET", "other"}, path : Seq(Words)]
    /\ \A g \in Settings :
           /\ "upstreams" \notin DOMAIN g.env
           /\ "upstreams" \in DOMAIN g.file => g.file["upstreams"] \in Seq(UpstreamType)

NaN == 1000     \* a sample ratio that compares with nothing
Less(a, b) == a # NaN /\ b # NaN /\ a < b

VARIABLES
    given,      \* one of Settings
    stage,      \* the step that is due, "serving" or "refused"
    cfg,
    errs,       \* keys that Validate complains about
    failed,     \* what New or NewServer failed on, if they did
    rps,        \* the reverse proxies: the target of each upstream name
    upstreamSem, breakers,
    listener,   \* how the listener serves
    routed      \* the last request, and its upstream and target

vars == <<given, stage, cfg, errs, failed, rps, upstreamSem, breakers, listener, routed>>

built == <<rps, upstreamSem, breakers>>

Upstream(name, prefix, provider) ==
    [name |-> name, prefix |-> prefix, target |-> name, provider |-> provider,
     pins |-> <<>>, maxInFlight |-> 0, failures |-> 0, window |-> 0, recovery |-> 0]

Default ==
    [listen |-> [host |-> "loopback", port |-> TRUE], allowInsecure |-> FALSE,
     certFile |-> "", keyFile |-> "", clientCAFile |-> "",
     upstreams |-> <<Upstream("openai", <<"/", "v1">>, "openai"),
                     Upstream("anthropic", <<"/", "anthropic">>, "anthropic")>>,
     endpoint |-> [host |-> "localhost", port |-> TRUE, bracket |-> FALSE],
     protocol |-> "grpc", insecure |-> TRUE, acknowledgeInsecure |-> FALSE,
     headers |-> {}, sampleRatio |-> 1, mode |-> "off", redact |-> "default",
     pricingPath |-> "", failOpen |-> FALSE, tokens |-> <<>>]

NotRouted == [asked |-> [method |-> "other", path |-> <<>>], by |-> "none"]

Init ==
    /\ given \in Settings
    /\ stage = "load"
    /\ cfg = Default
    /\ errs = {} /\ failed = {}
    /\ rps = <<>> /\ upstreamSem = <<>> /\ breakers = <<>>
    /\ listener = [tls |-> FALSE, clientCert |-> FALSE]
    /\ routed = NotRouted

Refuse(why) ==
    /\ stage' = "refused"
    /\ failed' = why
    /\ UNCHANGED <<given, cfg, listener, routed, built>>

-----------------------------------------------------------------------------
(* Load: the YAML file over the defaults, key by key; lists are replaced and
   unknown keys ignored *)
ReadFile ==
    /\ stage = "load"
    /\ given.fileState = "good"
    /\ cfg' = [k \in DOMAIN cfg |-> IF k \in DOMAIN given.file THEN given.file[k] ELSE cfg[k]]
    /\ stage' = "env"
    /\ UNCHANGED <<given, errs, failed, listener, routed, built>>

ReadFileFails ==
    /\ stage = "load"
    /\ given.fileState # "good"
    /\ Refuse({"file"})
    /\ UNCHANGED errs

Clamp(f) == IF Less(f, 0) THEN 0 ELSE IF Less(1, f) THEN 1 ELSE f

(* The value an environment variable sets; "junk" does not parse *)
FromEnv(key, v, old) ==
    IF key \in {"listen", "endpoint"} THEN v
    ELSE IF v = "junk" THEN old
    ELSE CASE key \in {"allowInsecure", "insecure"} -> v = "true"
           [] key = "headers" -> IF v = "pairs" THEN {"env"} ELSE old
           [] key = "sampleRatio" ->
                 Clamp(IF v = "NaN" THEN NaN ELSE IF v = "low" THEN -1 ELSE 2)
           [] OTHER -> v

applyEnv ==
    /\ stage = "env"
    /\ cfg' = [k \in DOMAIN cfg |-> IF k \in DOMAIN given.env
                                     THEN FromEnv(k, given.env[k], cfg[k]) ELSE cfg[k]]
    /\ stage' = "validate"
    /\ UNCHANGED <<given, errs, failed, listener, routed, built>>

-----------------------------------------------------------------------------
(* strings.HasPrefix *)
HasPrefix(s, p) == Len(p) <= Len(s) /\ SubSeq(s, 1, Len(p)) = p

TLSEnabled(c) == c.certFile # "" \/ c.keyFile # ""
MTLS(c) == c.clientCAFile # ""

isLoopbackAddr(l) == l.port /\ l.host \in {"localhost", "loopback"}

(* Without a port the brackets of an IPv6 address stay and do not parse *)
isLocalEndpoint(e) ==
    /\ e.host \in {"localhost", "loopback", "private"}
    /\ e.port \/ ~ e.bracket

Reserved == {<<"/", "healthz">>, <<"/", "readyz">>}
isReservedPrefix(p) == \E r \in Reserved : p = r \/ HasPrefix(p, r \o <<"/">>)

isHex64(pin) == pin.len = 64 /\ pin.hex

(* Breaks ValidateCoversNew: only the first pin of an upstream is looked at. *)
PinErrors_FirstOnly(u) == u.pins # <<>> /\ ~ isHex64(u.pins[1])

PinErrors(u) == \E j \in DOMAIN u.pins : ~ isHex64(u.pins[j])

Wrong(key, us, i) ==
    CASE key = "name" -> us[i].name = ""
      [] key = "prefix" -> us[i].prefix = <<>> \/ us[i].prefix[1] # "/"
      [] key = "reserved" -> isReservedPrefix(us[i].prefix)
      [] key = "duplicate" -> \E j \in 1..(i - 1) : us[j].prefix = us[i].prefix
      [] key = "target" -> us[i].target \in {"", "unparsable"}
      [] key = "provider" -> us[i].provider \notin {"openai", "anthropic"}
      [] key = "pins" -> PinErrors(us[i])
      [] key = "breaker" -> us[i].failures < 0 \/ us[i].window < 0 \/ us[i].recovery < 0

UpstreamErrors(us) ==
    {e \in {"name", "prefix", "reserved", "duplicate", "target", "provider", "pins",
            "breaker"} \X DOMAIN us : Wrong(e[1], us, e[2])}

(* Breaks NoUnacknowledgedPlaintext: one of the two TLS files is enough. *)
ListenerErrors_HalfPair(c) ==
    {key \in {"listen", "clientCA", "plaintext"} :
        CASE key = "listen" -> c.listen.host = "" /\ ~ c.listen.port
          [] key = "clientCA" -> MTLS(c) /\ ~ TLSEnabled(c)
          [] key = "plaintext" -> /\ ~ TLSEnabled(c) /\ ~ c.allowInsecure
                                  /\ ~ isLoopbackAddr(c.listen)}

ListenerErrors(c) ==
    {key \in {"listen", "pair", "clientCA", "plaintext"} :
        CASE key = "listen" -> c.listen.host = "" /\ ~ c.listen.port
          [] key = "pair" -> (c.certFile = "") # (c.keyFile = "")
          [] key = "clientCA" -> MTLS(c) /\ ~ TLSEnabled(c)
          [] key = "plaintext" -> /\ ~ TLSEnabled(c) /\ ~ c.allowInsecure
                                  /\ ~ isLoopbackAddr(c.listen)}

OtherErrors(c) ==
    {key \in {"upstreams", "protocol", "sampleRatio", "endpoint", "mode", "redact"} :
        CASE key = "upstreams" -> c.upstreams = <<>>
          [] key = "protocol" -> c.protocol \notin {"grpc", "http"}
          [] key = "sampleRatio" -> Less(c.sampleRatio, 0) \/ Less(1, c.sampleRatio)
          [] key = "endpoint" -> /\ c.insecure /\ ~ c.acknowledgeInsecure
                                 /\ ~ isLocalEndpoint(c.endpoint)
          [] key = "mode" -> c.mode \notin {"off", "events", "logs", ""}
          [] key = "redact" -> c.redact \notin {"off", "default", "strict", ""}}

Validate ==
    /\ stage = "validate"
    /\ errs' = {<<key, 0>> : key \in ListenerErrors(cfg) \cup OtherErrors(cfg)}
               \cup UpstreamErrors(cfg.upstreams)
    /\ \/ /\ errs' # {}
          /\ Refuse({"config"})
       \/ /\ errs' = {}
          /\ stage' = "new"
          /\ cfg' = [cfg EXCEPT !.mode = IF @ = "" THEN "off" ELSE @,
                                !.redact = IF @ = "" THEN "default" ELSE @]
          /\ UNCHANGED <<given, failed, listener, routed, built>>

-----------------------------------------------------------------------------
(* parsePins: hexadecimal, an even number of digits, 32 bytes *)
parsePins(u) ==
    \A j \in DOMAIN u.pins : /\ u.pins[j].hex /\ u.pins[j].len % 2 = 0
                             /\ u.pins[j].len \div 2 = 32

(* New's maps over the names of the upstreams: a later entry of the same name
   replaces an earlier one; a limit of 0 makes no semaphore and no breaker *)
ByName(us, key) ==
    LET has == {i \in DOMAIN us : key \in {"maxInFlight", "failures"} => us[i][key] > 0}
        at(n) == {i \in has : us[i].name = n}
    IN [n \in {us[i].name : i \in has} |->
           us[CHOOSE i \in at(n) : \A j \in at(n) : j <= i][key]]

(* What New can fail on; it returns the first that it meets *)
Failures(c) ==
    {key \in {"provider", "target", "pins", "instruments", "pricing", "auth"} :
        CASE key = "provider" -> \E i \in DOMAIN c.upstreams :
                                     c.upstreams[i].provider \notin {"openai", "anthropic"}
          [] key = "target" -> \E i \in DOMAIN c.upstreams : c.upstreams[i].target = "unparsable"
          [] key = "pins" -> \E i \in DOMAIN c.upstreams : ~ parsePins(c.upstreams[i])
          [] key = "instruments" -> given.meter = "bad"
          [] key = "pricing" -> c.pricingPath # "" /\ given.pricing = "bad" /\ ~ c.failOpen
          [] key = "auth" -> \E j \in DOMAIN c.tokens : c.tokens[j] = "malformed"}

New ==
    /\ stage = "new"
    /\ \/ \E why \in Failures(cfg) : Refuse({why})
       \/ /\ Failures(cfg) = {}
          /\ stage' = "server"
          /\ rps' = ByName(cfg.upstreams, "target")
          /\ upstreamSem' = ByName(cfg.upstreams, "maxInFlight")
          /\ breakers' = ByName(cfg.upstreams, "failures")
          /\ UNCHANGED <<given, cfg, failed, listener, routed>>
    /\ UNCHANGED errs

(* The certificate manager's first Load, and the client CA *)
ServerFailures(c) ==
    {key \in {"certificate", "clientCA"} :
        CASE key = "certificate" -> TLSEnabled(c) /\ given.certificate = "bad"
          [] key = "clientCA" -> TLSEnabled(c) /\ MTLS(c) /\ given.clientCA = "bad"}

NewServer ==
    /\ stage = "server"
    /\ \/ \E why \in ServerFailures(cfg) : Refuse({why})
       \/ /\ ServerFailures(cfg) = {}
          /\ stage' = "listen"
          /\ listener' = [listener EXCEPT !.clientCert = TLSEnabled(cfg) /\ MTLS(cfg)]
          /\ UNCHANGED <<given, cfg, failed, routed, built>>
    /\ UNCHANGED errs

(* Run: tlsEnabled chooses between ServeTLS and Serve *)
Run ==
    /\ stage = "listen"
    /\ \/ /\ ~ cfg.listen.port
          /\ Refuse({"listen"})
       \/ /\ cfg.listen.port
          /\ stage' = "serving"
          /\ listener' = [listener EXCEPT !.tls = cfg.certFile # "" /\ cfg.keyFile # ""]
          /\ UNCHANGED <<given, cfg, failed, routed, built>>
    /\ UNCHANGED errs

-----------------------------------------------------------------------------
(* Breaks RoutedByLongestPrefix: the first upstream that matches is taken. *)
Match_First(path) ==
    LET at == {i \in DOMAIN cfg.upstreams : HasPrefix(path, cfg.upstreams[i].prefix)}
    IN IF at = {} THEN 0 ELSE CHOOSE i \in at : \A j \in at : i <= j

(* Match: the loop over the upstreams, with the best after i of them; 0 is none *)
Match(path) ==
    LET us == cfg.upstreams
        bestLen(i) == IF i = 0 THEN -1 ELSE Len(us[i].prefix)
        best[i \in 0..Len(us)] ==
            IF i = 0 THEN 0
            ELSE IF HasPrefix(path, us[i].prefix) /\ Len(us[i].prefix) > bestLen(best[i - 1])
                 THEN i
            ELSE best[i - 1]
    IN best[Len(us)]

(* The health probes are answered for GET only *)
answeredHere(r) == r.method = "GET" /\ r.path \in Reserved

(* ServeHTTP as far as matchUpstream, for a request that is authorised, and what
   admit finds under the upstream's name *)
Route(r) ==
    /\ stage = "serving"
    /\ LET i == Match(r.path)
           name == cfg.upstreams[i].name
       IN routed' = CASE answeredHere(r) -> [asked |-> r, by |-> "health"]
                      [] ~ answeredHere(r) /\ i = 0 -> [asked |-> r, by |-> "none"]
                      [] ~ answeredHere(r) /\ i > 0 ->
                            [asked |-> r, by |-> "upstream", at |-> i, target |-> rps[name],
                             limit |-> IF name \in DOMAIN upstreamSem THEN upstreamSem[name] ELSE 0,
                             failures |-> IF name \in DOMAIN breakers THEN breakers[name] ELSE 0]
    /\ UNCHANGED <<given, stage, cfg, errs, failed, listener, built>>

Next ==
    \/ ReadFile \/ ReadFileFails \/ applyEnv \/ Validate \/ New \/ NewServer \/ Run
    \/ \E r \in Requests : Route(r)

Spec == Init /\ [][Next]_vars

-----------------------------------------------------------------------------
(* A process that serves in plaintext beyond the loopback interface, or exports
   in plaintext to a host that is not local, was told to in so many words; one
   that was given a client CA serves TLS and demands client certificates.  The
   decision is Validate's, on what file and environment left, with Enabled (one
   TLS file); the listener goes by tlsEnabled (both), the server's TLS settings
   by ClientCAFile (Validate, TLS.Enabled, NewServer, Run). *)
NoUnacknowledgedPlaintext ==
    stage = "serving" =>
        /\ \/ listener.tls
           \/ cfg.listen.host \in {"localhost", "loopback"}
           \/ cfg.allowInsecure
        /\ cfg.clientCAFile # "" => listener.tls /\ listener.clientCert
        /\ \/ ~ cfg.insecure
           \/ cfg.endpoint.host \in {"localhost", "loopback", "private"}
           \/ cfg.acknowledgeInsecure

(* A configuration that Validate accepts fails to start only on what Validate
   cannot see, the contents of other files, the address, the token hashes and
   the meter's instruments: the checks New repeats on providers, targets and pins
   find nothing (Validate, isHex64; New, parsePins). *)
ValidateCoversNew ==
    errs = {} => failed \subseteq {"file", "instruments", "pricing", "auth", "certificate",
                                   "clientCA", "listen"}

DistinctNames ==
    \A i, j \in DOMAIN cfg.upstreams :
        cfg.upstreams[i].name = cfg.upstreams[j].name => i = j

(* A request goes to the upstream with the longest prefix of its path, which is
   one whatever the order of the list; only a GET of a health path, and a path
   without a match, goes to none (ServeHTTP, Validate's duplicate check, Match,
   matchUpstream).  Where no two upstreams share a name, the reverse proxy, the
   limit (if it is positive) and the breaker are that upstream's own (New). *)
RoutedByLongestPrefix ==
    LET us == cfg.upstreams
        matching == {i \in DOMAIN us : HasPrefix(routed.asked.path, us[i].prefix)}
    IN /\ stage = "serving" /\ routed.by = "none" => matching = {}
       /\ routed.by = "health" => routed.asked.method = "GET" /\ routed.asked.path \in Reserved
       /\ routed.by = "upstream" =>
              /\ routed.at \in matching
              /\ routed.asked.method = "GET" => routed.asked.path \notin Reserved
              /\ \A i \in matching \ {routed.at} : Len(us[i].prefix) < Len(us[routed.at].prefix)
              /\ DistinctNames => /\ routed.target = us[routed.at].target
                                  /\ routed.limit = IF us[routed.at].maxInFlight > 0
                                                    THEN us[routed.at].maxInFlight ELSE 0
                                  /\ routed.failures = us[routed.at].failures

(* What the comment on Upstream says: it "binds a path prefix to an upstream LLM
   API".  Two upstreams of one name pass Validate and share the reverse proxy of
   the later one, so requests for the earlier prefix go to the other target. *)
PrefixBoundToTarget ==
    routed.by = "upstream" => routed.target = cfg.upstreams[routed.at].target

(* What Validate's message says of the sample ratio: it "must be in [0,1]".  A
   ratio that is not a number passes the clamp and the check. *)
RatioInRange == stage = "serving" => cfg.sampleRatio \in {0, 1}
=============================================================================
