# llmtap in TLA+

llmtap is a proxy between LLM clients and LLM providers. It forwards each call
unchanged and records spans and metrics about it on the way. This directory
holds a formal model of its concurrent and stateful parts: TLA+ modules
translated from the Go sources, TLC configurations that check them on small
instances, and TLAPS proofs that hold for instances of every size.

`PROJECT.json` ties every definition to the source lines it models, every run
to its properties, every property to a mutation of the model that breaks it,
and every known hazard of the code to the properties that cover it.

## 1. Inventory of the system

| part | source | state | operations |
|---|---|---|---|
| circuit breaker | `internal/proxy/breaker.go` | state, failure count, last failure, opening time, probe flag, under a mutex | `admit`, `report`, `trip` |
| request pipeline | `internal/proxy/proxy.go` | one semaphore and one breaker per upstream, in-flight gauge, status of each response | `ServeHTTP`: gates, `admit`, `dispatch`, `captureHeadAndForward`, `release` |
| response end, shutdown | `internal/proxy/proxy.go`, `server.go`, `cmd/llmtap/main.go` | `activeStreams`, the `sync.Once` of each body, the flag of `finalize`, contexts | `modify`, `parseOnClose`, `finalize`, `WaitForStreams`, `Run`, `runUp` |
| token verifier | `internal/auth/auth.go` | cache and order slice under a mutex, semaphore | `Verify`, `cacheLookup`, `cacheStore` |
| certificate manager | `internal/proxy/certmgr.go` | served pair, recorded modification times | `Load`, `loadAtomicPair`, `checkAndReload`, `Watch`, `Get` |
| model label cap | `internal/labels/labels.go` | `sync.Map` and atomic counter | `Normalize` |
| server-sent-event tap | `internal/provider/sse.go` | parse buffer, once | `Read`, `Close`, `drain`, `findFrameBoundary`, `splitSSELines` |
| provider parsers | `internal/provider/openai.go`, `anthropic.go` | `Info` of the call | `OperationFor`, `ParseRequest`, `ParseResponseJSON`, `WrapStream`'s `onEvent` and `closer` |
| recording of a call | `internal/proxy/proxy.go` | the call's `Info`, span and captured answer | `dispatch`, `responseInterceptor`: `modify`, `finalize` |
| pricing | `internal/pricing/pricing.go` | a byte trie per system | `Load`, `insert`, `lookup` |
| configuration | `internal/config/config.go` | none after loading | `Load`, `applyEnv`, `Validate`, `Match` |
| redaction | `internal/redact/redact.go` | none | `Apply` |
| telemetry set-up | `internal/telemetry/telemetry.go` | SDK providers | `Setup`, `Shutdown` |
| upstream transport, pinning | `internal/proxy/proxy.go` | none | `buildUpstreamTransport` |
| command line, logging | `cmd/llmtap/main.go` | none | flags, `hash-token`, log fan-out |

How they interact: a request passes the token verifier, is matched to an
upstream, is admitted by that upstream's breaker and then by its semaphore, and
is handed to `httputil.ReverseProxy`. The response body is wrapped; for a
stream the wrapper is the tap, whose callbacks feed the provider's parser. When the
body ends or is closed the call is finalized: its model name becomes a label,
its usage a price, and the span and metrics are recorded. On a signal the
server waits for streams, then for handlers, then telemetry is flushed.

What is hard to test in it: requests reporting to a breaker that has changed
state since they were admitted; early exits that must give back what was taken;
goroutines between two atomic operations of `Normalize` or two lock regions of
`Verify`; a file rotation between two system calls; a signal, a deadline and
ending streams in any order; frames cut by reads at any byte. The list, at the
lines where each bites, is in `PROJECT.json` under `hazards`.  The start adds
another kind: settings that override each other and are checked in one place
(`Validate`) and relied on in others (`New`, `NewServer`, `Run`).

## 2. Modules

| module | models | notes |
|---|---|---|
| `BreakerFSM` | `breaker.go` | the breaker's fields and one operator per method; shared by the next two |
| `Breaker` | callers of the breaker | requests admit and report in any order, time passes |
| `Fuse` | the abstract promise | closed lets through; open stops everything for the recovery window; half-open means one has been let through |
| `Gateway` | `ServeHTTP` with breaker, semaphore and gauge | composition of pipeline and `BreakerFSM`; also implements `Fuse` |
| `Telemetry` | `telemetry.Setup` and `Shutdown` | one action per construction or shutdown call; part of `Lifecycle` |
| `Lifecycle` | `runUp`, `Run`, and the end of every response | main goroutine, composed with `Telemetry`, and one goroutine per exchange |
| `Labels` | `Normalize` | one action per atomic operation |
| `Auth` | `Verifier` | one action per lock region or channel operation |
| `CertManager` | certificate manager and the operator's writes | one action per system call |
| `SSE` | `sseTee` | the tap's state, parser functions and actions, without a next-state relation of its own |
| `Enrich` | parsers of both providers, redaction | functions from a call's `Info` to the next one |
| `Exchange` | `dispatch` and `responseInterceptor` | composition of `SSE` and `Enrich`: one call from its request to its record |
| `Config` | configuration, and the start as it depends on it | `Load`, `applyEnv`, `Validate`, `New`, `NewServer`, `Run`, then requests by `Match` |
| `Pricing` | `Load` and the trie | insertion in any order |
| `MC…` | | instances for TLC |
| `BreakerProofs`, `GatewayProofs`, `ServerProofs`, `StartProofs`, `RecordProofs`, `SSEProofs`, `ExchangeProofs`, `EventSourceProofs` | | theorems and proofs; `ServerProofs` is about `Lifecycle` and `Auth`, `StartProofs` about `Config` and `CertManager`, `RecordProofs` about `Labels` and `Pricing`; `ExchangeProofs` and `EventSourceProofs` extend `SSEProofs` |

Correspondence, where it is not one definition per function:

* `Gateway`. `pc` is the place of a request's goroutine in `ServeHTTP`. A step
  is the code between two accesses to shared state. `Arrive` to `PassGates` are
  the gates; the answer of the token verifier is a free choice (`Auth` says what
  it may be). `SemFull` and `Rollback` are the `default` branch of the
  semaphore's `select`, split because the breaker may change in between.
  `Forward` to `Upgrade` are what `ReverseProxy` may do with the response
  writer. `Handle` are the steps a goroutine takes by itself; in `Exchange` it
  waits for the client's body or for the upstream. Breakers and semaphores of different upstreams share nothing, so one
  upstream is modelled, with a breaker configured; a body is a length, announced or
  not, that can be read or not.
* `Lifecycle`. `onClose` is `once.Do` with the wrapper's callback; `DecStreams`
  and `FinalizeInCallback` are the two effects of the stream's callback, apart
  because the shutdown path reads the counter in between. Keep-alive
  connections are not modelled: a connection is busy while its handler runs.
  `Setup` and `FlushTelemetry` take the steps of `Telemetry`; a record is kept
  if the tracer and the meter are up when `finalize` makes it.
* `CertManager`. A file holds the PEM of a generation, a torn PEM, or is
  missing. The operator writes the files in either order, with an optional
  intermediate state of each. Every write gives a modification time that no
  file had before; on a file system with coarse timestamps that need not be so.
* `Auth`. The plaintext stands for its SHA-256, and argon2 matches exactly the
  allow-listed tokens.
* `Labels`. A model string is its base, its case and its number of suffixes:
  what lowercasing and the suffix expression look at.
* `SSE`. `data:` and `event:` are single symbols: the parser looks inside a
  field name only when a frame is complete. `maxEventBytes` is 10 in place of a
  mebibyte.
* `Enrich`. A JSON document is a symbol that names its fields and a closing
  `"}"`, with optional white space; anything else, a torn document included, does
  not parse. Content is absent, `null`, `""`, text, or one of the two parts of a
  key that two deltas carry; a chunk may have several choices. A captured text is
  the set of the sensitive items in it. A redaction profile removes the kinds it
  has patterns for, where an item stands whole and alone. `"part"` is an item that
  no pattern matches: half of one, one with quotes inside, or one behind the
  letter of a JSON escape (the patterns start at a word boundary). Raw JSON text
  may hold it (`RawText`: messages, OpenAI answers and deltas, which are
  concatenated with their quotes), and so may the error snippet, which is cut
  before it is cleaned; decoded deltas of Anthropic join to whole items
  (`PlainDeltas`).
* `Exchange`. An answer is read in pieces of any size by a reader that may
  stop, fail or close at any point. `maxEnrichmentBodyBytes` is 3 symbols. Of the
  body cap and the admission before it see `Gateway`; of several calls at once
  see `Lifecycle`.
* `Config`. A configuration is a record with one field per key; the file and the
  environment are functions on some of the keys. A prefix is a sequence of
  symbols (`Words`) with `"/"` one of them, so that `/v1` is a prefix of `/v10`; an address
  is the parts that `SplitHostPort` tells apart; a pin is its length and whether
  it is hexadecimal. Where `New` returns the first error it meets, the model lets
  any of them be returned; an instrument that the meter refuses is one of them. A
  request is its method, GET or another, and its path: `/healthz` and `/readyz`
  are answered for GET only. Timeouts and names on which nothing branches are
  left out.
* `Pricing`. A rate is a name; a trie node is the path to it. `Walk` is the walk
  of `lookup` from the root, which ends at the first byte without a child.
* Loops whose result a proof is about (`drain`, `splitSSELines`, the fields of a
  frame, the choices of a chunk, the events of one Read, `Match`) are recursive
  functions from the number of iterations to the state after them.

Definitions called `Op_What` are mutations: a plausible error in the code that
`Op` models. Each says which property it breaks; nothing else uses them.

## 3. Properties that are checked

| run | instance | result |
|---|---|---|
| `breaker` | 3 requests, 3 failures to trip, a window of 4 half-second ticks, which is the recovery window by default, `MaxTime = 12` | the probe slot is never lost (`ProbeSlotHeld`), an open breaker dates from the last failure anyone reported (`OpenSinceLastFailure`), the counter is the length of the run of failures (`CountIsRun`), no failure time outlives its run, Retry-After is bounded, and the breaker implements `Fuse` |
| `gateway` | 2 requests, 1 slot, 1 failure to trip, body cap 1 and enrichment buffer 2; bodies of 1 and 3 announced, of 2 to 4 not, and a broken one | slots are neither leaked nor exceeded, the probe slot is kept through every exit, the gauge is balanced, the pipeline implements `Fuse`. `CapRespected`: no announced body above the cap is forwarded, and of the others only that of one byte more than the buffer passes whole. `BreakerHearsOutcome`: the breaker hears the client's final code, except after a 1xx or for an upgrade. Every request is answered and the half-open state resolves, unless the client or the upstream keeps a request waiting for ever |
| `lifecycle` | 3 exchanges | the stream counter is exact, every exchange is recorded once, a clean exit loses no record, providers are shut down in the reverse of their construction when `Setup` fails half-way and when `Run` returns; after a signal the process exits |
| `labels` | 3 goroutines, 3 labels, cap 2 | at rest the map and the counter respect the cap, an accepted label stays, `_other` is returned only when the cap is used up |
| `auth` | 3 goroutines, 5 tokens, cache of 2, 2 slots | only verified tokens are cached and answered ok; slots and cache stay within bounds; the order slice covers the cache |
| `cert` | 3 generations (one keeps its key), 2 attempts | no mixed pair is served; unchanged times mean nothing was missed; the watcher catches up with a finished rotation |
| `exchange` | every stream of up to 5 of 5 symbols (6 of 4), also behind letters that fill the buffer; frames of 19 documents, whole and torn; JSON and error answers; every content setting; 10 paths | reads cannot be told apart by what is parsed (`ChunkingInvisible`); the buffer is bounded; uniform line ends give the frames and lines of the EventSource rules; what is recorded is what the upstream last reported, or nothing (`RecordedAsReported`); callbacks run once; content is captured only when asked for, and goes through the profile on every path, so that no item it masks stands whole in it |
| `pricing` | 3 letters, prefixes up to 2, models up to 3, all files of up to 2 entries | the longest prefix wins; defaults not overridden survive |
| `config` | groups of keys in the file, the environment, both or neither; lists of up to 3 of 6 upstreams, and one faulty upstream of each kind; unreadable files | no process serves or exports in plaintext unless that is local or acknowledged, and a client CA is enforced (`NoUnacknowledgedPlaintext`); what `Validate` is there to check never fails later (`ValidateCoversNew`); a request that is not a health probe goes to the upstream with the longest prefix, with that upstream's target and limits if its name is its own (`RoutedByLongestPrefix`) |

Bounds. Three requests are what the breaker's interleavings need: a straggler
from before the trip, the probe, and one that is refused. One slot and two
requests reach the full semaphore, also with a straggler in the slot and the
probe refused by it; a third would only be refused without a trace. A cap of one below a buffer of
two is the order in which the buffer's extra byte matters; the order of the
default configuration, with the cap above the buffer, is covered by the proof,
which assumes neither. Three goroutines against a cap of two let
two of them pass the first check of `Normalize` and overshoot together. A cache
of two with three allowed tokens evicts; time reaches past two TTLs. Two
attempts reach retry and giving up; two rotations reach a load that mixes
three generations. Six symbols hold the longest terminator with a symbol on
either side, and behind ten letters they cross the end of the buffer. Two frames
let a later report replace an earlier one, and three an Anthropic call start,
speak and end; an answer of four symbols crosses the three that are kept. Three
upstreams let two prefixes nest in a third in any order, and two of them share a
name. Clocks and lengths are bounded by `MaxTime`, `MaxGen`, `MaxPrefix`,
`MaxModel` in guards; calls and settings are the sets in the `MC` modules.
Symmetry is used only in runs without liveness. The modules state their types as
`TypeOK`, which is not listed as a property of a run.

Deadlock is checked except where the system stops by itself: the process exits
(`Lifecycle`), the manager is stopped (`CertManager`), a call is recorded
(`Exchange`), the start is refused (`Config`), loading ends (`Pricing`).

Fairness. `Gateway`: a handler goroutine keeps running while it does not wait
for a peer (`Handle`), because `release` is deferred and the semaphore's `select`
has a default. Nothing is assumed of clients and upstreams: the timeout on
reading a body may be configured away, the transport bounds the wait for a header
and not for a body, and the server sets no write timeout. So the two liveness
properties say that a request is answered, and the half-open state ends, or that
one request is with its client or upstream from some time on (`AtPeers`). `CertManager`: the watcher's ticker fires and its system
calls return; the operator may stop half way. `Lifecycle`: the main goroutine
runs and the deadline arrives; nothing is assumed of the exchanges.

## 4. Where code and documentation differ

In three runs TLC finds a behaviour of the code that a comment or the
documentation rules out. The quotations are in `PROJECT.json`.

| run | what happens |
|---|---|
| `breaker_probe` | a request admitted before the trip ends the half-open state in the probe's place (`breaker.go:131`) |
| `gateway_rollback` | while a request from before the trip holds the slot, the half-open breaker admits a probe, the semaphore refuses it, and the 429 that is reported for it, a success, closes the breaker (`proxy.go:489`) |
| `exchange_token` | a role-only chunk with `"content":""` counts as the first token (`README.md:258`) |

Other statements of the documentation are written down beside the properties
that do hold. None is part of a run; with the definition as the property and the
instance given, TLC refutes each of them.

| definition | statement | what happens | instance |
|---|---|---|---|
| `Breaker!TripWithinWindow` | `config.go:143`, an older 5xx "does not contribute" | failures spread over more than `window` trip the breaker, if neighbours are close | that of `breaker` |
| `Gateway!StatusIsFinal` | `proxy.go:397`, "the final status code" | after a 1xx response the breaker hears the 1xx | that of `gateway` |
| `Gateway!OversizeNotForwarded` | `config.go:261`, "413 without contacting upstream" | an oversized body without Content-Length reaches the upstream in part, or whole if it has one byte more than the buffer and the cap is below the buffer | that of `gateway` |
| `Lifecycle!StreamsDrained` | `proxy.go:1059`, "has actually drained" | the stream counter reaches zero before the last stream is finalized; the wait for handlers closes the gap | that of `lifecycle` |
| `Lifecycle!ShutdownManaged` | `telemetry.go:39`, "is the *only* lifecycle handle the caller has to manage" | `runUp` returns without calling it when `newLogger`, `proxy.New` or `NewServer` fails | that of `lifecycle` |
| `Exchange!LogsModeCaptures` | `README.md:306`, "routes the same content through the OTel log signal" | with `content.mode: logs` no content is captured | that of `exchange` |
| `Exchange!RawOnlyWhenOff` | `README.md:304`, "will NOT silently ship raw secrets" | a key that two deltas of an OpenAI stream carry is captured with quotes inside it, which no pattern matches; an error snippet may end within a key | that of `exchange` |
| `Config!PrefixBoundToTarget` | `config.go:104`, "Upstream binds a path prefix to an upstream LLM API and a parser." | two upstreams of one name pass `Validate` and share the target of the later one | that of `config` |
| `Config!RatioInRange` | `config.go:458`, "must be in [0,1]" | a ratio that is not a number passes the clamp and the check | that of `config` |
| `Labels!EmittedCapped` | `README.md:329`, "hard-capped" | a label above the cap can be returned by another goroutine before it is trimmed | 2 goroutines, 2 labels, cap 1 |
| `Auth!EvictsEarliest` | `auth.go:337`, "pass it over" | a refreshed cache entry is evicted before one that expires earlier | 2 goroutines, 1 slot, `MaxTime = 4` |
| `Auth!OrderHasNoStaleIds` | `auth.go:322`, "will drop this stale id" | ids of expired entries stay in the order slice | 2 goroutines, 1 slot, `MaxTime = 4` |
| `CertManager!AttemptsCoverRotation` | `certmgr.go:81`, "cover the worst realistic case" | a writer that pauses between the two files outlasts the attempts | one rotation to a new key, 3 attempts |
| `Pricing!MatchesModelString` | `prices.yaml:6`, "longest-prefix-match against the request/response model string" | an override with an upper-case letter never matches | that of `pricing` |

## 5. What is proved

Every safety property of the passing runs is a theorem, as is the
refinement of `Fuse`; `PROJECT.json` pairs them. The theorems hold for every
value of the constants that satisfies the named assumptions, which TLC evaluates
in every run. `BreakerAssumption`, `CallersAssumption`, `GatewayAssumption`,
`LifecycleAssumption`, `LabelsAssumption`, `AuthAssumption` and `CertAssumption`
say that sets are finite, limits positive where the code makes them so, and
special values distinct. The others give the inputs their shape:

* `SSEAssumption`: `maxEventBytes` is positive.
* `EnrichAssumption`: every document that parses is one of the records
  `ChunkType` and `PartType`, so its counts are integers, negative ones included.
* `ExchangeAssumption`: a body is a sequence of symbols, and the documents in it
  are of the kind that the parser of its provider reads.
* `ConfigAssumption`: the upstreams are a list of upstreams, and no environment
  variable sets them (`applyEnv` has none for them).
* `PricingAssumption`: lowercasing twice is lowercasing once, and a catalogue
  gives a rate for each of its entries.

Each proof has an inductive invariant, shown to hold at the start and to be
kept by every action, one lemma or step per action; the theorems follow from it.

* `BreakerProofs`. `TypeCorrect`; `ProbeNeverLeaked`, `RecoveryFromLastFailure`,
  `RunsStartFresh`, `AdviceInRange`. The invariant adds that recorded times are
  not in the future, without which Retry-After could exceed the window.
  `CountExact`: the counter is the length of the longest suffix of the
  failures since the last success in which neighbours are within the window; the
  proof says what a report does to the set of such suffixes. `Refinement`:
  `Spec => FuseSpec`; `ProbeSlotHeld` is what makes a half-open breaker stop
  everyone.
* `GatewayProofs`. `SlotsBalanced`, `GatewayProbeHeld`, `InFlightExact`,
  `BodyCapKept`, `OutcomeReported`, and `GatewayRefinement`: `Spec => FuseSpec`.
  The invariant `GInv` relates, for each request, the place its goroutine is at
  to its locals (`Flow`): no status is captured before the reverse proxy has the
  request, and what was forwarded had passed the cap or is the one body that
  `CapRespected` excepts. The semaphore and the gauge
  are cardinalities of sets of places, so one lemma each (`SlotStep`,
  `GaugeStep`) covers every action that enters or leaves them. A report never
  leaves the breaker half-open (`ReportSettles`), which serves both the probe
  slot and the refinement.
* `ServerProofs`. About `Lifecycle`: `StreamCountExact`, `NeverRecordedTwice`,
  `CleanExitComplete`, `ShutDownInReverse`. `ServerInv` is about the main
  goroutine and telemetry (the shutdown calls left to make are those of the
  providers still up, last constructed first; while the server serves all three
  are up), `ExchangeInv` about the handlers (the `sync.Once` has run exactly when
  the callback is under way or over, and a call is recorded exactly when its flag
  is set), and `KeptInv` joins them: `Run` returns nil only with no handler
  running and the listener closed, so nothing is recorded after telemetry goes
  down. `ShutDownInReverse` leaves out the exits of `runUp` after `Setup` and
  before `Run`, on which no provider is shut down (`ShutdownManaged`). About
  `Auth`: `OnlyAllowedAdmitted`, `ComparisonsCounted`,
  `CacheStaysBounded`, `EvictionFindsAll`. `AuthInv` adds what a goroutine knows
  of its token. That the cache is bounded needs that the order slice covers it:
  otherwise eviction could find nothing to remove.
* `RecordProofs`. `CapKeptAtRest`, `AdmittedForGood`, `NoEarlyOverflow`. The
  invariant says who owns a key of the map (the one goroutine between storing and
  accepting or deleting it) and that the counter is the number of accepted labels
  plus the goroutines that are trimming; the properties alone say nothing of the
  moments in between.
  `LookupLongest`, `MergeSafe`, about `Pricing`: the trie holds every path to a
  key that is inserted, in whatever order, so the walk passes every configured
  prefix and no other node with a rate.
* `StartProofs`. `PlaintextAcknowledged`, `StartsOnceValidated`: the invariant
  says that from `New` on the configuration is one in which `Validate` found
  nothing, and that no step takes a key away. `NewServer` decides on TLS by
  `Enabled` and `Run` by `tlsEnabled`; they agree because `Validate` asks for
  both files or none. `LongestPrefixRouted`: the loop of `Match` keeps the best
  of the upstreams it has seen (`MatchIsLongest`); in an accepted list that one
  is unique, and what `New` keys by name is its own unless another has its name.
  `PairsNeverMixed`, `UnchangedIsCurrent`, about `CertManager`: the key is a
  barrier: while a file has the modification time of the first stat, the bytes
  read are its contents, and the second stat carries that over to the recorded
  times.
* `SSEProofs`. Lemmas about `sseTee` for the next two modules: what
  `findFrameBoundary`, `splitSSELines`, `Fields` and `Drained` return, and that
  every read keeps `TapInv`: draining all that was read since the last overflow
  gives the events that were handed on and leaves the buffer, which is within its
  limit. The step is that draining a buffer, appending, and draining again is draining all at once
  (`DrainedInParts`). For that, `BoundaryStays` shows that appended bytes move no
  boundary that was found: they complete no longer terminator that starts before
  it.
* `ExchangeProofs`. Five theorems about a call, for every body and every way to
  cut it into reads, from one invariant `ExchangeInv`, of which `TapInv` is a
  part: `ReadsInvisible` and `ParseBufferBounded` follow from it.
  `BilledAsReported` rests on `Knows`: after k events `Info` has the last value
  that any of them reported; `OpenAIEventTold` and its Anthropic counterpart say
  what one event does to it, and `RecordInv` that the record and the attributes
  of the span were made from one such `Info`. `CallbacksRunOnce` uses the same for
  the first token. `OnlyCapturedWhenAsked` rests on `SpanInv`: every text on the
  span is one that the profile lets through, and there is none in another mode; of
  an item in parts it says nothing.
* `EventSourceProofs`. `ReadAsEventSource`. The tap looks for three terminator
  strings in a buffer and splits a frame into lines when it is complete; the
  EventSource rules split the stream into lines first and look for blank ones.
  `Same` relates the two byte by byte: the events are equal, and what the tap
  still holds has the fields and the unfinished line of what the rules have
  gathered. The rules here are those for frames and lines; the fields of a frame
  are read by the tap's `dispatch` on both sides, which, unlike the standard,
  joins data lines without LF, trims white space and delivers an unfinished frame
  at the end. Between the two bytes of a CR LF `Same` can fail: for the rules a blank
  line has then ended, while the tap waits for the LF. So where lines end in LF or
  in CR it is kept by every byte (`AgreeAlways`), and where they end in CR LF by
  every ordinary byte and every pair (`PairsAlways`).
  One byte more is what makes it work: `ByteRead` (a frame), `ReadingNext` (the
  rules) and `TappedNext` (the tap: a terminator that is found then ends with
  that byte). `UniformWays` shows that these cases are all of `Uniform`. That the
  events of a call are those of its whole stream is `StreamInv`: `TapInv`, and
  that before the first overflow nothing has been dropped.

What loops compute is proved by induction over an interval of naturals, as a
lemma about sets (`IntervalInduction`); a loop that is a recursive function is
shown to have a run (`LoopRuns`) before anything is said about it.

Only model-checked: the liveness properties `EveryRequestServed`,
`HalfOpenResolves`, `ProcessExits` and `CatchesUp`; temporal reasoning under
fairness is outside the prover.

## 6. Not modelled

* The regular expressions and the Luhn filter of the redactor, and in `Auth` PHC
  strings and argon2: functions of text and bytes. The model has what they decide.
* The pin callbacks and transport settings, which configure `crypto/tls` and
  `net/http` and keep no state.
* Exporters and the SDK's own queues: a record counts as kept when it is made
  while its provider is up.
* In `Pricing` the floating-point product of rate and count.
* Request parameters that are copied to span attributes, other than the model.
* Flags, `hash-token` and the log fan-out: pure input and output.
* Semantic conventions and build information: constants.

## 7. Plan

1. The Luhn filter of the redactor as an operator, against the textbook
   definition.
2. Two upstreams in `Gateway`, with the names that `Config` lets them share.
3. Keep-alive connections in `Lifecycle`.
