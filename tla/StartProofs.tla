----------------------------- MODULE StartProofs -----------------------------
(***************************************************************************)
(* What the start leaves behind: that no process serves or exports in      *)
(* plaintext unacknowledged, that New finds nothing to refuse in what      *)
(* Validate accepted, that requests are routed by the longest prefix, for  *)
(* every configuration file, environment and list of upstreams; and that   *)
(* the certificate manager, which the start loads and then runs, serves no *)
(* mixed pair, for any number of rotations, any assignment of keys to      *)
(* generations and any number of attempts.                                 *)
(***************************************************************************)
EXTENDS Config, CertManager, WellFoundedInduction, TLAPS

(* A non-empty set of naturals has a least element. *)
LEMMA LeastExists ==
  ASSUME NEW S \in SUBSET Nat, S # {}
  PROVE  \E i \in S : \A j \in S : i <= j
  <1> DEFINE R == OpToRel(<, Nat)
  <1>1. IsWellFoundedOn(R, Nat)
    BY NatLessThanWellFounded, Zenon
  <1>2. \A i, j \in Nat : <<j, i>> \in R <=> j < i
    BY DEF OpToRel
  <1> HIDE DEF R
  <1>3. PICK i \in S : \A j \in S : ~ (<<j, i>> \in R)
    BY <1>1, WFMin, ZenonT(60)
  <1>4. \A j \in S : ~ (j < i)
    BY <1>2, <1>3, Zenon
  <1>5. \A j \in S : i <= j
    BY <1>4
  <1> QED
    BY <1>5
(* Induction over the iterations 0..n of a loop. *)
LEMMA IntervalInduction ==
    ASSUME NEW n \in Nat, NEW P \in SUBSET (0..n), 0 \in P,
           \A i \in 1..n : i - 1 \in P => i \in P
    PROVE  \A i \in 0..n : i \in P
<1> DEFINE C == (0..n) \ P
<1> SUFFICES ASSUME C # {}
             PROVE  FALSE
  OBVIOUS
<1>1. C \in SUBSET Nat
  OBVIOUS
<1>2. PICK i \in C : \A j \in C : i <= j
  BY <1>1, LeastExists, ZenonT(60)
<1>3. i \in 1..n /\ i - 1 \in 0..n
  BY <1>2
<1>4. i - 1 \in P
  BY <1>2, <1>3
<1> QED BY <1>2, <1>3, <1>4

IsRun(f, n, s0, step) == f[0] = s0 /\ \A i \in 1..n : f[i] = step[i][f[i - 1]]

(* A loop of n iterations that takes the state s to step[i][s] in iteration i
   has a run: the recursive functions that model loops are well defined. *)
LEMMA LoopRuns ==
    ASSUME NEW n \in Nat, NEW S, NEW s0 \in S, NEW step \in [1..n -> [S -> S]]
    PROVE  \E f \in [0..n -> S] : IsRun(f, n, s0, step)
<1> DEFINE Ran(k, f) == f[0] = s0 /\ \A i \in 1..k : f[i] = step[i][f[i - 1]]
           P == {k \in 0..n : \E f \in [0..k -> S] : Ran(k, f)}
<1>1. 0 \in P
  <2> DEFINE f == [i \in 0..0 |-> s0]
  <2>1. f \in [0..0 -> S] /\ Ran(0, f)
    OBVIOUS
  <2>2. 0 \in 0..n
    OBVIOUS
  <2> QED BY <2>1, <2>2, ZenonT(60)
<1>2. ASSUME NEW k \in 1..n, k - 1 \in P
      PROVE  k \in P
  <2>1. PICK f \in [0..(k - 1) -> S] : Ran(k - 1, f)
    BY <1>2
  <2> DEFINE g == [i \in 0..k |-> IF i = k THEN step[k][f[k - 1]] ELSE f[i]]
  <2>2. k - 1 \in 0..(k - 1) /\ f[k - 1] \in S /\ step[k][f[k - 1]] \in S
    BY <2>1
  <2>3. g \in [0..k -> S]
    BY <2>1, <2>2
  <2>4. g[0] = s0
    BY <2>1
  <2>5. \A i \in 1..k : g[i] = step[i][g[i - 1]]
    <3> SUFFICES ASSUME NEW i \in 1..k
                 PROVE  g[i] = step[i][g[i - 1]]
      OBVIOUS
    <3>1. i - 1 \in 0..(k - 1) /\ g[i - 1] = f[i - 1]
      OBVIOUS
    <3>2. CASE i = k
      BY <3>1, <3>2
    <3>3. CASE i # k
      <4>1. i \in 1..(k - 1) /\ g[i] = f[i]
        BY <3>3
      <4> QED BY <3>1, <4>1, <2>1
    <3> QED BY <3>2, <3>3
  <2>6. k \in 0..n
    OBVIOUS
  <2> HIDE DEF g
  <2> QED BY <2>3, <2>4, <2>5, <2>6
<1>3. P \in SUBSET (0..n)
  OBVIOUS
<1> HIDE DEF P
<1>4. n \in P
  <2>1. \A i \in 0..n : i \in P
    BY <1>1, <1>2, <1>3, IntervalInduction, Zenon
  <2> QED BY <2>1
<1> QED BY <1>4 DEF P, IsRun
-----------------------------------------------------------------------------
(* The keys that the decisions below read are set, as Default sets them: a file
   or the environment may change them but not remove them. *)
Keys == {"listen", "allowInsecure", "certFile", "keyFile", "clientCAFile", "upstreams",
         "endpoint", "insecure", "acknowledgeInsecure", "mode", "redact"}

Validated == {"new", "server", "listen", "serving"}

(* Validate found nothing in the configuration that New, NewServer and Run go
   by, and they do not change it *)
Accepted ==
    /\ (cfg.certFile = "") <=> (cfg.keyFile = "")
    /\ ~ (MTLS(cfg) /\ ~ TLSEnabled(cfg))
    /\ ~ (~ TLSEnabled(cfg) /\ ~ cfg.allowInsecure /\ ~ isLoopbackAddr(cfg.listen))
    /\ ~ (cfg.insecure /\ ~ cfg.acknowledgeInsecure /\ ~ isLocalEndpoint(cfg.endpoint))
    /\ UpstreamErrors(cfg.upstreams) = {}

ConfigInv ==
    /\ stage \in {"load", "env", "validate", "refused"} \cup Validated
    /\ Keys \subseteq DOMAIN cfg
    /\ stage \in Validated => Accepted
    /\ stage # "refused" => errs = {} /\ failed = {}
    /\ stage \in {"listen", "serving"} => listener.clientCert = (TLSEnabled(cfg) /\ MTLS(cfg))
    /\ stage = "serving" => listener.tls = (cfg.certFile # "" /\ cfg.keyFile # "")
    /\ listener = [tls |-> listener.tls, clientCert |-> listener.clientCert]
    /\ ValidateCoversNew

(* Validate's loop reports every kind of error at every upstream: when it finds
   none, no check fails anywhere (Validate). *)
LEMMA NoneWrong ==
    ASSUME NEW us, UpstreamErrors(us) = {},
           NEW i \in DOMAIN us,
           NEW key \in {"name", "prefix", "reserved", "duplicate", "target", "provider",
                        "pins", "breaker"}
    PROVE  ~ Wrong(key, us, i)
<1> SUFFICES ASSUME Wrong(key, us, i)
             PROVE  FALSE
  OBVIOUS
<1> DEFINE e == <<key, i>>
<1>1. e[1] = key /\ e[2] = i
  OBVIOUS
<1>2. Wrong(e[1], us, e[2])
  BY <1>1
<1>3. e \in {"name", "prefix", "reserved", "duplicate", "target", "provider", "pins",
             "breaker"} \X DOMAIN us
  OBVIOUS
<1> HIDE DEF e
<1>4. e \in UpstreamErrors(us)
  BY <1>2, <1>3 DEF UpstreamErrors
<1> QED BY <1>4

(* Validate's loop over the upstreams looks at all that New looks at again:
   what it accepts has known providers, targets that parse and pins that
   decode (UpstreamErrors; the failures of New). *)
LEMMA AcceptedStarts ==
    ASSUME UpstreamErrors(cfg.upstreams) = {}
    PROVE  Failures(cfg) \subseteq {"instruments", "pricing", "auth"}
<1> DEFINE us == cfg.upstreams
<1>1. \A i \in DOMAIN us : \A key \in {"provider", "target", "pins"} : ~ Wrong(key, us, i)
  BY NoneWrong
<1>2. \A i \in DOMAIN us : us[i].provider \in {"openai", "anthropic"}
  BY <1>1 DEF Wrong
<1>3. \A i \in DOMAIN us : us[i].target # "unparsable"
  BY <1>1 DEF Wrong
<1>4. \A i \in DOMAIN us : parsePins(us[i])
  <2> SUFFICES ASSUME NEW i \in DOMAIN us, NEW j \in DOMAIN us[i].pins
               PROVE  /\ us[i].pins[j].hex /\ us[i].pins[j].len % 2 = 0
                      /\ us[i].pins[j].len \div 2 = 32
    BY DEF parsePins
  <2>1. ~ PinErrors(us[i])
    BY <1>1 DEF Wrong
  <2>2. isHex64(us[i].pins[j])
    BY <2>1 DEF PinErrors
  <2>3. us[i].pins[j].hex /\ us[i].pins[j].len = 64
    BY <2>2 DEF isHex64
  <2>4. 64 % 2 = 0 /\ 64 \div 2 = 32
    OBVIOUS
  <2> QED BY <2>3, <2>4
<1> QED BY <1>2, <1>3, <1>4 DEF Failures

(* Default sets the keys, and nothing has been decided yet (Default, Init). *)
LEMMA ConfigInit == Init => ConfigInv
BY DEF Init, Default, ConfigInv, Keys, Validated, ValidateCoversNew

(* Every step of the start, and every request, keeps the invariant (ReadFile,
   applyEnv, Validate, New, NewServer, Run, Route). *)
LEMMA ConfigStep == ConfigInv /\ [Next]_vars => ConfigInv'
<1> SUFFICES ASSUME ConfigInv, [Next]_vars
             PROVE  ConfigInv'
  OBVIOUS
<1>1. CASE ReadFile
  BY <1>1 DEF ReadFile, ConfigInv, Validated, ValidateCoversNew
<1>2. CASE ReadFileFails
  BY <1>2 DEF ReadFileFails, Refuse, ConfigInv, Validated, ValidateCoversNew
<1>3. CASE applyEnv
  BY <1>3 DEF applyEnv, ConfigInv, Validated, ValidateCoversNew
<1>4. CASE Validate
  <2>1. CASE errs' # {} /\ Refuse({"config"})
    BY <1>4, <2>1 DEF Refuse, ConfigInv, Validated, ValidateCoversNew
  <2>2. CASE errs' = {} /\ stage' = "new"
    <3>1. /\ Keys \subseteq DOMAIN cfg'
          /\ \A k \in Keys \ {"mode", "redact"} : cfg'[k] = cfg[k]
      BY <1>4, <2>2, ZenonT(60) DEF Validate, Refuse, ConfigInv, Keys
    <3>2. /\ cfg'.listen = cfg.listen /\ cfg'.allowInsecure = cfg.allowInsecure
          /\ cfg'.certFile = cfg.certFile /\ cfg'.keyFile = cfg.keyFile
          /\ cfg'.clientCAFile = cfg.clientCAFile /\ cfg'.upstreams = cfg.upstreams
          /\ cfg'.endpoint = cfg.endpoint /\ cfg'.insecure = cfg.insecure
          /\ cfg'.acknowledgeInsecure = cfg.acknowledgeInsecure
      BY <3>1 DEF Keys
    <3>3. ListenerErrors(cfg) = {} /\ OtherErrors(cfg) = {} /\ UpstreamErrors(cfg.upstreams) = {}
      <4>1. \A key \in ListenerErrors(cfg) \cup OtherErrors(cfg) : <<key, 0>> \in errs'
        BY <1>4 DEF Validate
      <4>2. UpstreamErrors(cfg.upstreams) \subseteq errs'
        BY <1>4 DEF Validate
      <4> QED BY <2>2, <4>1, <4>2
    <3>4. Accepted'
      <4>1. /\ (cfg.certFile = "") <=> (cfg.keyFile = "")
            /\ ~ (MTLS(cfg) /\ ~ TLSEnabled(cfg))
            /\ ~ (~ TLSEnabled(cfg) /\ ~ cfg.allowInsecure /\ ~ isLoopbackAddr(cfg.listen))
        BY <3>3 DEF ListenerErrors
      <4>2. ~ (cfg.insecure /\ ~ cfg.acknowledgeInsecure /\ ~ isLocalEndpoint(cfg.endpoint))
        BY <3>3 DEF OtherErrors
      <4>3. UpstreamErrors(cfg'.upstreams) = {}
        BY <3>2, <3>3
      <4> QED BY <3>2, <4>1, <4>2, <4>3 DEF Accepted, TLSEnabled, MTLS
    <3> QED BY <1>4, <2>2, <3>1, <3>4 DEF Validate, Refuse, ConfigInv, Validated, ValidateCoversNew
  <2> QED BY <1>4, <2>1, <2>2 DEF Validate
<1>5. CASE New
  <2>1. ASSUME NEW why \in Failures(cfg), Refuse({why})
        PROVE  ConfigInv'
    <3>1. why \in {"instruments", "pricing", "auth"}
      BY <1>5, AcceptedStarts DEF New, ConfigInv, Validated, Accepted
    <3> QED BY <1>5, <2>1, <3>1 DEF New, Refuse, ConfigInv, Validated, ValidateCoversNew
  <2>2. CASE stage' = "server" /\ UNCHANGED <<cfg, failed, errs, listener>>
    BY <1>5, <2>2 DEF New, ConfigInv, Validated, ValidateCoversNew, Accepted
  <2> QED BY <1>5, <2>1, <2>2, ZenonT(60) DEF New
<1>6. CASE NewServer
  <2>1. ASSUME NEW why \in ServerFailures(cfg), Refuse({why})
        PROVE  ConfigInv'
    BY <1>6, <2>1 DEF NewServer, ServerFailures, Refuse, ConfigInv, Validated, ValidateCoversNew
  <2>2. CASE stage' = "listen"
    BY <1>6, <2>2 DEF NewServer, Refuse, ConfigInv, Validated, ValidateCoversNew, Accepted
  <2> QED BY <1>6, <2>1, <2>2, ZenonT(60) DEF NewServer
<1>7. CASE Run
  BY <1>7 DEF Run, Refuse, ConfigInv, Validated, ValidateCoversNew, Accepted
<1>8. ASSUME NEW r \in Requests, Route(r)
      PROVE  ConfigInv'
  BY <1>8 DEF Route, ConfigInv, Validated, ValidateCoversNew, Accepted
<1>9. CASE UNCHANGED vars
  BY <1>9, ZenonT(60) DEF vars, ConfigInv, Validated, ValidateCoversNew, Accepted
<1> QED BY <1>1, <1>2, <1>3, <1>4, <1>5, <1>6, <1>7, <1>8, <1>9 DEF Next

(* What Validate accepted with Enabled is what the listener does by tlsEnabled:
   with both TLS files or none the two agree. *)
LEMMA InvPlaintext == ConfigInv => NoUnacknowledgedPlaintext
<1> SUFFICES ASSUME ConfigInv, stage = "serving"
             PROVE  /\ \/ listener.tls
                       \/ cfg.listen.host \in {"localhost", "loopback"}
                       \/ cfg.allowInsecure
                    /\ cfg.clientCAFile # "" => listener.tls /\ listener.clientCert
                    /\ \/ ~ cfg.insecure
                       \/ cfg.endpoint.host \in {"localhost", "loopback", "private"}
                       \/ cfg.acknowledgeInsecure
  BY DEF NoUnacknowledgedPlaintext
<1>1. /\ (cfg.certFile = "") <=> (cfg.keyFile = "")
      /\ ~ (MTLS(cfg) /\ ~ TLSEnabled(cfg))
      /\ ~ (~ TLSEnabled(cfg) /\ ~ cfg.allowInsecure /\ ~ isLoopbackAddr(cfg.listen))
  BY DEF ConfigInv, Validated, Accepted
<1>2. /\ listener.clientCert = (TLSEnabled(cfg) /\ MTLS(cfg))
      /\ listener.tls = (cfg.certFile # "" /\ cfg.keyFile # "")
  BY DEF ConfigInv
<1>3. ~ (cfg.insecure /\ ~ cfg.acknowledgeInsecure /\ ~ isLocalEndpoint(cfg.endpoint))
  BY DEF ConfigInv, Validated, Accepted
<1> QED BY <1>1, <1>2, <1>3 DEF TLSEnabled, MTLS, isLoopbackAddr, isLocalEndpoint

(* The start keeps the invariant, whatever the operator gives it. *)
LEMMA ConfigInvariant == Spec => []ConfigInv
BY ConfigInit, ConfigStep, PTL DEF Spec

(* For every file and environment: plaintext beyond the loopback interface or to
   a remote collector is served only when it was acknowledged, and a client CA
   is enforced (Validate, TLS.Enabled, NewServer, Run). *)
THEOREM PlaintextAcknowledged == Spec => []NoUnacknowledgedPlaintext
BY ConfigInvariant, InvPlaintext, PTL

(* For every list of upstreams: New never refuses what Validate accepted for its
   providers, targets or pins (Validate, isHex64; New, parsePins). *)
THEOREM StartsOnceValidated == Spec => []ValidateCoversNew
<1>1. ConfigInv => ValidateCoversNew
  BY DEF ConfigInv
<1> QED BY <1>1, ConfigInvariant, PTL

-----------------------------------------------------------------------------
Matching(us, path) == {i \in DOMAIN us : HasPrefix(path, us[i].prefix)}

(* The lengths of prefixes are numbers. *)
LEMMA PrefixLengths ==
    ASSUME NEW us \in Seq(UpstreamType), NEW i \in DOMAIN us
    PROVE  us[i] \in UpstreamType /\ us[i].prefix \in Seq(Words) /\ Len(us[i].prefix) \in Nat
<1>1. us[i] \in UpstreamType
  OBVIOUS
<1>2. us[i].prefix \in Seq(Words)
  BY <1>1 DEF UpstreamType
<1> QED BY <1>1, <1>2

(* Match returns an upstream that matches and that none with a longer prefix
   does, or 0 when none matches (Match). *)
LEMMA MatchIsLongest ==
    ASSUME cfg.upstreams \in Seq(UpstreamType), NEW path
    PROVE  /\ Match(path) = 0 => Matching(cfg.upstreams, path) = {}
           /\ Match(path) # 0 =>
                  /\ Match(path) \in Matching(cfg.upstreams, path)
                  /\ \A j \in Matching(cfg.upstreams, path) :
                         Len(cfg.upstreams[j].prefix) <= Len(cfg.upstreams[Match(path)].prefix)
<1> DEFINE us == cfg.upstreams
           n == Len(us)
           bestLen(i) == IF i = 0 THEN -1 ELSE Len(us[i].prefix)
           Better(i, b) == HasPrefix(path, us[i].prefix) /\ Len(us[i].prefix) > bestLen(b)
           Loop(f) == [i \in 0..n |-> IF i = 0 THEN 0
                                      ELSE IF Better(i, f[i - 1]) THEN i ELSE f[i - 1]]
           best == CHOOSE f : f = Loop(f)
<1>1. Match(path) = best[n]
  BY DEF Match
<1>2. n \in Nat /\ DOMAIN us = 1..n
  OBVIOUS
<1>3. best = Loop(best)
  <2> DEFINE step == [i \in 1..n |-> [b \in 0..n |-> IF Better(i, b) THEN i ELSE b]]
  <2>1. step \in [1..n -> [0..n -> 0..n]]
    BY <1>2
  <2>2. PICK f \in [0..n -> 0..n] : f[0] = 0 /\ \A i \in 1..n : f[i] = step[i][f[i - 1]]
    <3> DEFINE S == 0..n
    <3>1. n \in Nat /\ 0 \in S
      BY <1>2
    <3>2. step \in [1..n -> [S -> S]]
      BY <2>1
    <3> HIDE DEF step, n, S
    <3>3. \E f \in [0..n -> S] : IsRun(f, n, 0, step)
      BY <3>1, <3>2, LoopRuns, Zenon
    <3> QED BY <3>3, ZenonT(60) DEF S, IsRun
  <2>3. \A i \in 1..n : f[i] = IF Better(i, f[i - 1]) THEN i ELSE f[i - 1]
    <3> SUFFICES ASSUME NEW i \in 1..n
                 PROVE  f[i] = IF Better(i, f[i - 1]) THEN i ELSE f[i - 1]
      OBVIOUS
    <3>1. i - 1 \in 0..n /\ f[i - 1] \in 0..n
      BY <1>2
    <3> HIDE DEF Better
    <3> QED BY <2>2, <3>1, ZenonT(60)
  <2>4. f = Loop(f)
    <3> HIDE DEF Better, n
    <3>1. \A i \in 0..n : i = 0 \/ i \in 1..n
      BY <1>2
    <3> QED BY <2>2, <2>3, <3>1
  <2> HIDE DEF Loop
  <2> QED BY <2>4
<1> HIDE DEF best
<1>4. best[0] = 0 /\ \A i \in 1..n : best[i] = IF Better(i, best[i - 1]) THEN i ELSE best[i - 1]
  <2>1. \A i \in 0..n : Loop(best)[i] = IF i = 0 THEN 0
                                          ELSE IF Better(i, best[i - 1]) THEN i ELSE best[i - 1]
    <3> HIDE DEF Better, n
    <3> QED OBVIOUS
  <2>2. \A i \in 1..n : i \in 0..n /\ i # 0
    BY <1>2
  <2>3. 0 \in 0..n
    BY <1>2
  <2> HIDE DEF Better, Loop, n
  <2> QED BY <1>3, <2>1, <2>2, <2>3
<1> DEFINE Seen(i) == {j \in 1..i : HasPrefix(path, us[j].prefix)}
           Good(i) == /\ best[i] = 0 => Seen(i) = {}
                      /\ best[i] # 0 => /\ best[i] \in Seen(i)
                                        /\ \A j \in Seen(i) : Len(us[j].prefix) <= Len(us[best[i]].prefix)
           P == {i \in 0..n : Good(i)}
<1>5. \A i \in 1..n : Len(us[i].prefix) \in Nat
  BY <1>2, PrefixLengths
<1>6. Good(0)
  BY <1>4
<1>7. ASSUME NEW i \in 1..n, Good(i - 1)
      PROVE  Good(i)
  <2> HIDE DEF us, n
  <2>1. /\ i - 1 \in 0..n /\ Seen(i - 1) \subseteq Seen(i)
        /\ \A j \in Seen(i) : j \in Seen(i - 1) \/ (j = i /\ HasPrefix(path, us[i].prefix))
    BY <1>2
  <2>2. CASE Better(i, best[i - 1])
    <3>1. best[i] = i /\ i # 0 /\ i \in Seen(i)
      BY <1>2, <1>4, <2>2
    <3>2. \A j \in Seen(i - 1) : Len(us[j].prefix) <= Len(us[i].prefix)
      <4>1. CASE best[i - 1] = 0
        BY <4>1, <1>7
      <4>2. CASE best[i - 1] # 0
        <5>1. best[i - 1] \in 1..n
          BY <4>2, <1>7, <1>2
        <5>2. Len(us[i].prefix) > Len(us[best[i - 1]].prefix)
          BY <4>2, <2>2
        <5>3. \A j \in Seen(i - 1) : j \in 1..n
          BY <1>2
        <5>4. \A j \in Seen(i - 1) : Len(us[j].prefix) <= Len(us[best[i - 1]].prefix)
          BY <4>2, <1>7
        <5>5. Len(us[i].prefix) \in Nat /\ Len(us[best[i - 1]].prefix) \in Nat
          BY <5>1, <1>5
        <5>6. \A j \in Seen(i - 1) : Len(us[j].prefix) \in Nat
          BY <5>3, <1>5
        <5> SUFFICES ASSUME NEW j \in Seen(i - 1)
                     PROVE  Len(us[j].prefix) <= Len(us[i].prefix)
          OBVIOUS
        <5>7. Len(us[j].prefix) \in Nat /\ Len(us[j].prefix) <= Len(us[best[i - 1]].prefix)
          BY <5>4, <5>6
        <5> DEFINE x == Len(us[j].prefix)
                   y == Len(us[best[i - 1]].prefix)
                   z == Len(us[i].prefix)
        <5>8. x \in Nat /\ y \in Nat /\ z \in Nat /\ x <= y /\ z > y
          BY <5>2, <5>5, <5>7
        <5> HIDE DEF x, y, z
        <5>9. x <= z
          BY <5>8
        <5> QED BY <5>9 DEF x, z
      <4> QED BY <4>1, <4>2
    <3>3. \A j \in Seen(i) : Len(us[j].prefix) <= Len(us[i].prefix)
      <4> HIDE DEF Seen
      <4> QED BY <3>2, <2>1, <1>5
    <3> HIDE DEF Seen
    <3> QED BY <3>1, <3>3
  <2>3. CASE ~ Better(i, best[i - 1])
    <3>1. best[i] = best[i - 1]
      BY <1>4, <2>3
    <3>2. CASE best[i - 1] = 0
      <4>1. ~ HasPrefix(path, us[i].prefix)
        BY <2>3, <3>2, <1>5
      <4> QED BY <2>1, <3>1, <3>2, <4>1, <1>7
    <3>3. CASE best[i - 1] # 0
      <4>1. best[i - 1] \in Seen(i - 1) /\ best[i - 1] \in 1..n
        BY <3>3, <1>7, <1>2
      <4>2. HasPrefix(path, us[i].prefix) => Len(us[i].prefix) <= Len(us[best[i - 1]].prefix)
        BY <2>3, <3>3, <4>1, <1>5, SMTT(60)
      <4> QED BY <2>1, <3>1, <3>3, <4>1, <4>2, <1>7
    <3> QED BY <3>2, <3>3
  <2> QED BY <2>2, <2>3
<1>8. Good(n)
  <2>1. P \in SUBSET (0..n) /\ 0 \in P
    BY <1>2, <1>6
  <2>2. \A i \in 1..n : i - 1 \in P => i \in P
    <3> HIDE DEF Good
    <3> QED BY <1>2, <1>7
  <2> HIDE DEF P, n
  <2>3. n \in P
    <3>1. \A i \in 0..n : i \in P
      BY <1>2, <2>1, <2>2, IntervalInduction, Zenon
    <3> QED BY <1>2, <3>1
  <2> QED BY <2>3 DEF P
<1>9. Seen(n) = Matching(us, path)
  BY <1>2 DEF Matching
<1> HIDE DEF us, n, Seen
<1>10. /\ Match(path) = 0 => Matching(us, path) = {}
       /\ Match(path) # 0 => /\ Match(path) \in Matching(us, path)
                             /\ \A j \in Matching(us, path) :
                                    Len(us[j].prefix) <= Len(us[Match(path)].prefix)
  BY <1>1, <1>8, <1>9
<1> QED BY <1>10 DEF us

(* Two prefixes of one path that are as long as each other are equal. *)
LEMMA PrefixByLength ==
    ASSUME NEW p \in Seq(Words), NEW q \in Seq(Words), NEW path,
           HasPrefix(path, p), HasPrefix(path, q), Len(p) = Len(q)
    PROVE  p = q
BY DEF HasPrefix

(* In an accepted list the longest match is the only one of its length:
   Validate refuses a second upstream with the same prefix (Validate). *)
LEMMA LongestIsUnique ==
    ASSUME NEW us \in Seq(UpstreamType), UpstreamErrors(us) = {}, NEW path,
           NEW i \in Matching(us, path), NEW j \in Matching(us, path),
           Len(us[i].prefix) = Len(us[j].prefix)
    PROVE  i = j
<1>1. i \in DOMAIN us /\ j \in DOMAIN us /\ DOMAIN us = 1..Len(us) /\ Len(us) \in Nat
  BY DEF Matching
<1>2. us[i].prefix = us[j].prefix
  <2>1. us[i].prefix \in Seq(Words) /\ us[j].prefix \in Seq(Words)
    BY <1>1, PrefixLengths
  <2>2. HasPrefix(path, us[i].prefix) /\ HasPrefix(path, us[j].prefix)
    BY DEF Matching
  <2> QED BY <2>1, <2>2, PrefixByLength
<1>3. ~ Wrong("duplicate", us, i) /\ ~ Wrong("duplicate", us, j)
  BY <1>1, NoneWrong
<1>4. j \notin 1..(i - 1) /\ i \notin 1..(j - 1)
  BY <1>2, <1>3, SMTT(60) DEF Wrong
<1> QED BY <1>1, <1>4

(* Where no two upstreams have one name, what New keys by name is that of the
   upstream itself (New). *)
LEMMA ByOwnName ==
    ASSUME NEW us \in Seq(UpstreamType), NEW i \in DOMAIN us,
           \A j \in DOMAIN us : us[i].name = us[j].name => i = j,
           NEW key \in {"target", "maxInFlight", "failures"}
    PROVE  /\ us[i].name \in DOMAIN ByName(us, key)
                  <=> (key \in {"maxInFlight", "failures"} => us[i][key] > 0)
           /\ us[i].name \in DOMAIN ByName(us, key) => ByName(us, key)[us[i].name] = us[i][key]
<1> DEFINE has == {j \in DOMAIN us : key \in {"maxInFlight", "failures"} => us[j][key] > 0}
           at(n) == {j \in has : us[j].name = n}
<1>1. ByName(us, key) = [n \in {us[j].name : j \in has} |->
                            us[CHOOSE j \in at(n) : \A l \in at(n) : l <= j][key]]
  BY DEF ByName
<1>2. i \in Nat
  OBVIOUS
<1>3. us[i].name \in {us[j].name : j \in has} <=> i \in has
  OBVIOUS
<1>4. ASSUME i \in has
      PROVE  ByName(us, key)[us[i].name] = us[i][key]
  <2>1. at(us[i].name) = {i}
    BY <1>4
  <2>2. (CHOOSE j \in {i} : \A l \in {i} : l <= j) = i
    BY <1>2
  <2>3. us[i].name \in {us[j].name : j \in has}
    BY <1>4
  <2> DEFINE N == us[i].name
             D == {us[j].name : j \in has}
             V(n) == us[CHOOSE j \in at(n) : \A l \in at(n) : l <= j][key]
  <2>4. V(N) = us[i][key]
    BY <2>1, <2>2
  <2>5. ByName(us, key) = [n \in D |-> V(n)] /\ N \in D
    BY <1>1, <2>3
  <2> HIDE DEF D, V
  <2> QED BY <2>4, <2>5
<1> QED BY <1>1, <1>3, <1>4

-----------------------------------------------------------------------------
(* What a request is routed by: the list that the file gave or the defaults, and
   the maps that New made of it *)
RouteInv ==
    /\ given \in Settings
    /\ cfg.upstreams \in Seq(UpstreamType)
    /\ stage \in {"server", "listen", "serving"} =>
           /\ rps = ByName(cfg.upstreams, "target")
           /\ upstreamSem = ByName(cfg.upstreams, "maxInFlight")
           /\ breakers = ByName(cfg.upstreams, "failures")
    /\ stage # "serving" => routed = NotRouted
    /\ RoutedByLongestPrefix

(* The built-in upstreams are upstreams (Default). *)
LEMMA RouteInit == Init => RouteInv
<1> SUFFICES ASSUME Init
             PROVE  RouteInv
  OBVIOUS
<1>1. \A n, p : \A s \in Seq(Words) :
          n \in Words /\ p \in Words => Upstream(n, s, p) \in UpstreamType
  BY DEF Upstream, UpstreamType
<1>2. cfg.upstreams = <<Upstream("openai", <<"/", "v1">>, "openai"),
                        Upstream("anthropic", <<"/", "anthropic">>, "anthropic")>>
  BY DEF Init, Default
<1>3. cfg.upstreams \in Seq(UpstreamType)
  <2>1. \A a, b \in Words : <<a, b>> \in Seq(Words)
    OBVIOUS
  <2>2. "/" \in Words /\ "v1" \in Words /\ "openai" \in Words /\ "anthropic" \in Words
    BY ConfigAssumption
  <2>3. Upstream("openai", <<"/", "v1">>, "openai") \in UpstreamType
    BY <1>1, <2>1, <2>2, Zenon
  <2>4. Upstream("anthropic", <<"/", "anthropic">>, "anthropic") \in UpstreamType
    BY <1>1, <2>1, <2>2, Zenon
  <2>5. \A a, b \in UpstreamType : <<a, b>> \in Seq(UpstreamType)
    OBVIOUS
  <2> QED BY <1>2, <2>3, <2>4, <2>5, Zenon
<1> QED BY <1>3 DEF Init, NotRouted, RouteInv, RoutedByLongestPrefix

(* A path is routed to the longest match, with what New keyed by its name
   (ServeHTTP, matchUpstream). *)
LEMMA RouteStep ==
    ASSUME ConfigInv, RouteInv, NEW r \in Requests, Route(r)
    PROVE  RoutedByLongestPrefix'
<1> DEFINE us == cfg.upstreams
           path == r.path
           i == Match(path)
           name == us[i].name
<1>1. stage = "serving" /\ cfg' = cfg /\ us \in Seq(UpstreamType) /\ UpstreamErrors(us) = {}
  BY DEF Route, RouteInv, ConfigInv, Validated, Accepted
<1>2. CASE answeredHere(r)
  <2>1. routed' = [asked |-> r, by |-> "health"]
    BY <1>2 DEF Route
  <2> QED BY <1>2, <2>1 DEF RoutedByLongestPrefix, answeredHere
<1>3. CASE ~ answeredHere(r) /\ i = 0
  <2>1. routed' = [asked |-> r, by |-> "none"]
    BY <1>3 DEF Route
  <2>2. Matching(us, path) = {}
    BY <1>1, <1>3, MatchIsLongest, SMTT(60)
  <2> QED BY <1>1, <2>1, <2>2 DEF RoutedByLongestPrefix, Matching
<1>4. CASE ~ answeredHere(r) /\ i # 0
  <2>1. /\ i \in Matching(us, path)
        /\ \A j \in Matching(us, path) : Len(us[j].prefix) <= Len(us[i].prefix)
    BY <1>1, <1>4, MatchIsLongest
  <2>2. i \in DOMAIN us /\ i \in Nat /\ i > 0
    BY <1>1, <2>1, <1>4 DEF Matching
  <2>3. routed' = [asked |-> r, by |-> "upstream", at |-> i, target |-> rps[name],
                   limit |-> IF name \in DOMAIN upstreamSem THEN upstreamSem[name] ELSE 0,
                   failures |-> IF name \in DOMAIN breakers THEN breakers[name] ELSE 0]
    BY <1>4, <2>2 DEF Route
  <2>4. \A j \in Matching(us, path) \ {i} : Len(us[j].prefix) < Len(us[i].prefix)
    <3> SUFFICES ASSUME NEW j \in Matching(us, path), j # i
                 PROVE  Len(us[j].prefix) < Len(us[i].prefix)
      OBVIOUS
    <3>1. Len(us[j].prefix) # Len(us[i].prefix)
      BY <1>1, <2>1, LongestIsUnique
    <3>2. j \in DOMAIN us
      BY DEF Matching
    <3>3. Len(us[j].prefix) \in Nat /\ Len(us[i].prefix) \in Nat
      BY <1>1, <2>2, <3>2, PrefixLengths
    <3>4. Len(us[j].prefix) <= Len(us[i].prefix)
      BY <2>1
    <3> HIDE DEF us, i
    <3> QED BY <3>1, <3>3, <3>4
  <2>5. ASSUME DistinctNames
        PROVE  /\ rps[name] = us[i].target
               /\ (IF name \in DOMAIN upstreamSem THEN upstreamSem[name] ELSE 0)
                    = IF us[i].maxInFlight > 0 THEN us[i].maxInFlight ELSE 0
               /\ (IF name \in DOMAIN breakers THEN breakers[name] ELSE 0) = us[i].failures
    <3>1. \A j \in DOMAIN us : us[i].name = us[j].name => i = j
      BY <2>2, <2>5 DEF DistinctNames
    <3>2. \A key \in {"target", "maxInFlight", "failures"} :
             /\ name \in DOMAIN ByName(us, key)
                    <=> (key \in {"maxInFlight", "failures"} => us[i][key] > 0)
             /\ name \in DOMAIN ByName(us, key) => ByName(us, key)[name] = us[i][key]
      BY <1>1, <2>2, <3>1, ByOwnName
    <3>3. /\ rps = ByName(us, "target") /\ upstreamSem = ByName(us, "maxInFlight")
          /\ breakers = ByName(us, "failures")
      BY <1>1 DEF RouteInv
    <3>4. us[i].failures \in Int /\ ~ (us[i].failures < 0)
      <4>1. us[i] \in UpstreamType
        BY <1>1, <2>2, PrefixLengths
      <4>2. ~ Wrong("breaker", us, i)
        BY <1>1, <2>2, NoneWrong
      <4> QED BY <4>1, <4>2 DEF UpstreamType, Wrong
    <3> HIDE DEF us, i
    <3>5. rps[name] = us[i].target
      BY <3>2, <3>3
    <3>6. (IF name \in DOMAIN upstreamSem THEN upstreamSem[name] ELSE 0)
             = IF us[i].maxInFlight > 0 THEN us[i].maxInFlight ELSE 0
      BY <3>2, <3>3
    <3>7. (IF name \in DOMAIN breakers THEN breakers[name] ELSE 0) = us[i].failures
      BY <3>2, <3>3, <3>4
    <3> QED BY <3>5, <3>6, <3>7
  <2>6. DistinctNames' = DistinctNames
    BY <1>1 DEF DistinctNames
  <2>7. r.method = "GET" => path \notin Reserved
    BY <1>4 DEF answeredHere
  <2> HIDE DEF i
  <2> QED BY <1>1, <2>1, <2>3, <2>4, <2>5, <2>6, <2>7 DEF RoutedByLongestPrefix, Matching
<1> QED BY <1>2, <1>3, <1>4

(* Before the process serves there is nothing to say of a request (Init, Route). *)
LEMMA NotRoutedYet ==
    ASSUME routed' = NotRouted, stage' # "serving"
    PROVE  RoutedByLongestPrefix'
BY DEF NotRouted, RoutedByLongestPrefix

(* Every step keeps what requests are routed by (ReadFile, applyEnv, Validate,
   New, NewServer, Run, Route). *)
LEMMA RouteKept == ConfigInv /\ RouteInv /\ [Next]_vars => RouteInv'
<1> SUFFICES ASSUME ConfigInv, RouteInv, [Next]_vars
             PROVE  RouteInv'
  OBVIOUS
<1>0. "upstreams" \in DOMAIN cfg
  BY ZenonT(60) DEF ConfigInv, Keys
<1>1. CASE ReadFile
  <2>1. cfg'.upstreams \in Seq(UpstreamType)
    <3>1. cfg'["upstreams"] = IF "upstreams" \in DOMAIN given.file
                              THEN given.file["upstreams"] ELSE cfg["upstreams"]
      BY <1>0, <1>1 DEF ReadFile
    <3>2. "upstreams" \in DOMAIN given.file => given.file["upstreams"] \in Seq(UpstreamType)
      BY ConfigAssumption, SMTT(60) DEF RouteInv
    <3> QED BY <3>1, <3>2 DEF RouteInv
  <2>2. given' = given /\ routed' = routed /\ stage # "serving" /\ stage' = "env"
    BY <1>1 DEF ReadFile
  <2> QED BY <2>1, <2>2, NotRoutedYet DEF RouteInv
<1>2. CASE ReadFileFails
  BY <1>2, NotRoutedYet, SMTT(60) DEF ReadFileFails, Refuse, built, RouteInv
<1>3. CASE applyEnv
  <2>1. cfg'.upstreams = cfg.upstreams
    <3>1. "upstreams" \notin DOMAIN given.env
      BY ConfigAssumption DEF RouteInv
    <3>2. cfg' = [k \in DOMAIN cfg |-> IF k \in DOMAIN given.env
                                       THEN FromEnv(k, given.env[k], cfg[k]) ELSE cfg[k]]
      BY <1>3 DEF applyEnv
    <3>3. cfg'["upstreams"] = cfg["upstreams"]
      BY <1>0, <3>1, <3>2, SMTT(60)
    <3> QED BY <3>3
  <2>2. given' = given /\ routed' = routed /\ stage # "serving" /\ stage' = "validate"
    BY <1>3 DEF applyEnv
  <2> QED BY <2>1, <2>2, NotRoutedYet DEF RouteInv
<1>4. CASE Validate
  <2>1. cfg'.upstreams = cfg.upstreams /\ given' = given /\ routed' = routed
    BY <1>0, <1>4, ZenonT(60) DEF Validate, Refuse
  <2>2. stage # "serving" /\ stage' \in {"refused", "new"}
    BY <1>4 DEF Validate, Refuse
  <2> QED BY <2>1, <2>2, NotRoutedYet DEF RouteInv
<1>5. CASE New
  <2>1. CASE stage' = "refused" /\ UNCHANGED <<given, cfg, routed>>
    BY <1>5, <2>1, NotRoutedYet, SMTT(60) DEF New, RouteInv
  <2>2. CASE stage' = "server" /\ UNCHANGED <<given, cfg, routed>>
    BY <1>5, <2>2, NotRoutedYet DEF New, Refuse, RouteInv
  <2> QED BY <1>5, <2>1, <2>2, SMTT(60) DEF New, Refuse
<1>6. CASE NewServer
  BY <1>6, NotRoutedYet DEF NewServer, Refuse, built, RouteInv
<1>7. CASE Run
  <2>1. CASE stage' = "refused"
    BY <1>7, <2>1, NotRoutedYet DEF Run, Refuse, built, RouteInv
  <2>2. CASE stage' = "serving"
    <3>1. routed' = NotRouted /\ UNCHANGED <<given, cfg, built>>
      BY <1>7, <2>2 DEF Run, Refuse, RouteInv
    <3>2. \A i \in DOMAIN cfg.upstreams : ~ HasPrefix(<<>>, cfg.upstreams[i].prefix)
      <4> SUFFICES ASSUME NEW i \in DOMAIN cfg.upstreams,
                          HasPrefix(<<>>, cfg.upstreams[i].prefix)
                   PROVE  FALSE
        OBVIOUS
      <4>1. ~ Wrong("prefix", cfg.upstreams, i)
        BY <1>7, NoneWrong DEF Run, ConfigInv, Validated, Accepted
      <4>2. cfg.upstreams[i].prefix \in Seq(Words) /\ cfg.upstreams[i].prefix # <<>>
        BY <4>1, PrefixLengths DEF Wrong, RouteInv
      <4>3. Len(cfg.upstreams[i].prefix) <= Len(<<>>)
        BY SMTT(60) DEF HasPrefix
      <4> QED BY <4>2, <4>3
    <3>3. RoutedByLongestPrefix'
      BY <3>1, <3>2 DEF NotRouted, RoutedByLongestPrefix
    <3> QED BY <1>7, <2>2, <3>1, <3>3 DEF Run, built, RouteInv
  <2> QED BY <1>7, <2>1, <2>2, ZenonT(60) DEF Run, Refuse
<1>8. ASSUME NEW r \in Requests, Route(r)
      PROVE  RouteInv'
  <2>1. RoutedByLongestPrefix'
    BY <1>8, RouteStep, SMTT(60)
  <2> QED BY <1>8, <2>1 DEF Route, built, RouteInv
<1>9. CASE UNCHANGED vars
  BY <1>9 DEF vars, RouteInv, RoutedByLongestPrefix, DistinctNames
<1> QED BY <1>1, <1>2, <1>3, <1>4, <1>5, <1>6, <1>7, <1>8, <1>9 DEF Next

(* For every list of upstreams in any order and every request: unless it is a GET
   of a health path, it goes to the upstream with the longest prefix of its path,
   which is unique, or to none where nothing matches; where no two upstreams
   share a name, with the target, the limit and the breaker of that very one
   (ServeHTTP, Validate, Match, New, matchUpstream). *)
THEOREM LongestPrefixRouted == Spec => []RoutedByLongestPrefix
<1>1. Spec => []RouteInv
  BY ConfigInvariant, RouteInit, RouteKept, PTL DEF Spec
<1>2. RouteInv => RoutedByLongestPrefix
  BY DEF RouteInv
<1> QED BY <1>1, <1>2, PTL

-----------------------------------------------------------------------------
(* The locations at which the bytes of the certificate, and of the key, of
   the current attempt have been read *)
CertRead == pc \in {"readKey", "stat1Cert", "stat1Key", "parse"}
KeyRead == pc \in {"stat1Cert", "stat1Key", "parse"}

(***************************************************************************)
(* The inductive invariant.  A file that still has the modification time of*)
(* the first stat has not been written since, so the bytes read are its    *)
(* contents; the second stat carries that over to the recorded baseline.   *)
(***************************************************************************)
Barrier ==
    /\ CertRead /\ certMod = certStat0 => certBytes = certFile
    /\ KeyRead /\ keyMod = keyStat0 => keyBytes = keyFile

AttemptsLeft ==
    /\ attempt \in 0..loadAtomicMaxAttempts
    /\ pc \in {"stat0Cert", "stat0Key", "readCert", "readKey", "stat1Cert",
               "stat1Key", "parse"} => attempt < loadAtomicMaxAttempts

IInv ==
    /\ TypeOK
    /\ AttemptsLeft
    /\ Barrier
    /\ ServesAnIssuedPair
    /\ UnchangedMeansCurrent

(* The manager starts in NewServer's Load with nothing read or served. *)
LEMMA InitIInv == CertInit => IInv
  <1> SUFFICES ASSUME CertInit PROVE IInv
    OBVIOUS
  <1>1. 0 \in Gens /\ PEM(0) \in Content
    BY CertAssumption DEF Gens, PEM, Content
  <1>2. booted \in BOOLEAN /\ ~ booted
    BY Zenon DEF CertInit
  <1>3. /\ certMod \in 1..clock /\ keyMod \in 1..clock /\ clock \in Nat
        /\ lastCertMod \in 0..clock /\ lastKeyMod \in 0..clock
        /\ certStat0 \in 0..clock /\ keyStat0 \in 0..clock
        /\ certStat1 \in 0..clock /\ keyStat1 \in 0..clock
    BY DEF CertInit
  <1>4. AttemptsLeft
    BY CertAssumption DEF CertInit, AttemptsLeft
  <1>5. TypeOK
    BY <1>1, <1>2, <1>3, <1>4 DEF CertInit, TypeOK, AttemptsLeft, NoCert, Locations
  <1>6. Barrier
    BY DEF CertInit, Barrier, CertRead, KeyRead
  <1>7. ServesAnIssuedPair /\ UnchangedMeansCurrent
    BY <1>2 DEF ServesAnIssuedPair, UnchangedMeansCurrent
  <1> QED
    BY <1>4, <1>5, <1>6, <1>7 DEF IInv

(* Contents that a write can leave in a file are contents. *)
LEMMA WritesType ==
  ASSUME NEW file \in Content, NEW n \in Gens, NEW x \in Writes(file, n)
  PROVE  x \in Content
  BY DEF Writes, Content, PEM

(* Every file-system call, every operator step and every return of the
   manager preserves the invariant. *)
LEMMA NextIInv == IInv /\ [CertNext]_certVars => IInv'
  <1> SUFFICES ASSUME IInv, [CertNext]_certVars PROVE IInv'
    OBVIOUS
  <1> USE DEF Syscall, Fail
  <1>a. /\ \A g \in Gens : g # NoGen
        /\ loadAtomicMaxAttempts \in Nat \ {0}
    BY CertAssumption DEF Gens, NoGen
  <1>1. CASE UNCHANGED certVars
    BY <1>1 DEF certVars, disk, served, locals, IInv, TypeOK, AttemptsLeft, Barrier,
                ServesAnIssuedPair, UnchangedMeansCurrent, CertRead, KeyRead
  <1>2. CASE BeginRotation
    <2>1. rotating' \in Gens
      BY <1>2, CertAssumption
      DEF BeginRotation, Latest, IInv, TypeOK, Content, Gens
    <2> QED
      BY <1>2, <2>1 DEF BeginRotation, served, locals, IInv, TypeOK, AttemptsLeft,
         Barrier, ServesAnIssuedPair, UnchangedMeansCurrent, CertRead, KeyRead
  <1>3. CASE WriteCert
    <2>0. rotating \in Gens
      BY <1>3 DEF WriteCert, Settled, IInv, TypeOK
    <2>1. certFile' \in Content /\ rotating' \in Gens \cup {NoGen}
      BY <1>3, <2>0, WritesType DEF WriteCert, IInv, TypeOK
    <2>2. clock' = clock + 1 /\ certMod' = clock + 1
      BY <1>3 DEF WriteCert
    <2>3. UNCHANGED <<keyFile, keyMod, served, locals, pc, booted>>
      BY <1>3 DEF WriteCert
    <2>4. TypeOK'
      BY <2>1, <2>2, <2>3 DEF IInv, TypeOK, served, locals
    <2>5. certMod' # certStat0 /\ certMod' # lastCertMod
      BY <2>2 DEF IInv, TypeOK
    <2> QED
      BY <2>3, <2>4, <2>5 DEF served, locals, IInv, AttemptsLeft,
         Barrier, ServesAnIssuedPair, UnchangedMeansCurrent, CertRead, KeyRead
  <1>4. CASE WriteKey
    <2>0. rotating \in Gens
      BY <1>4 DEF WriteKey, Settled, IInv, TypeOK
    <2>1. keyFile' \in Content /\ rotating' \in Gens \cup {NoGen}
      BY <1>4, <2>0, WritesType DEF WriteKey, IInv, TypeOK
    <2>2. clock' = clock + 1 /\ keyMod' = clock + 1
      BY <1>4 DEF WriteKey
    <2>3. UNCHANGED <<certFile, certMod, served, locals, pc, booted>>
      BY <1>4 DEF WriteKey
    <2>4. TypeOK'
      BY <2>1, <2>2, <2>3 DEF IInv, TypeOK, served, locals
    <2>5. keyMod' # keyStat0 /\ keyMod' # lastKeyMod
      BY <2>2 DEF IInv, TypeOK
    <2> QED
      BY <2>3, <2>4, <2>5 DEF served, locals, IInv, AttemptsLeft,
         Barrier, ServesAnIssuedPair, UnchangedMeansCurrent, CertRead, KeyRead
  <1>5. CASE Poll
    <2>1. TypeOK' /\ AttemptsLeft'
      BY <1>a, <1>5 DEF Poll, IInv, TypeOK, AttemptsLeft, disk, served, locals,
         Locations
    <2>2. Barrier'
      BY <1>5, SMTT(60) DEF Poll, IInv, TypeOK, Barrier, CertRead, KeyRead, disk, locals
    <2>3. ServesAnIssuedPair' /\ UnchangedMeansCurrent'
      BY <1>5 DEF Poll, IInv, ServesAnIssuedPair, UnchangedMeansCurrent,
         disk, served
    <2> QED
      BY <2>1, <2>2, <2>3 DEF IInv
  <1>6. CASE StatCert
    <2>1. TypeOK' /\ AttemptsLeft'
      BY <1>a, <1>6 DEF StatCert, IInv, TypeOK, AttemptsLeft, disk, served, locals,
         Locations
    <2>2. Barrier'
      BY <1>6, SMTT(60) DEF StatCert, IInv, TypeOK, Barrier, CertRead, KeyRead, disk, locals
    <2>3. ServesAnIssuedPair' /\ UnchangedMeansCurrent'
      BY <1>6, Zenon DEF StatCert, IInv, ServesAnIssuedPair, UnchangedMeansCurrent,
         disk, served
    <2> QED
      BY <2>1, <2>2, <2>3 DEF IInv
  <1>7. CASE CheckAndReload
    <2>1. TypeOK' /\ AttemptsLeft'
      BY <1>a, <1>7 DEF CheckAndReload, IInv, TypeOK, AttemptsLeft, disk, served, locals,
         Locations
    <2>2. Barrier'
      BY <1>7, SMTT(60) DEF CheckAndReload, IInv, TypeOK, Barrier, CertRead, KeyRead, disk, locals
    <2>3. ServesAnIssuedPair' /\ UnchangedMeansCurrent'
      BY <1>7 DEF CheckAndReload, IInv, ServesAnIssuedPair, UnchangedMeansCurrent,
         disk, served
    <2> QED
      BY <2>1, <2>2, <2>3 DEF IInv
  <1>8. CASE Stat0Cert
    <2>1. TypeOK' /\ AttemptsLeft'
      BY <1>a, <1>8 DEF Stat0Cert, IInv, TypeOK, AttemptsLeft, disk, served, locals,
         Locations
    <2>2. Barrier'
      BY <1>8, SMTT(60) DEF Stat0Cert, IInv, TypeOK, Barrier, CertRead, KeyRead, disk, locals
    <2>3. ServesAnIssuedPair' /\ UnchangedMeansCurrent'
      BY <1>8, Zenon DEF Stat0Cert, IInv, ServesAnIssuedPair, UnchangedMeansCurrent,
         disk, served
    <2> QED
      BY <2>1, <2>2, <2>3 DEF IInv
  <1>9. CASE Stat0Key
    <2>1. TypeOK' /\ AttemptsLeft'
      BY <1>a, <1>9 DEF Stat0Key, IInv, TypeOK, AttemptsLeft, disk, served, locals,
         Locations
    <2>2. Barrier'
      BY <1>9, SMTT(60) DEF Stat0Key, IInv, TypeOK, Barrier, CertRead, KeyRead, disk, locals
    <2>3. ServesAnIssuedPair' /\ UnchangedMeansCurrent'
      BY <1>9, Zenon DEF Stat0Key, IInv, ServesAnIssuedPair, UnchangedMeansCurrent,
         disk, served
    <2> QED
      BY <2>1, <2>2, <2>3 DEF IInv
  <1>10. CASE ReadCert
    <2>1. TypeOK' /\ AttemptsLeft'
      BY <1>a, <1>10 DEF ReadCert, IInv, TypeOK, AttemptsLeft, disk, served, locals,
         Locations
    <2>2. Barrier'
      BY <1>10, SMTT(60) DEF ReadCert, IInv, TypeOK, Barrier, CertRead, KeyRead, disk, locals
    <2>3. ServesAnIssuedPair' /\ UnchangedMeansCurrent'
      BY <1>10, Zenon DEF ReadCert, IInv, ServesAnIssuedPair, UnchangedMeansCurrent,
         disk, served
    <2> QED
      BY <2>1, <2>2, <2>3 DEF IInv
  <1>11. CASE ReadKey
    <2>1. TypeOK' /\ AttemptsLeft'
      BY <1>a, <1>11 DEF ReadKey, IInv, TypeOK, AttemptsLeft, disk, served, locals,
         Locations
    <2>2. Barrier'
      BY <1>11, SMTT(60) DEF ReadKey, IInv, TypeOK, Barrier, CertRead, KeyRead, disk, locals
    <2>3. ServesAnIssuedPair' /\ UnchangedMeansCurrent'
      BY <1>11, Zenon DEF ReadKey, IInv, ServesAnIssuedPair, UnchangedMeansCurrent,
         disk, served
    <2> QED
      BY <2>1, <2>2, <2>3 DEF IInv
  <1>12. CASE Stat1Cert
    <2>1. TypeOK' /\ AttemptsLeft'
      BY <1>a, <1>12 DEF Stat1Cert, IInv, TypeOK, AttemptsLeft, disk, served, locals,
         Locations
    <2>2. Barrier'
      BY <1>12, SMTT(60) DEF Stat1Cert, IInv, TypeOK, Barrier, CertRead, KeyRead, disk, locals
    <2>3. ServesAnIssuedPair' /\ UnchangedMeansCurrent'
      BY <1>12, Zenon DEF Stat1Cert, IInv, ServesAnIssuedPair, UnchangedMeansCurrent,
         disk, served
    <2> QED
      BY <2>1, <2>2, <2>3 DEF IInv
  <1>13. CASE Stat1Key
    <2>1. TypeOK' /\ AttemptsLeft'
      BY <1>a, <1>13 DEF Stat1Key, IInv, TypeOK, AttemptsLeft, disk, served, locals,
         Locations
    <2>2. Barrier'
      BY <1>13, SMTT(60) DEF Stat1Key, IInv, TypeOK, Barrier, CertRead, KeyRead, disk, locals
    <2>3. ServesAnIssuedPair' /\ UnchangedMeansCurrent'
      BY <1>13, Zenon DEF Stat1Key, IInv, ServesAnIssuedPair, UnchangedMeansCurrent,
         disk, served
    <2> QED
      BY <2>1, <2>2, <2>3 DEF IInv
  <1>14. CASE Retry
    <2>1. TypeOK' /\ AttemptsLeft'
      BY <1>a, <1>14 DEF Retry, IInv, TypeOK, AttemptsLeft, disk, served, locals,
         Locations
    <2>2. Barrier'
      BY <1>14, SMTT(60) DEF Retry, IInv, TypeOK, Barrier, CertRead, KeyRead, disk, locals
    <2>3. ServesAnIssuedPair' /\ UnchangedMeansCurrent'
      BY <1>14 DEF Retry, IInv, ServesAnIssuedPair, UnchangedMeansCurrent,
         disk, served
    <2> QED
      BY <2>1, <2>2, <2>3 DEF IInv
  <1>15. CASE ParseError
    <2>1. TypeOK' /\ AttemptsLeft'
      BY <1>a, <1>15 DEF ParseError, IInv, TypeOK, AttemptsLeft, disk, served, locals,
         Locations
    <2>2. Barrier'
      BY <1>15, SMTT(60) DEF ParseError, IInv, TypeOK, Barrier, CertRead, KeyRead, disk, locals
    <2>3. ServesAnIssuedPair' /\ UnchangedMeansCurrent'
      BY <1>15, Zenon DEF ParseError, IInv, ServesAnIssuedPair, UnchangedMeansCurrent,
         disk, served
    <2> QED
      BY <2>1, <2>2, <2>3 DEF IInv
  <1>16. CASE GiveUp
    <2>1. TypeOK' /\ AttemptsLeft'
      BY <1>a, <1>16 DEF GiveUp, IInv, TypeOK, AttemptsLeft, disk, served, locals,
         Locations
    <2>2. Barrier'
      BY <1>16, SMTT(60) DEF GiveUp, IInv, TypeOK, Barrier, CertRead, KeyRead, disk, locals
    <2>3. ServesAnIssuedPair' /\ UnchangedMeansCurrent'
      BY <1>16 DEF GiveUp, IInv, ServesAnIssuedPair, UnchangedMeansCurrent,
         disk, served
    <2> QED
      BY <2>1, <2>2, <2>3 DEF IInv
  <1>17. CASE Install
    <2>1. /\ certBytes \in Content /\ keyBytes \in Content
          /\ certBytes.kind = "pem" /\ keyBytes.kind = "pem"
          /\ certStat0 = certStat1 /\ keyStat0 = keyStat1 /\ pc = "parse"
      BY <1>17 DEF Install, TornRead, Parsable, IInv, TypeOK
    <2>2. certBytes.gen \in Gens /\ keyBytes.gen \in Gens
      BY <2>1 DEF Content
    <2>3. /\ cert' = [certGen |-> certBytes.gen, keyGen |-> keyBytes.gen]
          /\ lastCertMod' = certStat1 /\ lastKeyMod' = keyStat1
          /\ booted' = TRUE /\ pc' = "idle"
          /\ UNCHANGED <<disk, locals>>
      BY <1>17 DEF Install
    <2>4. TypeOK' /\ AttemptsLeft'
      BY <2>2, <2>3 DEF IInv, TypeOK, AttemptsLeft, disk, locals, Locations
    <2>5. Barrier'
      BY <2>3 DEF Barrier, CertRead, KeyRead
    <2>6. ServesAnIssuedPair'
      BY <1>17, <2>2, <2>3 DEF Install, KeysMatch, ServesAnIssuedPair
    <2>7. certBytes = PEM(certBytes.gen) /\ keyBytes = PEM(keyBytes.gen)
      BY <2>1 DEF Content, PEM
    <2>8. UnchangedMeansCurrent'
      BY <2>1, <2>3, <2>7, SMTT(60) DEF IInv, Barrier, CertRead, KeyRead,
         UnchangedMeansCurrent, PEM, disk
    <2> QED
      BY <2>4, <2>5, <2>6, <2>8 DEF IInv
  <1>18. CASE Stop
    <2>1. TypeOK' /\ AttemptsLeft'
      BY <1>a, <1>18 DEF Stop, IInv, TypeOK, AttemptsLeft, disk, served, locals,
         Locations
    <2>2. Barrier'
      BY <1>18, SMTT(60) DEF Stop, IInv, TypeOK, Barrier, CertRead, KeyRead, disk, locals
    <2>3. ServesAnIssuedPair' /\ UnchangedMeansCurrent'
      BY <1>18, Zenon DEF Stop, IInv, ServesAnIssuedPair, UnchangedMeansCurrent,
         disk, served
    <2> QED
      BY <2>1, <2>2, <2>3 DEF IInv
  <1> QED
    BY <1>1, <1>2, <1>3, <1>4, <1>5, <1>6, <1>7, <1>8, <1>9, <1>10,
       <1>11, <1>12, <1>13, <1>14, <1>15, <1>16, <1>17, <1>18
    DEF CertNext, Manager, Operator

(* Every system call of the manager and every step of a rotation keeps the
   invariant. *)
LEMMA CertInvariant == CertSpec => []IInv
BY InitIInv, NextIInv, PTL DEF CertSpec

(* However rotations interleave with the manager's system calls, a handshake is
   served a certificate with its own key (Load). *)
THEOREM PairsNeverMixed == CertSpec => []ServesAnIssuedPair
<1>1. IInv => ServesAnIssuedPair
  BY DEF IInv
<1> QED BY <1>1, CertInvariant, PTL

(* When the modification times are those the manager remembers, what it serves
   is the pair on disk: no rotation hides between stat and read (Load,
   checkAndReload). *)
THEOREM UnchangedIsCurrent == CertSpec => []UnchangedMeansCurrent
<1>1. IInv => UnchangedMeansCurrent
  BY DEF IInv
<1> QED BY <1>1, CertInvariant, PTL
=============================================================================
