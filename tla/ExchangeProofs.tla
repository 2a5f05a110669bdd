--------------------------- MODULE ExchangeProofs ---------------------------
(***************************************************************************)
(* Proofs about Exchange, for every value of its constants: every body,    *)
(* every way it is cut into reads, every document and every limit.         *)
(*                                                                         *)
(*   what one document tells Info; Knows, over all the events              *)
(*   ExchangeInv(c), step by step                                          *)
(*   the theorems                                                          *)
(***************************************************************************)
EXTENDS Exchange, SSEProofs

(***************************************************************************)
(* What the parsers make of a call's Info                                  *)
(***************************************************************************)
InfoType ==
    [operation : {NoName, "chat", "embeddings"}, requestModel : Models, responseModel : Models,
     finishReasons : Nat, input : Int, output : Int, firstTokenAt : Nat,
     finished : BOOLEAN, gotFirst : BOOLEAN, assembled : Seq(Contents), firstCalls : Nat]

(* r reports what i does. *)
SameUsage(i, r) ==
    r.input = i.input /\ r.output = i.output /\ r.responseModel = i.responseModel

(* r is of the same call as i, and as far along. *)
SameCall(i, r) == r.requestModel = i.requestModel /\ (r.finished <=> i.finished)

(* No first token between i and r. *)
SameToken(i, r) ==
    /\ r.gotFirst <=> i.gotFirst
    /\ r.firstTokenAt = i.firstTokenAt /\ r.firstCalls = i.firstCalls

(* A token at event now, between i and r: it counts if it is the first. *)
TokenAt(i, now, r) ==
    IF i.gotFirst THEN SameToken(i, r)
    ELSE r.gotFirst /\ r.firstTokenAt = now /\ r.firstCalls = i.firstCalls + 1

(* The gotFirst flag (WrapStream of both providers). *)
LEMMA FirstTokenTold ==
    ASSUME NEW i \in InfoType, NEW now \in Nat
    PROVE  /\ FirstToken(i, now) \in InfoType
           /\ SameUsage(i, FirstToken(i, now)) /\ SameCall(i, FirstToken(i, now))
           /\ TokenAt(i, now, FirstToken(i, now))
<1> DEFINE n == i.firstCalls + 1
<1>1. i.firstCalls \in Nat
  BY DEF InfoType
<1>2. n \in Nat
  BY <1>1
<1>3. FirstToken(i, now) = IF i.gotFirst THEN i
          ELSE [i EXCEPT !.gotFirst = TRUE, !.firstTokenAt = now, !.firstCalls = n]
  BY DEF FirstToken
<1>4. n = i.firstCalls + 1
  OBVIOUS
<1> HIDE DEF n
<1> QED BY <1>2, <1>3, <1>4, ZenonT(60) DEF InfoType, SameUsage, SameCall, SameToken, TokenAt

(* Finish reasons change nothing else. *)
LEMMA FinishesTold ==
    ASSUME NEW i \in InfoType, NEW ch
    PROVE  /\ Finishes(i, ch) \in InfoType
           /\ SameUsage(i, Finishes(i, ch)) /\ SameCall(i, Finishes(i, ch))
           /\ SameToken(i, Finishes(i, ch))
<1> DEFINE n == i.finishReasons + 1
<1>1. i.finishReasons \in Nat
  BY DEF InfoType
<1>2. n \in Nat
  BY <1>1
<1>3. Finishes(i, ch) = IF ch.finish THEN [i EXCEPT !.finishReasons = n] ELSE i
  BY DEF Finishes
<1> HIDE DEF n
<1> QED BY <1>2, <1>3 DEF InfoType, SameUsage, SameCall, SameToken

(* Collecting the completion changes nothing else. *)
LEMMA AssembleTold ==
    ASSUME NEW i \in InfoType, NEW content \in Contents, NEW o
    PROVE  /\ Assemble(i, content, o) \in InfoType
           /\ SameUsage(i, Assemble(i, content, o)) /\ SameCall(i, Assemble(i, content, o))
           /\ SameToken(i, Assemble(i, content, o))
<1> DEFINE a == Append(i.assembled, content)
<1>1. i.assembled \in Seq(Contents)
  BY DEF InfoType
<1>2. a \in Seq(Contents)
  BY <1>1
<1>3. Assemble(i, content, o) = IF o.capture THEN [i EXCEPT !.assembled = a] ELSE i
  BY DEF Assemble
<1> HIDE DEF a
<1> QED BY <1>2, <1>3, ZenonT(60) DEF InfoType, SameUsage, SameCall, SameToken

(* A model name that is given replaces the one known. *)
LEMMA NamedTold ==
    ASSUME NEW i \in InfoType, NEW d, d.model \in Models
    PROVE  /\ Named(i, d) \in InfoType
           /\ SameCall(i, Named(i, d)) /\ SameToken(i, Named(i, d))
           /\ Named(i, d).input = i.input /\ Named(i, d).output = i.output
           /\ Named(i, d).responseModel = IF d.model = NoName THEN i.responseModel ELSE d.model
BY DEF InfoType, Named, SameCall, SameToken

(* A count that is given replaces the one known (mergeOpenAIUsage). *)
LEMMA MergeTold ==
    ASSUME NEW i \in InfoType, NEW d \in ChunkType
    PROVE  /\ mergeOpenAIUsage(i, d) \in InfoType
           /\ SameCall(i, mergeOpenAIUsage(i, d)) /\ SameToken(i, mergeOpenAIUsage(i, d))
           /\ mergeOpenAIUsage(i, d).input = Prefer(d.prompt, d.input, i.input)
           /\ mergeOpenAIUsage(i, d).output = Prefer(d.completion, d.output, i.output)
           /\ mergeOpenAIUsage(i, d).responseModel = i.responseModel
<1>1. Prefer(d.prompt, d.input, i.input) \in Int /\ Prefer(d.completion, d.output, i.output) \in Int
  BY DEF ChunkType, InfoType, Prefer
<1> QED BY <1>1, ZenonT(60) DEF InfoType, mergeOpenAIUsage, SameCall, SameToken

(* A choice of a chunk (the loop of WrapStream's callback for OpenAI). *)
LEMMA ChoiceTold ==
    ASSUME NEW i \in InfoType, NEW ch \in ChoiceType, NEW now \in Nat, NEW o
    PROVE  /\ Choice(i, ch, now, o) \in InfoType
           /\ SameUsage(i, Choice(i, ch, now, o)) /\ SameCall(i, Choice(i, ch, now, o))
           /\ IF ch.content # "absent" \/ ch.tools
              THEN TokenAt(i, now, Choice(i, ch, now, o))
              ELSE SameToken(i, Choice(i, ch, now, o))
<1> DEFINE f == Finishes(i, ch)
           t == FirstToken(f, now)
           counted == IF ch.content # "absent" \/ ch.tools THEN t ELSE f
           r == IF ch.content # "absent" THEN Assemble(counted, ch.content, o) ELSE counted
<1>1. Choice(i, ch, now, o) = r
  BY DEF Choice
<1>2. f \in InfoType /\ SameUsage(i, f) /\ SameCall(i, f) /\ SameToken(i, f)
  BY FinishesTold
<1> HIDE DEF f
<1>3. t \in InfoType /\ SameUsage(f, t) /\ SameCall(f, t) /\ TokenAt(f, now, t)
  BY <1>2, FirstTokenTold
<1> HIDE DEF t
<1>4. SameUsage(i, t) /\ SameCall(i, t) /\ TokenAt(i, now, t)
  BY <1>2, <1>3 DEF SameUsage, SameCall, SameToken, TokenAt
<1>5. counted \in InfoType /\ SameUsage(i, counted) /\ SameCall(i, counted)
  BY <1>2, <1>3, <1>4
<1>6. IF ch.content # "absent" \/ ch.tools THEN TokenAt(i, now, counted) ELSE SameToken(i, counted)
  BY <1>2, <1>4
<1> HIDE DEF counted
<1>7. ch.content \in Contents
  BY DEF ChoiceType
<1>8. r \in InfoType /\ SameUsage(counted, r) /\ SameCall(counted, r) /\ SameToken(counted, r)
  <2>1. SameUsage(counted, counted) /\ SameCall(counted, counted) /\ SameToken(counted, counted)
    BY DEF SameUsage, SameCall, SameToken
  <2> QED BY <1>5, <1>7, <2>1, AssembleTold
<1> HIDE DEF r
<1>9. SameUsage(i, r) /\ SameCall(i, r)
  BY <1>5, <1>8 DEF SameUsage, SameCall
<1>10. TokenAt(i, now, counted) => TokenAt(i, now, r)
  BY <1>8 DEF SameToken, TokenAt
<1>11. SameToken(i, counted) => SameToken(i, r)
  BY <1>8, Zenon DEF SameToken
<1> QED BY <1>1, <1>6, <1>8, <1>9, <1>10, <1>11


(* A chunk of a stream (WrapStream's callback for OpenAI): the counts and the
   name are taken where they are given, and the first choice with a token is
   the first token. *)
Told(i, d, now, r) ==
    /\ r \in InfoType /\ SameCall(i, r)
    /\ r.input = IF ReportedInput(d) = 0 THEN i.input ELSE ReportedInput(d)
    /\ r.output = IF ReportedOutput(d) = 0 THEN i.output ELSE ReportedOutput(d)
    /\ r.responseModel = IF ReportedModel(d) = NoName THEN i.responseModel ELSE ReportedModel(d)
    /\ IF HasToken(d) THEN TokenAt(i, now, r) ELSE SameToken(i, r)

(* One chunk of OpenAI (the onEvent of WrapStream). *)
LEMMA OpenAIEventTold ==
    ASSUME NEW i0 \in InfoType, NEW d \in ChunkType, NEW now \in Nat, NEW o
    PROVE  Told(i0, d, now, OpenAIEvent(i0, d, now, o))
<1> DEFINE n == Len(d.choices)
           S == InfoType
           named == Named(i0, d)
           s0 == mergeOpenAIUsage(named, d)
           Loop(f) == [k \in 0..n |-> IF k = 0 THEN s0 ELSE Choice(f[k - 1], d.choices[k], now, o)]
           upto == CHOOSE f : f = Loop(f)
           Token(ch) == ch.content # "absent" \/ ch.tools
<1>1. OpenAIEvent(i0, d, now, o) = upto[n]
  BY DEF OpenAIEvent
<1>2. /\ d.choices \in Seq(ChoiceType) /\ d.model \in Models /\ d.type = "chunk"
      /\ d.prompt \in Int /\ d.input \in Int /\ d.completion \in Int /\ d.output \in Int
  BY DEF ChunkType
<1>3. /\ named \in InfoType /\ SameCall(i0, named) /\ SameToken(i0, named)
      /\ named.input = i0.input /\ named.output = i0.output
      /\ named.responseModel = IF d.model = NoName THEN i0.responseModel ELSE d.model
  BY <1>2, NamedTold
<1>4. /\ s0 \in S /\ SameCall(named, s0) /\ SameToken(named, s0)
      /\ s0.input = Prefer(d.prompt, d.input, named.input)
      /\ s0.output = Prefer(d.completion, d.output, named.output)
      /\ s0.responseModel = named.responseModel
  <2> HIDE DEF named
  <2> QED BY <1>3, MergeTold
<1>5. n \in Nat /\ s0 \in S /\ \A k \in 1..n : \A s \in S : Choice(s, d.choices[k], now, o) \in S
  <2>1. n \in Nat /\ \A k \in 1..n : d.choices[k] \in ChoiceType
    BY <1>2
  <2>2. \A k \in 1..n : \A s \in S : Choice(s, d.choices[k], now, o) \in S
    <3> HIDE DEF n
    <3> QED BY <2>1, ChoiceTold
  <2> QED BY <1>4, <2>1, <2>2
<1> HIDE DEF named
<1>6. /\ \A i \in 0..n : upto[i] = IF i = 0 THEN s0 ELSE Choice(upto[i - 1], d.choices[i], now, o)
      /\ \A i \in 0..n : upto[i] \in S
  <2> DEFINE step == [i \in 1..n |-> [s \in S |-> Choice(s, d.choices[i], now, o)]]
  <2>1. step \in [1..n -> [S -> S]]
    BY <1>5
  <2>2. \A i \in 1..n : \A s \in S : step[i][s] = Choice(s, d.choices[i], now, o)
    OBVIOUS
  <2> HIDE DEF n, S, s0, step
  <2>3. PICK f \in [0..n -> S] : IsRun(f, n, s0, step)
    BY <2>1, <1>5, LoopRuns, Zenon
  <2>4. /\ \A i \in 0..n : i = 0 \/ (i \in 1..n /\ i - 1 \in 0..n)
        /\ \A i \in 1..n : i \in 0..n /\ i # 0
    BY <1>5
  <2>5. ASSUME NEW i \in 0..n
        PROVE  f[i] = IF i = 0 THEN s0 ELSE Choice(f[i - 1], d.choices[i], now, o)
    <3>1. CASE i = 0
      BY <2>3, <3>1 DEF IsRun
    <3>2. CASE i # 0
      <4>1. i \in 1..n /\ i - 1 \in 0..n
        BY <2>4, <3>2
      <4>2. f[i - 1] \in S
        BY <4>1
      <4>3. f[i] = step[i][f[i - 1]]
        BY <2>3, <4>1 DEF IsRun
      <4> QED BY <2>2, <3>2, <4>1, <4>2, <4>3
    <3> QED BY <3>1, <3>2
  <2>6. f = Loop(f)
    BY <2>5
  <2>7. upto = Loop(upto)
    <3> HIDE DEF Loop
    <3> QED BY <2>6 DEF upto
  <2> HIDE DEF upto
  <2>8. \A i \in 0..n : upto[i] = IF i = 0 THEN s0 ELSE Choice(upto[i - 1], d.choices[i], now, o)
    <3>1. \A i \in 0..n : Loop(upto)[i] = IF i = 0 THEN s0 ELSE Choice(upto[i - 1], d.choices[i], now, o)
      OBVIOUS
    <3> HIDE DEF Loop
    <3> QED BY <2>7, <3>1
  <2>9. \A i \in 0..n : upto[i] \in S
    <3> DEFINE P == {i \in 0..n : upto[i] \in S}
    <3>1. P \in SUBSET (0..n)
      OBVIOUS
    <3>2. 0 \in P
      BY <1>5, <2>8
    <3>3. \A i \in 1..n : i - 1 \in P => i \in P
      <4> SUFFICES ASSUME NEW i \in 1..n, upto[i - 1] \in S
                   PROVE  upto[i] \in S
        BY <2>4
      <4>1. Choice(upto[i - 1], d.choices[i], now, o) \in S
        BY <1>5
      <4> QED BY <2>4, <2>8, <4>1
    <3>4. \A i \in P : upto[i] \in S
      OBVIOUS
    <3> HIDE DEF P
    <3> QED BY <1>5, <3>1, <3>2, <3>3, <3>4, IntervalInduction, Zenon
  <2> QED BY <2>8, <2>9
<1> HIDE DEF upto, Loop
<1> DEFINE Q(k) == /\ SameUsage(s0, upto[k]) /\ SameCall(s0, upto[k])
                   /\ \/ (\E j \in 1..k : Token(d.choices[j])) /\ TokenAt(s0, now, upto[k])
                      \/ (\A j \in 1..k : ~ Token(d.choices[j])) /\ SameToken(s0, upto[k])
           P == {k \in 0..n : Q(k)}
<1>7. \A k \in 1..n : d.choices[k] \in ChoiceType
  BY <1>2
<1> HIDE DEF n, s0
<1>8. P \in SUBSET (0..n) /\ 0 \in P
  <2>1. 0 \in 0..n /\ upto[0] = s0
    BY <1>5, <1>6
  <2>2. SameUsage(s0, s0) /\ SameCall(s0, s0) /\ SameToken(s0, s0)
    BY DEF SameUsage, SameCall, SameToken
  <2> QED BY <2>1, <2>2
<1>9. ASSUME NEW k \in 1..n, k - 1 \in P
      PROVE  k \in P
  <2> DEFINE p == upto[k - 1]
             r == upto[k]
             ch == d.choices[k]
  <2>1. k \in 0..n /\ k - 1 \in 0..n /\ k # 0 /\ n \in Nat
    BY <1>5
  <2>2. p \in InfoType /\ r = Choice(p, ch, now, o) /\ ch \in ChoiceType
    BY <1>6, <1>7, <2>1
  <2>3. SameUsage(s0, p) /\ SameCall(s0, p)
    BY <1>9
  <2>4. \/ (\E j \in 1..(k - 1) : Token(d.choices[j])) /\ TokenAt(s0, now, p)
        \/ (\A j \in 1..(k - 1) : ~ Token(d.choices[j])) /\ SameToken(s0, p)
    BY <1>9
  <2>5. /\ SameUsage(p, r) /\ SameCall(p, r)
        /\ IF Token(ch) THEN TokenAt(p, now, r) ELSE SameToken(p, r)
    <3> HIDE DEF p, r, ch
    <3> QED BY <2>2, ChoiceTold
  <2>6. SameUsage(s0, r) /\ SameCall(s0, r)
    <3> HIDE DEF p, r
    <3> QED BY <2>3, <2>5 DEF SameUsage, SameCall
  <2>7. \A j \in 1..k : j \in 1..(k - 1) \/ j = k
    BY <2>1
  <2>8. \A j \in 1..(k - 1) : j \in 1..k
    BY <2>1
  <2>9. k \in 1..k
    BY <2>1
  <2>10. CASE \A j \in 1..(k - 1) : ~ Token(d.choices[j])
    <3>1. SameToken(s0, p)
      BY <2>4, <2>10
    <3>2. CASE Token(ch)
      <4>1. TokenAt(s0, now, r)
        <5>1. TokenAt(p, now, r)
          BY <2>5, <3>2
        <5> HIDE DEF p, r, Token
        <5> QED BY <3>1, <5>1 DEF SameToken, TokenAt
      <4> HIDE DEF p, r, Token
      <4> QED BY <2>1, <2>6, <2>9, <3>2, <4>1 DEF r
    <3>3. CASE ~ Token(ch)
      <4>1. SameToken(s0, r)
        <5>1. SameToken(p, r)
          BY <2>5, <3>3
        <5> HIDE DEF p, r, Token
        <5> QED BY <3>1, <5>1 DEF SameToken
      <4>2. \A j \in 1..k : ~ Token(d.choices[j])
        <5> HIDE DEF Token
        <5> QED BY <2>7, <2>10, <3>3
      <4> HIDE DEF p, r, Token
      <4> QED BY <2>1, <2>6, <4>1, <4>2 DEF r
    <3> QED BY <3>2, <3>3
  <2>11. CASE \E j \in 1..(k - 1) : Token(d.choices[j])
    <3>1. TokenAt(s0, now, p)
      BY <2>4, <2>11
    <3>2. p.gotFirst
      <4> HIDE DEF p
      <4> QED BY <3>1 DEF TokenAt, SameToken
    <3>3. SameToken(p, r)
      <4>1. TokenAt(p, now, r) \/ SameToken(p, r)
        BY <2>5
      <4> HIDE DEF p, r, Token
      <4> QED BY <3>2, <4>1 DEF TokenAt
    <3>4. TokenAt(s0, now, r)
      <4> HIDE DEF p, r, Token
      <4> QED BY <3>1, <3>3 DEF TokenAt, SameToken
    <3>5. \E j \in 1..k : Token(d.choices[j])
      <4> HIDE DEF Token
      <4> QED BY <2>8, <2>11
    <3> HIDE DEF p, r, Token
    <3> QED BY <2>1, <2>6, <3>4, <3>5 DEF r
  <2> QED BY <2>10, <2>11
<1>10. \A k \in P : Q(k)
  OBVIOUS
<1> HIDE DEF P
<1>11. n \in P
  <2>1. \A k \in 0..n : k \in P
    BY <1>5, <1>8, <1>9, IntervalInduction, Zenon
  <2> QED BY <1>5, <2>1
<1> DEFINE r == upto[n]
<1>12. /\ SameUsage(s0, r) /\ SameCall(s0, r)
       /\ \/ (\E j \in 1..n : Token(d.choices[j])) /\ TokenAt(s0, now, r)
          \/ (\A j \in 1..n : ~ Token(d.choices[j])) /\ SameToken(s0, r)
  BY <1>10, <1>11
<1>13. r \in InfoType
  BY <1>5, <1>6
<1>14. HasToken(d) <=> \E j \in 1..n : Token(d.choices[j])
  BY <1>2 DEF HasToken, n
<1> HIDE DEF r, Q, Token
<1>15. SameCall(i0, r)
  BY <1>3, <1>4, <1>12 DEF SameCall
<1>16. IF HasToken(d) THEN TokenAt(i0, now, r) ELSE SameToken(i0, r)
  <2>1. SameToken(i0, s0)
    BY <1>3, <1>4 DEF SameToken
  <2>2. TokenAt(s0, now, r) => TokenAt(i0, now, r)
    BY <2>1 DEF SameToken, TokenAt
  <2>3. SameToken(s0, r) => SameToken(i0, r)
    BY <2>1 DEF SameToken
  <2> QED BY <1>12, <1>14, <2>2, <2>3
<1>17. i0.input \in Int /\ i0.output \in Int
  BY DEF InfoType
<1>18. /\ ReportedInput(d) = (IF d.prompt > 0 THEN d.prompt ELSE Positive(d.input))
       /\ ReportedOutput(d) = (IF d.completion > 0 THEN d.completion ELSE Positive(d.output))
       /\ ReportedModel(d) = d.model
  BY <1>2 DEF ReportedInput, ReportedOutput, ReportedModel
<1>19. r.input = IF ReportedInput(d) = 0 THEN i0.input ELSE ReportedInput(d)
  <2>1. r.input = Prefer(d.prompt, d.input, i0.input)
    BY <1>3, <1>4, <1>12 DEF SameUsage
  <2> QED BY <1>2, <1>17, <1>18, <2>1 DEF Prefer, Positive
<1>20. r.output = IF ReportedOutput(d) = 0 THEN i0.output ELSE ReportedOutput(d)
  <2>1. r.output = Prefer(d.completion, d.output, i0.output)
    BY <1>3, <1>4, <1>12 DEF SameUsage
  <2> QED BY <1>2, <1>17, <1>18, <2>1 DEF Prefer, Positive
<1>21. r.responseModel = IF ReportedModel(d) = NoName THEN i0.responseModel ELSE ReportedModel(d)
  BY <1>3, <1>4, <1>12, <1>18 DEF SameUsage
<1> QED BY <1>1, <1>13, <1>15, <1>16, <1>19, <1>20, <1>21, ZenonT(60) DEF Told, r

(* An event of a stream (WrapStream's callback for Anthropic). *)
LEMMA AnthropicEventTold ==
    ASSUME NEW i \in InfoType, NEW d \in PartType, d.type # "message", NEW now \in Nat, NEW o
    PROVE  Told(i, d, now, AnthropicEvent(i, d, now, o))
<1> DEFINE r == AnthropicEvent(i, d, now, o)
<1>1. /\ d.type \in {"message", "message_start", "message_delta", "text_delta",
                     "input_json_delta", "ping"}
      /\ d.model \in Models /\ d.input \in Int /\ d.output \in Int /\ d.content \in Contents
  BY DEF PartType
<1>2. i.input \in Int /\ i.output \in Int
  BY DEF InfoType
<1>3. SameUsage(i, i) /\ SameCall(i, i) /\ SameToken(i, i)
  BY Zenon DEF SameUsage, SameCall, SameToken
<1>4. CASE d.type = "message_start"
  <2> DEFINE p == Named(i, d)
             n == Prefer(d.input, 0, p.input)
  <2>1. /\ p \in InfoType /\ SameCall(i, p) /\ SameToken(i, p)
        /\ p.input = i.input /\ p.output = i.output
        /\ p.responseModel = IF d.model = NoName THEN i.responseModel ELSE d.model
    BY <1>1, NamedTold
  <2>2. r = [p EXCEPT !.input = n]
    BY <1>4 DEF AnthropicEvent
  <2> HIDE DEF p
  <2>3. n \in Int /\ n = IF Positive(d.input) = 0 THEN i.input ELSE Positive(d.input)
    <3>1. n = Prefer(d.input, 0, i.input)
      BY <2>1
    <3> HIDE DEF n
    <3> QED BY <1>1, <1>2, <3>1 DEF Prefer, Positive
  <2> HIDE DEF n, r
  <2>4. /\ r \in InfoType /\ SameCall(p, r) /\ SameToken(p, r)
        /\ r.input = n /\ r.output = p.output /\ r.responseModel = p.responseModel
    BY <2>1, <2>2, <2>3 DEF InfoType, SameCall, SameToken
  <2>5. SameCall(i, r) /\ SameToken(i, r)
    BY <2>1, <2>4 DEF SameCall, SameToken
  <2>6. /\ ReportedInput(d) = Positive(d.input) /\ ReportedOutput(d) = 0
        /\ ReportedModel(d) = d.model /\ ~ HasToken(d)
    BY <1>4 DEF ReportedInput, ReportedOutput, ReportedModel, HasToken
  <2> QED BY <2>1, <2>3, <2>4, <2>5, <2>6, ZenonT(60) DEF Told, r
<1>5. CASE d.type = "message_delta"
  <2> DEFINE p == Finishes(i, d)
             n == Prefer(d.output, 0, p.output)
  <2>1. p \in InfoType /\ SameUsage(i, p) /\ SameCall(i, p) /\ SameToken(i, p)
    BY FinishesTold
  <2>2. r = [p EXCEPT !.output = n]
    BY <1>5 DEF AnthropicEvent
  <2> HIDE DEF p
  <2>3. n \in Int /\ n = IF Positive(d.output) = 0 THEN i.output ELSE Positive(d.output)
    <3>1. n = Prefer(d.output, 0, i.output)
      BY <2>1 DEF SameUsage
    <3> HIDE DEF n
    <3> QED BY <1>1, <1>2, <3>1 DEF Prefer, Positive
  <2> HIDE DEF n, r
  <2>4. /\ r \in InfoType /\ SameCall(p, r) /\ SameToken(p, r)
        /\ r.output = n /\ r.input = p.input /\ r.responseModel = p.responseModel
    BY <2>1, <2>2, <2>3, ZenonT(60) DEF InfoType, SameCall, SameToken
  <2>5. SameCall(i, r) /\ SameToken(i, r) /\ r.input = i.input /\ r.responseModel = i.responseModel
    BY <2>1, <2>4 DEF SameCall, SameToken, SameUsage
  <2>6. /\ ReportedOutput(d) = Positive(d.output) /\ ReportedInput(d) = 0
        /\ ReportedModel(d) = NoName /\ ~ HasToken(d)
    BY <1>5 DEF ReportedInput, ReportedOutput, ReportedModel, HasToken
  <2> QED BY <2>3, <2>4, <2>5, <2>6 DEF Told, r
<1>6. ASSUME d.type \notin {"message_start", "message_delta"}
      PROVE  ReportedInput(d) = 0 /\ ReportedOutput(d) = 0 /\ ReportedModel(d) = NoName
  BY <1>1, <1>6 DEF ReportedInput, ReportedOutput, ReportedModel
<1> DEFINE t == FirstToken(i, now)
<1>7. t \in InfoType /\ SameUsage(i, t) /\ SameCall(i, t) /\ TokenAt(i, now, t)
  BY FirstTokenTold
<1>8. CASE d.type = "text_delta" /\ HasText(d.content)
  <2>1. r = Assemble(t, d.content, o)
    BY <1>8 DEF AnthropicEvent
  <2> HIDE DEF t
  <2>2. r \in InfoType /\ SameUsage(t, r) /\ SameCall(t, r) /\ SameToken(t, r)
    BY <1>1, <1>7, <2>1, AssembleTold
  <2>3. HasToken(d)
    BY <1>8 DEF HasToken
  <2> HIDE DEF r
  <2>4. SameUsage(i, r) /\ SameCall(i, r) /\ TokenAt(i, now, r)
    BY <1>7, <2>2 DEF SameUsage, SameCall, SameToken, TokenAt
  <2> QED BY <1>6, <1>8, <2>2, <2>3, <2>4 DEF Told, SameUsage, r
<1>9. CASE d.type = "input_json_delta"
  <2>1. r = t
    BY <1>9 DEF AnthropicEvent
  <2>2. HasToken(d)
    BY <1>9 DEF HasToken
  <2> HIDE DEF t, r
  <2> QED BY <1>6, <1>7, <1>9, <2>1, <2>2 DEF Told, SameUsage, r
<1>10. CASE d.type = "ping" \/ (d.type = "text_delta" /\ ~ HasText(d.content))
  <2>1. r = i
    BY <1>10 DEF AnthropicEvent
  <2>2. ~ HasToken(d)
    BY <1>10 DEF HasToken
  <2> HIDE DEF r
  <2> QED BY <1>3, <1>6, <1>10, <2>1, <2>2 DEF Told, SameUsage, r
<1> QED BY <1>1, <1>4, <1>5, <1>8, <1>9, <1>10

-----------------------------------------------------------------------------
(* The symbols of the answer to c. *)
Symbols(c) == {c.body[i] : i \in DOMAIN c.body}

(* What a parser is given is malformed, or a document that it reads. *)
LEMMA UnmarshalFits ==
    ASSUME NEW c \in Calls, NEW data \in Seq(Symbols(c))
    PROVE  Unmarshal(data) = Malformed \/ ReadAs(c, Unmarshal(data))
<1> DEFINE names == {i \in DOMAIN data :
                        /\ data[i] \in DOMAIN Doc
                        /\ \E j \in (i + 1)..Len(data) :
                               /\ data[j] = "}"
                               /\ \A k \in DOMAIN data \ {i, j} : data[k] = "SP"}
           n == CHOOSE i \in names : TRUE
<1>1. Unmarshal(data) = IF names = {} THEN Malformed ELSE Doc[data[n]]
  BY DEF Unmarshal
<1>2. \A i \in names : i \in DOMAIN data /\ data[i] \in DOMAIN Doc
  OBVIOUS
<1> HIDE DEF names
<1>3. ASSUME names # {}
      PROVE  ReadAs(c, Doc[data[n]])
  <2>1. n \in names
    BY <1>3
  <2>2. data[n] \in Symbols(c) /\ data[n] \in DOMAIN Doc
    BY <1>2, <2>1
  <2>3. PICK k \in DOMAIN c.body : data[n] = c.body[k]
    BY <2>2, Zenon DEF Symbols
  <2> QED BY <2>2, <2>3, ExchangeAssumption
<1> QED BY <1>1, <1>3

(* A malformed document reports nothing. *)
LEMMA MalformedTold ==
    /\ ReportedInput(Malformed) = 0 /\ ReportedOutput(Malformed) = 0
    /\ ReportedModel(Malformed) = NoName /\ ~ HasToken(Malformed)
BY DEF ReportedInput, ReportedOutput, ReportedModel, HasToken, Malformed

(* One event of a stream (the callbacks of WrapStream). *)
LEMMA EventTold ==
    ASSUME NEW c \in Calls, c.kind = "stream", NEW i \in InfoType,
           NEW data \in Seq(Symbols(c)), NEW now \in Nat, NEW o
    PROVE  Told(i, Unmarshal(data), now, onEvent(c.provider, i, data, now, o))
<1> DEFINE d == Unmarshal(data)
           r == onEvent(c.provider, i, data, now, o)
<1>1. d = Malformed \/ ReadAs(c, d)
  BY UnmarshalFits
<1>2. r = IF d = Malformed THEN i
          ELSE IF c.provider = "openai" THEN OpenAIEvent(i, d, now, o)
          ELSE AnthropicEvent(i, d, now, o)
  BY DEF onEvent
<1> HIDE DEF d, r
<1>3. CASE d = Malformed
  <2>1. r = i /\ SameUsage(i, i) /\ SameCall(i, i) /\ SameToken(i, i)
    BY <1>2, <1>3 DEF SameUsage, SameCall, SameToken
  <2>2. Told(i, d, now, r)
    BY <1>3, <2>1, MalformedTold DEF Told
  <2> QED BY <2>2 DEF d, r
<1>4. CASE d # Malformed /\ c.provider = "openai"
  <2>1. d \in ChunkType /\ r = OpenAIEvent(i, d, now, o)
    BY <1>1, <1>2, <1>4 DEF ReadAs
  <2>2. Told(i, d, now, r)
    BY <2>1, OpenAIEventTold
  <2> QED BY <2>2 DEF d, r
<1>5. CASE d # Malformed /\ c.provider # "openai"
  <2>1. d \in PartType /\ d.type # "message" /\ r = AnthropicEvent(i, d, now, o)
    BY <1>1, <1>2, <1>5 DEF ReadAs
  <2>2. Told(i, d, now, r)
    BY <2>1, AnthropicEventTold
  <2> QED BY <2>2 DEF d, r
<1> QED BY <1>3, <1>4, <1>5

(* The answer of a call that is not streamed (ParseResponseJSON for OpenAI). *)
LEMMA OpenAIResponseTold ==
    ASSUME NEW i0 \in InfoType, NEW d \in ChunkType
    PROVE  /\ OpenAIResponse(i0, d) \in InfoType
           /\ SameCall(i0, OpenAIResponse(i0, d)) /\ SameToken(i0, OpenAIResponse(i0, d))
           /\ OpenAIResponse(i0, d).input = Prefer(d.prompt, d.input, i0.input)
           /\ OpenAIResponse(i0, d).output = Prefer(d.completion, d.output, i0.output)
           /\ OpenAIResponse(i0, d).responseModel = IF d.model = NoName THEN i0.responseModel ELSE d.model
<1> DEFINE n == Len(d.choices)
           S == InfoType
           merged == mergeOpenAIUsage(i0, d)
           s0 == Named(merged, d)
           Loop(f) == [k \in 0..n |-> IF k = 0 THEN s0 ELSE Finishes(f[k - 1], d.choices[k])]
           upto == CHOOSE f : f = Loop(f)
<1>1. OpenAIResponse(i0, d) = upto[n]
  BY DEF OpenAIResponse
<1>2. d.choices \in Seq(ChoiceType) /\ d.model \in Models
  BY DEF ChunkType
<1>3. /\ merged \in InfoType /\ SameCall(i0, merged) /\ SameToken(i0, merged)
      /\ merged.input = Prefer(d.prompt, d.input, i0.input)
      /\ merged.output = Prefer(d.completion, d.output, i0.output)
      /\ merged.responseModel = i0.responseModel
  BY MergeTold
<1> HIDE DEF merged
<1>4. /\ s0 \in S /\ SameCall(merged, s0) /\ SameToken(merged, s0)
      /\ s0.input = merged.input /\ s0.output = merged.output
      /\ s0.responseModel = IF d.model = NoName THEN merged.responseModel ELSE d.model
  BY <1>2, <1>3, NamedTold
<1>5. n \in Nat /\ s0 \in S /\ \A k \in 1..n : \A s \in S : Finishes(s, d.choices[k]) \in S
  <2>1. n \in Nat
    BY <1>2
  <2>2. \A k \in 1..n : \A s \in S : Finishes(s, d.choices[k]) \in S
    <3> HIDE DEF n
    <3> QED BY FinishesTold
  <2> QED BY <1>4, <2>1, <2>2
<1>6. /\ \A i \in 0..n : upto[i] = IF i = 0 THEN s0 ELSE Finishes(upto[i - 1], d.choices[i])
      /\ \A i \in 0..n : upto[i] \in S
  <2> DEFINE step == [i \in 1..n |-> [s \in S |-> Finishes(s, d.choices[i])]]
  <2>1. step \in [1..n -> [S -> S]]
    BY <1>5
  <2>2. \A i \in 1..n : \A s \in S : step[i][s] = Finishes(s, d.choices[i])
    OBVIOUS
  <2> HIDE DEF n, S, s0, step
  <2>3. PICK f \in [0..n -> S] : IsRun(f, n, s0, step)
    BY <2>1, <1>5, LoopRuns, Zenon
  <2>4. /\ \A i \in 0..n : i = 0 \/ (i \in 1..n /\ i - 1 \in 0..n)
        /\ \A i \in 1..n : i \in 0..n /\ i # 0
    BY <1>5
  <2>5. ASSUME NEW i \in 0..n
        PROVE  f[i] = IF i = 0 THEN s0 ELSE Finishes(f[i - 1], d.choices[i])
    <3>1. CASE i = 0
      BY <2>3, <3>1 DEF IsRun
    <3>2. CASE i # 0
      <4>1. i \in 1..n /\ i - 1 \in 0..n
        BY <2>4, <3>2
      <4>2. f[i - 1] \in S
        BY <4>1
      <4>3. f[i] = step[i][f[i - 1]]
        BY <2>3, <4>1 DEF IsRun
      <4> QED BY <2>2, <3>2, <4>1, <4>2, <4>3
    <3> QED BY <3>1, <3>2
  <2>6. f = Loop(f)
    BY <2>5
  <2>7. upto = Loop(upto)
    <3> HIDE DEF Loop
    <3> QED BY <2>6 DEF upto
  <2> HIDE DEF upto
  <2>8. \A i \in 0..n : upto[i] = IF i = 0 THEN s0 ELSE Finishes(upto[i - 1], d.choices[i])
    <3>1. \A i \in 0..n : Loop(upto)[i] = IF i = 0 THEN s0 ELSE Finishes(upto[i - 1], d.choices[i])
      OBVIOUS
    <3> HIDE DEF Loop
    <3> QED BY <2>7, <3>1
  <2>9. \A i \in 0..n : upto[i] \in S
    <3> DEFINE P == {i \in 0..n : upto[i] \in S}
    <3>1. P \in SUBSET (0..n)
      OBVIOUS
    <3>2. 0 \in P
      BY <1>5, <2>8
    <3>3. \A i \in 1..n : i - 1 \in P => i \in P
      <4> SUFFICES ASSUME NEW i \in 1..n, upto[i - 1] \in S
                   PROVE  upto[i] \in S
        BY <2>4
      <4>1. Finishes(upto[i - 1], d.choices[i]) \in S
        BY <1>5
      <4> QED BY <2>4, <2>8, <4>1
    <3>4. \A i \in P : upto[i] \in S
      OBVIOUS
    <3> HIDE DEF P
    <3> QED BY <1>5, <3>1, <3>2, <3>3, <3>4, IntervalInduction, Zenon
  <2> QED BY <2>8, <2>9
<1> HIDE DEF upto, Loop, n, s0
<1> DEFINE Q(k) == SameUsage(s0, upto[k]) /\ SameCall(s0, upto[k]) /\ SameToken(s0, upto[k])
           P == {k \in 0..n : Q(k)}
<1>7. P \in SUBSET (0..n) /\ 0 \in P
  <2>1. 0 \in 0..n /\ upto[0] = s0
    BY <1>5, <1>6
  <2> QED BY <2>1 DEF SameUsage, SameCall, SameToken
<1>8. ASSUME NEW k \in 1..n, k - 1 \in P
      PROVE  k \in P
  <2> DEFINE p == upto[k - 1]
             r == upto[k]
  <2>1. k \in 0..n /\ k - 1 \in 0..n /\ k # 0
    BY <1>5
  <2>2. p \in InfoType /\ r = Finishes(p, d.choices[k])
    BY <1>6, <2>1
  <2>3. SameUsage(s0, p) /\ SameCall(s0, p) /\ SameToken(s0, p)
    BY <1>8
  <2> HIDE DEF p, r
  <2>4. SameUsage(p, r) /\ SameCall(p, r) /\ SameToken(p, r)
    BY <2>2, FinishesTold
  <2>5. SameUsage(s0, r) /\ SameCall(s0, r) /\ SameToken(s0, r)
    BY <2>3, <2>4 DEF SameUsage, SameCall, SameToken
  <2> QED BY <2>1, <2>5 DEF r
<1>9. \A k \in P : Q(k)
  OBVIOUS
<1> HIDE DEF P
<1>10. n \in P
  <2>1. \A k \in 0..n : k \in P
    BY <1>5, <1>7, <1>8, IntervalInduction, ZenonT(60)
  <2> QED BY <1>5, <2>1
<1> DEFINE r == upto[n]
<1>11. SameUsage(s0, r) /\ SameCall(s0, r) /\ SameToken(s0, r) /\ r \in InfoType
  BY <1>5, <1>6, <1>9, <1>10
<1> HIDE DEF r
<1>12. SameCall(i0, r) /\ SameToken(i0, r)
  BY <1>3, <1>4, <1>11 DEF SameCall, SameToken
<1>13. /\ r.input = Prefer(d.prompt, d.input, i0.input)
       /\ r.output = Prefer(d.completion, d.output, i0.output)
       /\ r.responseModel = IF d.model = NoName THEN i0.responseModel ELSE d.model
  BY <1>3, <1>4, <1>11 DEF SameUsage
<1> QED BY <1>1, <1>11, <1>12, <1>13 DEF r

(* An answer that is not streamed is reported as it is (ParseResponseJSON). *)
LEMMA AnswerTold ==
    ASSUME NEW c \in Calls, c.kind # "stream", NEW data \in Seq(Symbols(c)),
           NEW i \in InfoType, i.input = 0, i.output = 0, i.responseModel = NoName, NEW d, NEW r,
           d = Unmarshal(data), r = ParseResponseJSON(c.provider, i, d)
    PROVE  /\ r \in InfoType /\ SameCall(i, r) /\ SameToken(i, r)
           /\ Prefer(r.input, 0, 0) = ReportedInput(d)
           /\ Prefer(r.output, 0, 0) = ReportedOutput(d)
           /\ r.responseModel = ReportedModel(d)
<1>1. d = Malformed \/ ReadAs(c, d)
  BY UnmarshalFits
<1>2. r = IF d = Malformed THEN i
          ELSE IF c.provider = "openai" THEN OpenAIResponse(i, d)
          ELSE AnthropicResponse(i, d)
  BY DEF ParseResponseJSON
<1>3. CASE d = Malformed
  <2>1. r = i /\ SameCall(i, i) /\ SameToken(i, i)
    BY <1>2, <1>3, Zenon DEF SameCall, SameToken
  <2> QED BY <1>3, <2>1, MalformedTold DEF Prefer
<1>4. CASE d # Malformed /\ c.provider = "openai"
  <2>1. d \in ChunkType /\ r = OpenAIResponse(i, d)
    BY <1>1, <1>2, <1>4, Zenon DEF ReadAs
  <2>2. /\ r \in InfoType /\ SameCall(i, r) /\ SameToken(i, r)
        /\ r.input = Prefer(d.prompt, d.input, 0)
        /\ r.output = Prefer(d.completion, d.output, 0)
        /\ r.responseModel = IF d.model = NoName THEN NoName ELSE d.model
    <3>1. /\ r \in InfoType /\ SameCall(i, r) /\ SameToken(i, r)
          /\ r.input = Prefer(d.prompt, d.input, i.input)
          /\ r.output = Prefer(d.completion, d.output, i.output)
          /\ r.responseModel = IF d.model = NoName THEN i.responseModel ELSE d.model
      <4> DEFINE a == OpenAIResponse(i, d)
      <4>1. d \in ChunkType
        BY <2>1
      <4>2. /\ a \in InfoType /\ SameCall(i, a) /\ SameToken(i, a)
            /\ a.input = Prefer(d.prompt, d.input, i.input)
            /\ a.output = Prefer(d.completion, d.output, i.output)
            /\ a.responseModel = IF d.model = NoName THEN i.responseModel ELSE d.model
        BY <4>1, OpenAIResponseTold, Zenon
      <4> HIDE DEF a
      <4> QED BY <2>1, <4>2 DEF a
    <3> QED BY <3>1, ZenonT(60)
  <2>3. /\ d.type = "chunk" /\ d.prompt \in Int /\ d.input \in Int /\ d.completion \in Int
        /\ d.output \in Int
    BY <2>1 DEF ChunkType
  <2>4. /\ ReportedInput(d) = (IF d.prompt > 0 THEN d.prompt ELSE Positive(d.input))
        /\ ReportedOutput(d) = (IF d.completion > 0 THEN d.completion ELSE Positive(d.output))
        /\ ReportedModel(d) = d.model
    BY <2>3 DEF ReportedInput, ReportedOutput, ReportedModel
  <2>5. r.input = Prefer(d.prompt, d.input, 0) /\ r.output = Prefer(d.completion, d.output, 0)
    BY <2>2
  <2>6. Prefer(r.input, 0, 0) = ReportedInput(d) /\ Prefer(r.output, 0, 0) = ReportedOutput(d)
    BY <2>3, <2>4, <2>5, Zenon DEF Prefer, Positive
  <2> QED BY <2>2, <2>4, <2>6, Zenon
<1>5. CASE d # Malformed /\ c.provider # "openai"
  <2> DEFINE p == Named(i, d)
             q == Finishes(p, d)
  <2>1. d \in PartType /\ d.type = "message" /\ r = AnthropicResponse(i, d)
    BY <1>1, <1>2, <1>5 DEF ReadAs
  <2>2. d.model \in Models /\ d.input \in Int /\ d.output \in Int
    BY <2>1, Zenon DEF PartType
  <2>3. /\ p \in InfoType /\ SameCall(i, p) /\ SameToken(i, p)
        /\ p.responseModel = d.model
    BY <2>2, NamedTold, ZenonT(60)
  <2> HIDE DEF p
  <2>4. q \in InfoType /\ SameUsage(p, q) /\ SameCall(p, q) /\ SameToken(p, q)
    BY <2>3, FinishesTold
  <2>5. r = [q EXCEPT !.input = d.input, !.output = d.output]
    BY <2>1 DEF AnthropicResponse, p
  <2> HIDE DEF q
  <2>6. /\ r \in InfoType /\ SameCall(q, r) /\ SameToken(q, r)
        /\ r.input = d.input /\ r.output = d.output /\ r.responseModel = q.responseModel
    BY <2>2, <2>4, <2>5, ZenonT(60) DEF InfoType, SameCall, SameToken
  <2>7. SameCall(i, r) /\ SameToken(i, r) /\ r.responseModel = d.model
    BY <2>3, <2>4, <2>6 DEF SameUsage, SameCall, SameToken
  <2>8. /\ ReportedInput(d) = Positive(d.input) /\ ReportedOutput(d) = Positive(d.output)
        /\ ReportedModel(d) = d.model
    BY <2>1 DEF ReportedInput, ReportedOutput, ReportedModel
  <2>9. r.input = d.input /\ r.output = d.output
    BY <2>6
  <2>10. Prefer(r.input, 0, 0) = ReportedInput(d) /\ Prefer(r.output, 0, 0) = ReportedOutput(d)
    BY <2>2, <2>8, <2>9 DEF Prefer, Positive
  <2> QED BY <2>6, <2>7, <2>8, <2>10, Zenon
<1> QED BY <1>3, <1>4, <1>5

-----------------------------------------------------------------------------
(***************************************************************************)
(* What is known after k events: the last value reported, the first token  *)
(***************************************************************************)
IsLast(f, k, absent, v) ==
    \/ v = absent /\ \A i \in 1..k : f[i] = absent
    \/ \E i \in 1..k : v = f[i] /\ f[i] # absent /\ \A j \in (i + 1)..k : f[j] = absent

(* One more report: it counts unless it is absent. *)
LEMMA LastNext ==
    ASSUME NEW k \in Nat \ {0}, NEW f, NEW absent, NEW v, NEW w, IsLast(f, k - 1, absent, v),
           w = IF f[k] = absent THEN v ELSE f[k]
    PROVE  IsLast(f, k, absent, w)
<1>1. \A i \in 1..k : i \in 1..(k - 1) \/ i = k
  OBVIOUS
<1>2. CASE f[k] # absent
  <2>1. k \in 1..k /\ \A j \in (k + 1)..k : f[j] = absent
    OBVIOUS
  <2> QED BY <1>2, <2>1 DEF IsLast
<1>3. CASE f[k] = absent
  <2>1. CASE v = absent /\ \A i \in 1..(k - 1) : f[i] = absent
    <3>1. \A i \in 1..k : f[i] = absent
      BY <1>1, <1>3, <2>1
    <3> QED BY <1>3, <2>1, <3>1 DEF IsLast
  <2>2. CASE \E i \in 1..(k - 1) : v = f[i] /\ f[i] # absent /\ \A j \in (i + 1)..(k - 1) : f[j] = absent
    <3>1. PICK i \in 1..(k - 1) : v = f[i] /\ f[i] # absent /\ \A j \in (i + 1)..(k - 1) : f[j] = absent
      BY <2>2
    <3>2. \A j \in (i + 1)..k : j \in (i + 1)..(k - 1) \/ j = k
      OBVIOUS
    <3>3. i \in 1..k /\ \A j \in (i + 1)..k : f[j] = absent
      BY <1>3, <3>1, <3>2
    <3> QED BY <1>3, <3>1, <3>3 DEF IsLast
  <2> QED BY <2>1, <2>2 DEF IsLast
<1> QED BY <1>2, <1>3

(* The last report of k depends on the first k only. *)
LEMMA LastAgrees ==
    ASSUME NEW k \in Nat, NEW f, NEW g, \A i \in 1..k : f[i] = g[i],
           NEW absent, NEW v, IsLast(f, k, absent, v)
    PROVE  IsLast(g, k, absent, v)
<1>1. CASE v = absent /\ \A i \in 1..k : f[i] = absent
  BY <1>1 DEF IsLast
<1>2. CASE \E i \in 1..k : v = f[i] /\ f[i] # absent /\ \A j \in (i + 1)..k : f[j] = absent
  <2>1. PICK i \in 1..k : v = f[i] /\ f[i] # absent /\ \A j \in (i + 1)..k : f[j] = absent
    BY <1>2
  <2>2. \A j \in (i + 1)..k : j \in 1..k
    OBVIOUS
  <2>3. v = g[i] /\ g[i] # absent /\ \A j \in (i + 1)..k : g[j] = absent
    BY <2>1, <2>2
  <2> QED BY <2>3 DEF IsLast
<1> QED BY <1>1, <1>2 DEF IsLast

(* The greatest of a set of places. *)
Greatest(set) == CHOOSE i \in set : \A j \in set : j <= i

(* The last value reported is the one at the greatest place. *)
LEMMA LastIsGreatest ==
    ASSUME NEW n \in Nat, NEW f, NEW absent, NEW v, IsLast(f, n, absent, v),
           NEW set \in SUBSET (1..n), \A i \in 1..n : i \in set <=> f[i] # absent
    PROVE  /\ set = {} <=> v = absent
           /\ set # {} => Greatest(set) \in set /\ v = f[Greatest(set)]
<1>1. CASE v = absent /\ \A i \in 1..n : f[i] = absent
  BY <1>1, Zenon
<1>2. CASE \E i \in 1..n : v = f[i] /\ f[i] # absent /\ \A j \in (i + 1)..n : f[j] = absent
  <2>1. PICK i \in 1..n : v = f[i] /\ f[i] # absent /\ \A j \in (i + 1)..n : f[j] = absent
    BY <1>2
  <2>2. i \in set
    BY <2>1
  <2>3. \A j \in set : j <= i
    <3> SUFFICES ASSUME NEW j \in set, ~ (j <= i)
                 PROVE  FALSE
      OBVIOUS
    <3>1. j \in (i + 1)..n
      OBVIOUS
    <3> QED BY <2>1, <3>1
  <2> DEFINE m == CHOOSE x \in set : \A j \in set : j <= x
  <2>4. m \in set /\ \A j \in set : j <= m
    BY <2>2, <2>3, Zenon
  <2> HIDE DEF m
  <2>5. m \in Nat /\ i \in Nat /\ m <= i /\ i <= m
    BY <2>2, <2>3, <2>4
  <2>6. m = i
    BY <2>5
  <2> QED BY <2>1, <2>2, <2>4, <2>6, Zenon DEF m, Greatest
<1> QED BY <1>1, <1>2 DEF IsLast

(* i has seen the first k events, of which those in T have a token: the first
   of them was told, once. *)
FirstIn(T, k, i) ==
    \/ ~ i.gotFirst /\ i.firstCalls = 0 /\ i.firstTokenAt = 0 /\ \A j \in 1..k : j \notin T
    \/ /\ i.gotFirst /\ i.firstCalls = 1
       /\ i.firstTokenAt \in 1..k /\ i.firstTokenAt \in T
       /\ \A j \in T : i.firstTokenAt <= j

(* The first token is the one at the least place. *)
LEMMA FirstIsLeast ==
    ASSUME NEW k \in Nat, NEW T \in SUBSET (1..k), NEW i, FirstIn(T, k, i)
    PROVE  /\ i.firstCalls = IF T = {} THEN 0 ELSE 1
           /\ i.firstTokenAt = IF T = {} THEN 0 ELSE CHOOSE x \in T : \A j \in T : x <= j
<1>1. CASE ~ i.gotFirst
  <2>1. i.firstCalls = 0 /\ i.firstTokenAt = 0 /\ \A j \in 1..k : j \notin T
    BY <1>1 DEF FirstIn
  <2>2. T = {}
    BY <2>1
  <2> QED BY <2>1, <2>2
<1>2. CASE i.gotFirst
  <2> DEFINE x == i.firstTokenAt
             m == CHOOSE y \in T : \A j \in T : y <= j
  <2>1. i.firstCalls = 1 /\ x \in T /\ \A j \in T : x <= j
    BY <1>2 DEF FirstIn
  <2> HIDE DEF x
  <2>2. m \in T /\ \A j \in T : m <= j
    BY <2>1, Zenon
  <2> HIDE DEF m
  <2>3. m \in Nat /\ x \in Nat /\ m <= x /\ x <= m
    BY <2>1, <2>2
  <2>4. m = x /\ T # {}
    BY <2>1, <2>3
  <2> QED BY <2>1, <2>4, Zenon DEF m, x
<1> QED BY <1>1, <1>2

(* One more event: its token is told if it is the first. *)
LEMMA FirstNext ==
    ASSUME NEW k \in Nat \ {0}, NEW T \in SUBSET (Nat \ {0}), NEW i, NEW r, FirstIn(T, k - 1, i),
           IF k \in T THEN TokenAt(i, k, r) ELSE SameToken(i, r)
    PROVE  FirstIn(T, k, r)
<1>1. CASE i.gotFirst
  <2>1. SameToken(i, r)
    BY <1>1 DEF TokenAt
  <2>2. /\ i.firstCalls = 1 /\ i.firstTokenAt \in 1..(k - 1) /\ i.firstTokenAt \in T
        /\ \A j \in T : i.firstTokenAt <= j
    BY <1>1 DEF FirstIn
  <2>3. r.gotFirst /\ r.firstCalls = 1 /\ r.firstTokenAt = i.firstTokenAt
    BY <1>1, <2>1, <2>2 DEF SameToken
  <2>4. r.firstTokenAt \in 1..k
    BY <2>2, <2>3
  <2> QED BY <2>2, <2>3, <2>4 DEF FirstIn
<1>2. CASE ~ i.gotFirst
  <2>1. i.firstCalls = 0 /\ i.firstTokenAt = 0 /\ \A j \in 1..(k - 1) : j \notin T
    BY <1>2 DEF FirstIn
  <2>2. CASE k \in T
    <3>1. r.gotFirst /\ r.firstTokenAt = k /\ r.firstCalls = 1
      BY <1>2, <2>1, <2>2 DEF TokenAt
    <3>2. \A j \in T : k <= j
      <4> SUFFICES ASSUME NEW j \in T, ~ (k <= j)
                   PROVE  FALSE
        OBVIOUS
      <4>1. j \in 1..(k - 1)
        OBVIOUS
      <4> QED BY <2>1, <4>1
    <3>3. k \in 1..k
      OBVIOUS
    <3> QED BY <2>2, <3>1, <3>2, <3>3 DEF FirstIn
  <2>3. CASE k \notin T
    <3>1. SameToken(i, r)
      BY <2>3
    <3>2. ~ r.gotFirst /\ r.firstCalls = 0 /\ r.firstTokenAt = 0
      BY <1>2, <2>1, <3>1 DEF SameToken
    <3>3. \A j \in 1..k : j \in 1..(k - 1) \/ j = k
      OBVIOUS
    <3>4. \A j \in 1..k : j \notin T
      BY <2>1, <2>3, <3>3
    <3> QED BY <3>2, <3>4 DEF FirstIn
  <2> QED BY <2>2, <2>3
<1> QED BY <1>1, <1>2

(* The first token of k events depends on the first k only. *)
LEMMA FirstAgrees ==
    ASSUME NEW k \in Nat, NEW T \in SUBSET (Nat \ {0}), NEW U \in SUBSET (Nat \ {0}),
           \A j \in 1..k : j \in T <=> j \in U, NEW i, FirstIn(T, k, i)
    PROVE  FirstIn(U, k, i)
<1>1. CASE ~ i.gotFirst
  BY <1>1 DEF FirstIn
<1>2. CASE i.gotFirst
  <2>1. /\ i.firstCalls = 1 /\ i.firstTokenAt \in 1..k /\ i.firstTokenAt \in T
        /\ \A j \in T : i.firstTokenAt <= j
    BY <1>2 DEF FirstIn
  <2> DEFINE x == i.firstTokenAt
  <2>2. x \in 1..k /\ x \in U /\ \A j \in T : x <= j
    BY <2>1
  <2> HIDE DEF x
  <2>3. \A j \in U : x <= j
    <3> SUFFICES ASSUME NEW j \in U, ~ (x <= j)
                 PROVE  FALSE
      OBVIOUS
    <3>1. j \in 1..k
      BY <2>2
    <3> QED BY <2>2, <3>1
  <2> QED BY <1>2, <2>1, <2>2, <2>3 DEF FirstIn, x
<1> QED BY <1>1, <1>2

(* What each event reports. *)
Inputs(ev) == [j \in DOMAIN ev |-> ReportedInput(Unmarshal(ev[j].data))]
Outputs(ev) == [j \in DOMAIN ev |-> ReportedOutput(Unmarshal(ev[j].data))]
Names(ev) == [j \in DOMAIN ev |-> ReportedModel(Unmarshal(ev[j].data))]
Tokens(ev) == {j \in DOMAIN ev : HasToken(Unmarshal(ev[j].data))}

(* i has what the first k events report. *)
Knows(i, ev, k) ==
    /\ i \in InfoType
    /\ IsLast(Inputs(ev), k, 0, i.input)
    /\ IsLast(Outputs(ev), k, 0, i.output)
    /\ IsLast(Names(ev), k, NoName, i.responseModel)
    /\ FirstIn(Tokens(ev), k, i)

(* Another event adds what it reports. *)
LEMMA KnowsNext ==
    ASSUME NEW B, NEW ev \in Seq(B), NEW k \in 1..Len(ev), NEW i, NEW r,
           Knows(i, ev, k - 1), Told(i, Unmarshal(ev[k].data), k, r)
    PROVE  Knows(r, ev, k)
<1> DEFINE d == Unmarshal(ev[k].data)
<1>1. k \in Nat \ {0} /\ k \in DOMAIN ev /\ DOMAIN ev \in SUBSET (Nat \ {0})
  OBVIOUS
<1>2. Inputs(ev)[k] = ReportedInput(d) /\ Outputs(ev)[k] = ReportedOutput(d) /\ Names(ev)[k] = ReportedModel(d)
  BY <1>1 DEF Inputs, Outputs, Names
<1>3. k \in Tokens(ev) <=> HasToken(d)
  BY <1>1 DEF Tokens
<1>4. Tokens(ev) \in SUBSET (Nat \ {0})
  BY <1>1, Zenon DEF Tokens
<1>5. /\ r \in InfoType
      /\ r.input = IF ReportedInput(d) = 0 THEN i.input ELSE ReportedInput(d)
      /\ r.output = IF ReportedOutput(d) = 0 THEN i.output ELSE ReportedOutput(d)
      /\ r.responseModel = IF ReportedModel(d) = NoName THEN i.responseModel ELSE ReportedModel(d)
      /\ IF HasToken(d) THEN TokenAt(i, k, r) ELSE SameToken(i, r)
  BY ZenonT(60) DEF Told
<1>6. /\ IsLast(Inputs(ev), k - 1, 0, i.input) /\ IsLast(Outputs(ev), k - 1, 0, i.output)
      /\ IsLast(Names(ev), k - 1, NoName, i.responseModel) /\ FirstIn(Tokens(ev), k - 1, i)
  BY DEF Knows
<1> HIDE DEF d
<1>7. IsLast(Inputs(ev), k, 0, r.input)
  BY <1>1, <1>2, <1>5, <1>6, LastNext
<1>8. IsLast(Outputs(ev), k, 0, r.output)
  BY <1>1, <1>2, <1>5, <1>6, LastNext
<1>9. IsLast(Names(ev), k, NoName, r.responseModel)
  BY <1>1, <1>2, <1>5, <1>6, LastNext
<1>10. FirstIn(Tokens(ev), k, r)
  BY <1>1, <1>3, <1>4, <1>5, <1>6, FirstNext, Zenon
<1> QED BY <1>5, <1>7, <1>8, <1>9, <1>10 DEF Knows

(* What is known of the events so far stays known when more are handed on. *)
LEMMA KnowsStays ==
    ASSUME NEW B, NEW ev \in Seq(B), NEW more \in Seq(B), Extends(ev, more), NEW i,
           Knows(i, ev, Len(ev))
    PROVE  Knows(i, more, Len(ev))
<1> DEFINE k == Len(ev)
<1>1. k \in Nat /\ \A j \in 1..k : j \in DOMAIN ev /\ j \in DOMAIN more /\ more[j] = ev[j]
  BY SMTT(60) DEF Extends
<1>2. \A j \in 1..k : /\ Inputs(ev)[j] = Inputs(more)[j] /\ Outputs(ev)[j] = Outputs(more)[j]
                      /\ Names(ev)[j] = Names(more)[j]
  BY <1>1, ZenonT(60) DEF Inputs, Outputs, Names
<1>3. \A j \in 1..k : j \in Tokens(ev) <=> j \in Tokens(more)
  BY <1>1 DEF Tokens
<1>4. Tokens(ev) \in SUBSET (Nat \ {0}) /\ Tokens(more) \in SUBSET (Nat \ {0})
  BY SMTT(60) DEF Tokens
<1>5. /\ i \in InfoType
      /\ IsLast(Inputs(ev), k, 0, i.input) /\ IsLast(Outputs(ev), k, 0, i.output)
      /\ IsLast(Names(ev), k, NoName, i.responseModel) /\ FirstIn(Tokens(ev), k, i)
  BY ZenonT(60) DEF Knows
<1> HIDE DEF k
<1>6. IsLast(Inputs(more), k, 0, i.input)
  BY <1>1, <1>2, <1>5, LastAgrees, ZenonT(60)
<1>7. IsLast(Outputs(more), k, 0, i.output)
  BY <1>1, <1>2, <1>5, LastAgrees, ZenonT(60)
<1>8. IsLast(Names(more), k, NoName, i.responseModel)
  BY <1>1, <1>2, <1>5, LastAgrees, ZenonT(60)
<1>9. FirstIn(Tokens(more), k, i)
  BY <1>1, <1>3, <1>4, <1>5, FirstAgrees, ZenonT(60)
<1> QED BY <1>5, <1>6, <1>7, <1>8, <1>9, ZenonT(60) DEF Knows, k

(* The new events of a Read, however many (the loop of drain that calls onEvent). *)
LEMMA EnrichedKnows ==
    ASSUME NEW c \in Calls, c.kind = "stream", call = c, NEW m \in Nat,
           events' \in Seq(FieldsOf(Symbols(c))), m <= Len(events'), Knows(info, events', m)
    PROVE  Knows(Enriched(m), events', Len(events')) /\ SameCall(info, Enriched(m))
<1> DEFINE n == Len(events') - m
           S == InfoType
           s0 == info
           ev == events'
           o == opts
           p == c.provider
           Loop(f) == [k \in 0..n |-> IF k = 0 THEN s0
                                      ELSE onEvent(p, f[k - 1], ev[m + k].data, m + k, o)]
           upto == CHOOSE f : f = Loop(f)
<1>1. Enriched(m) = upto[n]
  BY DEF Enriched
<1>2. ev \in Seq(FieldsOf(Symbols(c))) /\ Knows(s0, ev, m) /\ m + n = Len(ev) /\ n \in Nat
  OBVIOUS
<1>3. s0 \in S
  BY <1>2 DEF Knows
<1>4. \A k \in 1..n : m + k \in 1..Len(ev) /\ m + k \in Nat
  BY <1>2
<1>5. \A k \in 1..n : ev[m + k].data \in Seq(Symbols(c))
  <2> HIDE DEF n, ev
  <2>1. \A j \in 1..Len(ev) : ev[j] \in FieldsOf(Symbols(c))
    BY <1>2
  <2>2. \A x \in FieldsOf(Symbols(c)) : x.data \in Seq(Symbols(c))
    BY DEF FieldsOf
  <2> QED BY <1>4, <2>1, <2>2
<1> HIDE DEF n, s0, ev, o
<1>6. \A k \in 1..n : \A s \in S :
          Told(s, Unmarshal(ev[m + k].data), m + k, onEvent(p, s, ev[m + k].data, m + k, o))
  BY <1>4, <1>5, EventTold, Zenon
<1>7. n \in Nat /\ s0 \in S /\ \A k \in 1..n : \A s \in S : onEvent(p, s, ev[m + k].data, m + k, o) \in S
  BY <1>2, <1>3, <1>6, Zenon DEF Told
<1> HIDE DEF p
<1>8. /\ \A i \in 0..n : upto[i] = IF i = 0 THEN s0 ELSE onEvent(p, upto[i - 1], ev[m + i].data, m + i, o)
      /\ \A i \in 0..n : upto[i] \in S
  <2> DEFINE step == [i \in 1..n |-> [s \in S |-> onEvent(p, s, ev[m + i].data, m + i, o)]]
  <2>1. step \in [1..n -> [S -> S]]
    BY <1>7, Zenon
  <2>2. \A i \in 1..n : \A s \in S : step[i][s] = onEvent(p, s, ev[m + i].data, m + i, o)
    OBVIOUS
  <2> HIDE DEF S, step
  <2>3. PICK f \in [0..n -> S] : IsRun(f, n, s0, step)
    BY <2>1, <1>7, LoopRuns, Zenon
  <2>4. /\ \A i \in 0..n : i = 0 \/ (i \in 1..n /\ i - 1 \in 0..n)
        /\ \A i \in 1..n : i \in 0..n /\ i # 0
    BY <1>7
  <2>5. ASSUME NEW i \in 0..n
        PROVE  f[i] = IF i = 0 THEN s0 ELSE onEvent(p, f[i - 1], ev[m + i].data, m + i, o)
    <3>1. CASE i = 0
      BY <2>3, <3>1 DEF IsRun
    <3>2. CASE i # 0
      <4>1. i \in 1..n /\ i - 1 \in 0..n
        BY <2>4, <3>2
      <4>2. f[i - 1] \in S
        BY <4>1
      <4>3. f[i] = step[i][f[i - 1]]
        BY <2>3, <4>1 DEF IsRun
      <4> QED BY <2>2, <3>2, <4>1, <4>2, <4>3
    <3> QED BY <3>1, <3>2
  <2>6. f = Loop(f)
    BY <2>5
  <2>7. upto = Loop(upto)
    <3> HIDE DEF Loop
    <3> QED BY <2>6 DEF upto
  <2> HIDE DEF upto
  <2>8. \A i \in 0..n : upto[i] = IF i = 0 THEN s0 ELSE onEvent(p, upto[i - 1], ev[m + i].data, m + i, o)
    <3>1. \A i \in 0..n : Loop(upto)[i] = IF i = 0 THEN s0 ELSE onEvent(p, upto[i - 1], ev[m + i].data, m + i, o)
      OBVIOUS
    <3> HIDE DEF Loop
    <3> QED BY <2>7, <3>1
  <2>9. \A i \in 0..n : upto[i] \in S
    <3> DEFINE P == {i \in 0..n : upto[i] \in S}
    <3>1. P \in SUBSET (0..n)
      OBVIOUS
    <3>2. 0 \in P
      BY <1>7, <2>8
    <3>3. \A i \in 1..n : i - 1 \in P => i \in P
      <4> SUFFICES ASSUME NEW i \in 1..n, upto[i - 1] \in S
                   PROVE  upto[i] \in S
        BY <2>4
      <4>1. onEvent(p, upto[i - 1], ev[m + i].data, m + i, o) \in S
        BY <1>7
      <4> QED BY <2>4, <2>8, <4>1
    <3>4. \A i \in P : upto[i] \in S
      OBVIOUS
    <3> HIDE DEF P
    <3> QED BY <1>7, <3>1, <3>2, <3>3, <3>4, IntervalInduction, Zenon
  <2> QED BY <2>8, <2>9
<1> HIDE DEF upto, Loop
<1> DEFINE P == {k \in 0..n : Knows(upto[k], ev, m + k) /\ SameCall(s0, upto[k])}
<1>9. P \in SUBSET (0..n) /\ 0 \in P
  <2>1. 0 \in 0..n /\ upto[0] = s0 /\ m + 0 = m
    BY <1>7, <1>8
  <2>2. SameCall(s0, s0)
    BY DEF SameCall
  <2> QED BY <1>2, <2>1, <2>2
<1>10. ASSUME NEW k \in 1..n, k - 1 \in P
       PROVE  k \in P
  <2> DEFINE q == upto[k - 1]
             r == upto[k]
  <2>1. k \in 0..n /\ k - 1 \in 0..n /\ k # 0 /\ m + (k - 1) = (m + k) - 1
    BY <1>2
  <2>2. q \in S /\ r = onEvent(p, q, ev[m + k].data, m + k, o)
    BY <1>8, <2>1
  <2>3. Knows(q, ev, m + (k - 1)) /\ SameCall(s0, q)
    BY <1>10
  <2> HIDE DEF q, r
  <2>4. Told(q, Unmarshal(ev[m + k].data), m + k, r)
    BY <1>6, <2>2 DEF p
  <2> DEFINE x == m + k
  <2>5. x \in 1..Len(ev) /\ Knows(q, ev, x - 1) /\ Told(q, Unmarshal(ev[x].data), x, r)
    BY <1>4, <2>1, <2>3, <2>4
  <2> HIDE DEF x
  <2>6. Knows(r, ev, x)
    BY <1>2, <2>5, KnowsNext, Zenon
  <2>7. SameCall(q, r)
    BY <2>4, ZenonT(60) DEF Told
  <2>8. SameCall(s0, r)
    BY <2>3, <2>7, Zenon DEF SameCall
  <2> QED BY <2>1, <2>6, <2>8 DEF r, x
<1>11. \A k \in P : Knows(upto[k], ev, m + k) /\ SameCall(s0, upto[k])
  OBVIOUS
<1> HIDE DEF P
<1>12. n \in P
  <2>1. \A k \in 0..n : k \in P
    BY <1>7, <1>9, <1>10, IntervalInduction, Zenon
  <2> QED BY <1>7, <2>1
<1>13. Knows(upto[n], ev, m + n) /\ SameCall(s0, upto[n])
  BY <1>11, <1>12
<1> QED BY <1>1, <1>2, <1>13 DEF ev, s0

-----------------------------------------------------------------------------
(***************************************************************************)
(* The inductive invariant.  It is stated for the one call c of a behaviour,  *)
(* as a constant: the tap holds symbols of its body, the stages say what has  *)
(* been read and recorded, and info knows what the events reported.           *)
(***************************************************************************)
BodyInv(B) ==
    /\ stream \in Seq(B) /\ pos \in 0..Len(stream) /\ buf = <<>> /\ events = <<>>
    /\ once \in BOOLEAN /\ open \in BOOLEAN /\ closes = IF once THEN 1 ELSE 0
    /\ ~ once => open

(* The answer is streamed through the tap, or read as a whole. *)
AnswerInv(c) ==
    IF c.kind = "stream" THEN TapInv(Symbols(c)) ELSE BodyInv(Symbols(c))

(* The model name of the request, if it could be parsed. *)
Requested(c) == IF c.request.valid THEN c.request.model ELSE NoName

(* What recordMetrics records. *)
MetricType == [model : Models, input : Int, output : Int, firstToken : Nat,
               status : {"none", "ok", "error"}]

(* Nothing has been read. *)
Fresh == pos = 0 /\ events = <<>> /\ ~ once

(* Nothing is read or recorded before the answer; from then on the Once has run
   exactly when the call is recorded; a call that is done is recorded. *)
StageInv ==
    /\ stage \in {"request", "sent", "answered", "passed", "done"}
    /\ stage \in {"request", "sent", "passed"} => Fresh /\ recorded = <<>>
    /\ stage = "answered" => (recorded = <<>> <=> ~ once)
    /\ stage = "done" => recorded # <<>> /\ (~ once => Fresh)

(* The call is recorded at most once, and finished says so.  Info has what the
   events report, and stays that of the request until something is recorded. *)
InfoInv(c) ==
    /\ info \in InfoType
    /\ recorded = <<>> \/ \E m \in MetricType : recorded = <<m>>
    /\ recorded = <<>> => ~ info.finished
    /\ stage \in {"sent", "answered"} /\ recorded = <<>> => info.requestModel = Requested(c)
    /\ c.kind = "stream" \/ recorded = <<>> => Knows(info, events, Len(events))
    /\ FirstIn(Tokens(events), Len(events), info)

(* The part of the invariant that is not about the span and the record. *)
CallInv(c) == call = c /\ AnswerInv(c) /\ StageInv /\ InfoInv(c)

-----------------------------------------------------------------------------
(* The empty sequence. *)
LEMMA NothingYet ==
    Len(<<>>) = 0 /\ (\A j \in 1..0 : FALSE) /\ \A S : <<>> \in Seq(S)
<1>1. Len(<<>>) = 0
  OBVIOUS
<1>2. \A j \in 1..0 : FALSE
  OBVIOUS
<1>3. \A S : <<>> \in Seq(S)
  OBVIOUS
<1> QED BY <1>1, <1>2, <1>3

(* An Info that nothing was added to knows what no event reports. *)
LEMMA KnowsNothing ==
    ASSUME NEW i \in InfoType, i.input = 0, i.output = 0, i.responseModel = NoName,
           ~ i.gotFirst, i.firstCalls = 0, i.firstTokenAt = 0
    PROVE  Knows(i, <<>>, Len(<<>>)) /\ FirstIn(Tokens(<<>>), Len(<<>>), i)
<1>0. Len(<<>>) = 0
  BY NothingYet, Zenon
<1>1. \A j \in 1..0 : FALSE
  BY NothingYet, Zenon
<1>2. \A f : IsLast(f, 0, 0, i.input) /\ IsLast(f, 0, 0, i.output) /\ IsLast(f, 0, NoName, i.responseModel)
  BY <1>1 DEF IsLast
<1>3. FirstIn(Tokens(<<>>), 0, i)
  BY <1>1 DEF FirstIn
<1> QED BY <1>0, <1>2, <1>3 DEF Knows

(* NewInfo and ParseRequest know nothing of the answer. *)
LEMMA NewInfoIn ==
    ASSUME NEW op \in {NoName, "chat", "embeddings"}, NEW i, i = NewInfo(op)
    PROVE  /\ i \in InfoType /\ ~ i.finished /\ i.input = 0 /\ i.output = 0
           /\ i.responseModel = NoName /\ i.requestModel = NoName
           /\ ~ i.gotFirst /\ i.firstCalls = 0 /\ i.firstTokenAt = 0
<1>1. NoName \in Models
  BY EnrichAssumption
<1>2. <<>> \in Seq(Contents)
  BY NothingYet, Zenon
<1>3. /\ ~ i.finished /\ i.input = 0 /\ i.output = 0 /\ i.responseModel = NoName
      /\ i.requestModel = NoName /\ ~ i.gotFirst /\ i.firstCalls = 0 /\ i.firstTokenAt = 0
  BY DEF NewInfo
<1>4. i \in InfoType
  <2> DEFINE e == <<>>
  <2>1. e \in Seq(Contents) /\ i = [operation |-> op, requestModel |-> NoName, responseModel |-> NoName,
            finishReasons |-> 0, input |-> 0, output |-> 0, firstTokenAt |-> 0,
            finished |-> FALSE, gotFirst |-> FALSE, assembled |-> e, firstCalls |-> 0]
    BY <1>2 DEF NewInfo
  <2> HIDE DEF e
  <2> QED BY <1>1, <2>1 DEF InfoType
<1> QED BY <1>3, <1>4

(* What a request is parsed to. *)
LEMMA ParseRequestIn ==
    ASSUME NEW c \in Calls, NEW i, i = ParseRequest(c.provider, c.path, c.request)
    PROVE  /\ i \in InfoType /\ ~ i.finished /\ i.requestModel = Requested(c)
           /\ Knows(i, <<>>, Len(<<>>)) /\ FirstIn(Tokens(<<>>), Len(<<>>), i)
<1> DEFINE op == OperationFor(c.provider, c.path)
           new == NewInfo(op)
<1>1. op \in {NoName, "chat", "embeddings"}
  BY DEF OperationFor, OpenAIOperationFor, AnthropicOperationFor
<1> HIDE DEF op
<1>2. c.request \in RequestType
  BY ExchangeAssumption
<1>3. c.request.model \in Models
  BY <1>2 DEF RequestType
<1>4. i = IF c.request.valid THEN [new EXCEPT !.requestModel = c.request.model] ELSE new
  BY DEF ParseRequest, op
<1>5. /\ new \in InfoType /\ ~ new.finished /\ new.input = 0 /\ new.output = 0
      /\ new.responseModel = NoName /\ ~ new.gotFirst /\ new.firstCalls = 0
      /\ new.firstTokenAt = 0 /\ new.requestModel = NoName
  BY <1>1, NewInfoIn
<1> HIDE DEF new
<1>6. /\ i \in InfoType /\ ~ i.finished /\ i.input = 0 /\ i.output = 0 /\ i.responseModel = NoName
      /\ ~ i.gotFirst /\ i.firstCalls = 0 /\ i.firstTokenAt = 0
  BY <1>3, <1>4, <1>5 DEF InfoType
<1>7. i.requestModel = Requested(c)
  BY <1>3, <1>4, <1>5 DEF InfoType, Requested
<1>8. Knows(i, <<>>, Len(<<>>)) /\ FirstIn(Tokens(<<>>), Len(<<>>), i)
  BY <1>6, KnowsNothing
<1> QED BY <1>6, <1>7, <1>8

(* finished says nothing of the answer. *)
LEMMA FinishedKnows ==
    ASSUME NEW i \in InfoType, NEW ev, NEW k
    PROVE  /\ [i EXCEPT !.finished = TRUE] \in InfoType
           /\ Knows(i, ev, k) => Knows([i EXCEPT !.finished = TRUE], ev, k)
           /\ FirstIn(Tokens(ev), k, i) => FirstIn(Tokens(ev), k, [i EXCEPT !.finished = TRUE])
<1> DEFINE r == [i EXCEPT !.finished = TRUE]
<1>1. /\ r \in InfoType /\ SameUsage(i, r) /\ SameToken(i, r)
  BY ZenonT(60) DEF InfoType, SameUsage, SameToken
<1> HIDE DEF r
<1>2. FirstIn(Tokens(ev), k, i) => FirstIn(Tokens(ev), k, r)
  BY <1>1 DEF FirstIn, SameToken
<1>3. Knows(i, ev, k) => Knows(r, ev, k)
  BY <1>1, <1>2, Zenon DEF Knows, SameUsage
<1> QED BY <1>1, <1>2, <1>3 DEF r

(* The types of what is recorded. *)
LEMMA MetricsIn ==
    ASSUME NEW i \in InfoType, NEW status \in {"none", "ok", "error"}
    PROVE  recordMetrics(i, status) \in MetricType
<1>1. /\ i.responseModel \in Models /\ i.requestModel \in Models
      /\ i.input \in Int /\ i.output \in Int /\ i.firstTokenAt \in Nat
  BY DEF InfoType
<1>2. Prefer(i.input, 0, 0) \in Int /\ Prefer(i.output, 0, 0) \in Int
  BY <1>1 DEF Prefer
<1> QED BY <1>1, <1>2 DEF recordMetrics, MetricType

(* The initial states. *)
LEMMA CallInit ==
    ASSUME NEW c \in Calls, call = c, Init
    PROVE  CallInv(c)
<1>1. /\ newSSETee(c.body) /\ stage = "request" /\ info = NewInfo(NoName) /\ recorded = <<>>
  BY DEF Init
<1>2. c.body \in Seq(Symbols(c))
  <2>1. c.body \in Seq(Byte)
    BY ExchangeAssumption
  <2> QED BY <2>1 DEF Symbols
<1>3. pos = 0 /\ events = <<>> /\ once = FALSE /\ stream = c.body /\ buf = <<>> /\ closes = 0 /\ open = TRUE
  BY <1>1 DEF newSSETee
<1>4. AnswerInv(c)
  <2>1. TapInv(Symbols(c))
    BY <1>1, <1>2, TapInit
  <2>2. BodyInv(Symbols(c))
    <3>1. Len(stream) \in Nat /\ stream \in Seq(Symbols(c))
      BY <1>2, <1>3
    <3>2. pos \in 0..Len(stream)
      BY <1>3, <3>1
    <3>3. closes = IF once THEN 1 ELSE 0
      BY <1>3
    <3> QED BY <1>3, <3>1, <3>2, <3>3, Zenon DEF BodyInv
  <2> QED BY <2>1, <2>2 DEF AnswerInv
<1>5. StageInv
  BY <1>1, <1>3 DEF StageInv, Fresh
<1>6. InfoInv(c)
  <2>1. /\ info \in InfoType /\ ~ info.finished /\ Knows(info, <<>>, Len(<<>>))
        /\ FirstIn(Tokens(<<>>), Len(<<>>), info)
    BY <1>1, NewInfoIn, KnowsNothing
  <2> QED BY <1>1, <1>3, <2>1, Zenon DEF InfoInv
<1> QED BY <1>4, <1>5, <1>6 DEF CallInv

(* What the steps of a call leave alone. *)
LEMMA AnswerKept ==
    ASSUME NEW c, AnswerInv(c), UNCHANGED tap
    PROVE  AnswerInv(c)'
<1>1. /\ stream' = stream /\ pos' = pos /\ buf' = buf /\ events' = events /\ closes' = closes
      /\ once' = once /\ open' = open /\ base' = base /\ past' = past
  BY DEF tap
<1>2. SinceOverflow' = SinceOverflow
  BY <1>1 DEF SinceOverflow
<1>3. TapInv(Symbols(c)) => TapInv(Symbols(c))'
  BY <1>1, <1>2, Zenon DEF TapInv
<1>4. BodyInv(Symbols(c)) => BodyInv(Symbols(c))'
  BY <1>1, Zenon DEF BodyInv
<1> QED BY <1>3, <1>4 DEF AnswerInv

(* InfoInv speaks of the events, info and the record only. *)
LEMMA InfoKept ==
    ASSUME NEW c, InfoInv(c), info' = info, recorded' = recorded, events' = events,
           stage \in {"sent", "answered"} \/ stage' \notin {"sent", "answered"}
    PROVE  InfoInv(c)'
BY Zenon DEF InfoInv

(* A record of a call is made from what is known of it (finalize). *)
LEMMA RecordKnows ==
    ASSUME NEW c, NEW i \in InfoType, NEW status \in {"none", "ok", "error"}, recorded = <<>>,
           info' = [i EXCEPT !.finished = TRUE],
           recorded' = Append(recorded, recordMetrics(i, status)),
           c.kind = "stream" => Knows(i, events', Len(events')),
           FirstIn(Tokens(events'), Len(events'), i)
    PROVE  InfoInv(c)' /\ recorded' # <<>>
<1> DEFINE m == recordMetrics(i, status)
<1>1. m \in MetricType
  BY MetricsIn
<1>2. recorded' = <<m>> /\ recorded' # <<>>
  <2> HIDE DEF m
  <2>1. recorded' = Append(<<>>, m)
    BY DEF m
  <2> QED BY <2>1
<1> HIDE DEF m
<1>3. /\ info' \in InfoType /\ FirstIn(Tokens(events'), Len(events'), info')
      /\ c.kind = "stream" => Knows(info', events', Len(events'))
  BY FinishedKnows
<1> QED BY <1>1, <1>2, <1>3, Zenon DEF InfoInv

(* dispatch: a call that is not enriched, and one whose answer arrives *)
LEMMA CallMoves ==
    ASSUME NEW c \in Calls, CallInv(c), PassThrough \/ BodyUnread \/ modify
    PROVE  CallInv(c)'
<1>1. UNCHANGED tap /\ call' = call /\ info' = info /\ recorded' = recorded
  BY DEF PassThrough, BodyUnread, modify
<1>2. \/ stage = "request" /\ stage' = "passed"
      \/ stage = "sent" /\ stage' = "answered"
  BY DEF PassThrough, BodyUnread, modify
<1>3. events' = events /\ pos' = pos /\ once' = once
  BY <1>1 DEF tap
<1>4. AnswerInv(c)'
  BY <1>1, AnswerKept DEF CallInv
<1>5. InfoInv(c)'
  <2>1. stage \in {"sent", "answered"} \/ stage' \notin {"sent", "answered"}
    BY <1>2
  <2> QED BY <1>1, <1>3, <2>1, InfoKept DEF CallInv
<1>6. StageInv'
  BY <1>1, <1>2, <1>3 DEF CallInv, StageInv, Fresh
<1> QED BY <1>1, <1>4, <1>5, <1>6 DEF CallInv

(* The request is parsed and sent (dispatch). *)
LEMMA CallSend ==
    ASSUME NEW c \in Calls, CallInv(c), Send
    PROVE  CallInv(c)'
<1>1. /\ UNCHANGED tap /\ call' = call /\ recorded' = recorded /\ stage = "request" /\ stage' = "sent"
      /\ info' = ParseRequest(c.provider, c.path, c.request)
  BY DEF Send, CallInv
<1>2. events' = events /\ pos' = pos /\ once' = once
  BY <1>1 DEF tap
<1>3. recorded = <<>> /\ events = <<>> /\ Fresh
  BY <1>1 DEF CallInv, StageInv, Fresh
<1>4. AnswerInv(c)'
  BY <1>1, AnswerKept, Zenon DEF CallInv
<1>5. /\ info' \in InfoType /\ ~ info'.finished /\ info'.requestModel = Requested(c)
      /\ Knows(info', <<>>, Len(<<>>)) /\ FirstIn(Tokens(<<>>), Len(<<>>), info')
  BY <1>1, ParseRequestIn, Zenon
<1>6. InfoInv(c)'
  BY <1>1, <1>2, <1>3, <1>5, Zenon DEF InfoInv
<1>7. StageInv'
  BY <1>1, <1>2, <1>3 DEF StageInv, Fresh
<1> QED BY <1>1, <1>4, <1>6, <1>7 DEF CallInv

(* The upstream is not reached: dispatch finalizes. *)
LEMMA CallUnanswered ==
    ASSUME NEW c \in Calls, CallInv(c), Unanswered
    PROVE  CallInv(c)'
<1>1. UNCHANGED tap /\ call' = call /\ stage = "sent" /\ stage' = "done"
  BY DEF Unanswered
<1>2. events' = events /\ pos' = pos /\ once' = once
  BY <1>1 DEF tap
<1>3. recorded = <<>> /\ Fresh
  BY <1>1 DEF CallInv, StageInv
<1>4. AnswerInv(c)'
  BY <1>1, AnswerKept DEF CallInv
<1>5. /\ info \in InfoType /\ Knows(info, events', Len(events'))
      /\ FirstIn(Tokens(events'), Len(events'), info)
  BY <1>2, <1>3 DEF CallInv, InfoInv
<1>6. /\ info' = [info EXCEPT !.finished = TRUE]
      /\ recorded' = Append(recorded, recordMetrics(info, "none"))
  BY <1>3 DEF Unanswered, finalize
<1>7. InfoInv(c)' /\ recorded' # <<>>
  BY <1>3, <1>5, <1>6, RecordKnows
<1>8. StageInv'
  BY <1>1, <1>2, <1>3, <1>7 DEF StageInv, Fresh
<1> QED BY <1>1, <1>4, <1>7, <1>8 DEF CallInv

(* ServeHTTP returns: the call was finalized, or is now. *)
LEMMA CallReturn ==
    ASSUME NEW c \in Calls, CallInv(c), Return
    PROVE  /\ CallInv(c)' /\ recorded # <<>>
           /\ UNCHANGED <<stream, pos, events, span, recorded, info>>
<1>1. UNCHANGED tap /\ call' = call /\ stage = "answered" /\ stage' = "done" /\ ~ open
  BY DEF Return
<1>2. events' = events /\ pos' = pos /\ once' = once /\ stream' = stream
  BY <1>1, Zenon DEF tap
<1>3. once
  BY <1>1, Zenon DEF CallInv, AnswerInv, TapInv, BodyInv
<1>4. recorded # <<>>
  BY <1>1, <1>3 DEF CallInv, StageInv
<1>5. info' = info /\ span' = span /\ recorded' = recorded
  BY <1>4 DEF Return, finalize
<1>6. AnswerInv(c)'
  BY <1>1, AnswerKept DEF CallInv
<1>7. InfoInv(c)'
  BY <1>1, <1>2, <1>5, InfoKept DEF CallInv
<1>8. StageInv'
  BY <1>1, <1>2, <1>3, <1>4, <1>5 DEF StageInv
<1> QED BY <1>1, <1>2, <1>4, <1>5, <1>6, <1>7, <1>8 DEF CallInv

-----------------------------------------------------------------------------
(***************************************************************************)
(* What a span may show                                                    *)
(***************************************************************************)
(* What a profile masks. *)
MaskedBy(profile) ==
    IF profile = "default" THEN {"key"}
    ELSE IF profile = "strict" THEN {"key", "card"} ELSE {}

(* The texts that a profile lets through. *)
Kept(c) == {t \in SUBSET Items : t \cap MaskedBy(c.redact) = {}}

(* An event of the span of c. *)
EventType(c) == [name : {"message", "system", "choice"}, text : Kept(c)]

(* The attributes of a span. *)
AttrType == [model : Models, finishReasons : Nat, input : Int, output : Int]

(* The span of c: its events and its snippet hold text the profile lets through. *)
SpanType(c) == [events : Seq(EventType(c)), attrs : AttrType, snippet : Kept(c)]

(* Such a span, without text unless content.mode is events. *)
SpanInv(c) ==
    span \in SpanType(c) /\ (c.mode # "events" => span.events = <<>> /\ span.snippet = {})

(* What goes through Clean has nothing left that the profile masks, whether the
   profile is off, unset, one of the two or unknown (Clean, redact.Func). *)
LEMMA CleanKept ==
    ASSUME NEW c, NEW t \in SUBSET Items
    PROVE  Clean(ContentOpts(c), t) \in Kept(c)
<1> DEFINE p == c.redact
           f == Func(p)
<1>1. NoName # "default" /\ NoName # "strict"
  BY Zenon DEF NoName
<1>2. Clean(ContentOpts(c), t) = IF f = "nil" THEN t ELSE Apply(t, f)
  BY DEF Clean, ContentOpts
<1>3. f = IF p \in {"off", NoName} THEN "nil" ELSE p
  BY DEF Func
<1>4. Kept(c) = {x \in SUBSET Items : x \cap MaskedBy(p) = {}}
  BY DEF Kept
<1> HIDE DEF p, f
<1>5. CASE p = "default"
  <2>1. f = "default" /\ MaskedBy(p) = {"key"}
    BY <1>1, <1>3, <1>5 DEF MaskedBy
  <2>2. Clean(ContentOpts(c), t) = t \ {"key"}
    BY <1>2, <2>1 DEF Apply, defaultPatterns
  <2> QED BY <1>4, <2>1, <2>2
<1>6. CASE p = "strict"
  <2>1. f = "strict" /\ MaskedBy(p) = {"key", "card"}
    BY <1>1, <1>3, <1>6 DEF MaskedBy
  <2>2. Clean(ContentOpts(c), t) = (t \ {"key"}) \ {"card"}
    BY <1>2, <2>1 DEF Apply, defaultPatterns, strictPatterns
  <2> QED BY <1>4, <2>1, <2>2
<1>7. CASE p # "default" /\ p # "strict"
  <2>1. f # "default" /\ f # "strict" /\ MaskedBy(p) = {}
    BY <1>3, <1>7 DEF MaskedBy
  <2>2. Clean(ContentOpts(c), t) = t
    BY <1>2, <2>1 DEF Apply
  <2> QED BY <1>4, <2>1, <2>2
<1> QED BY <1>5, <1>6, <1>7

(* The text of a span event is cleaned. *)
LEMMA SpanEventKept ==
    ASSUME NEW c, NEW t \in SUBSET Items, NEW name \in {"message", "system", "choice"}
    PROVE  SpanEvent(name, ContentOpts(c), t) \in EventType(c)
BY CleanKept DEF SpanEvent, EventType

(* The texts of a request (RequestEvents). *)
LEMMA RequestEventsKept ==
    ASSUME NEW c \in Calls, NEW i, NEW ev,
           ev = RequestEvents(c.provider, i, c.request, ContentOpts(c))
    PROVE  ev \in Seq(EventType(c)) /\ (c.mode # "events" => ev = <<>>)
<1> DEFINE o == ContentOpts(c)
           n == c.request.messages
           m == MessageEvents(c.request, o)
           e == SpanEvent("message", o, Items)
           s == SpanEvent("system", o, Items)
<1>1. o.capture <=> c.mode = "events"
  BY ZenonT(60) DEF ContentOpts
<1>2. e \in EventType(c) /\ s \in EventType(c)
  BY SpanEventKept
<1>3. n \in Nat
  <2>1. c.request \in RequestType
    BY ExchangeAssumption
  <2> QED BY <2>1 DEF RequestType
<1>4. m \in Seq(EventType(c))
  <2>1. m = [j \in 1..n |-> e]
    BY DEF MessageEvents
  <2> HIDE DEF m, n, e
  <2>2. m \in [1..n -> EventType(c)]
    BY <1>2, <2>1
  <2> QED BY <1>3, <2>2, IsSeq
<1>5. AnthropicRequestEvents(c.request, o) \in Seq(EventType(c))
  <2>1. AnthropicRequestEvents(c.request, o) = (IF c.request.system THEN <<s>> ELSE <<>>) \o m
    BY DEF AnthropicRequestEvents
  <2> HIDE DEF m, s, o
  <2> QED BY <1>2, <1>4, <2>1
<1>6. ev = IF ~ (o.capture /\ c.request.valid) THEN <<>>
           ELSE IF c.provider = "anthropic" THEN AnthropicRequestEvents(c.request, o)
           ELSE IF i.operation = "chat" THEN m
           ELSE <<>>
  BY DEF RequestEvents
<1> HIDE DEF o, m
<1>7. ev \in Seq(EventType(c))
  <2>1. <<>> \in Seq(EventType(c))
    BY NothingYet, Zenon
  <2> QED BY <1>4, <1>5, <1>6, <2>1, Zenon
<1>8. c.mode # "events" => ev = <<>>
  BY <1>1, <1>6, Zenon
<1> QED BY <1>7, <1>8

(* What a string holds, as JSON and decoded. *)
LEMMA TextIn ==
    ASSUME NEW x
    PROVE  RawText(x) \in SUBSET Items /\ PlainText(x) \in SUBSET Items
<1>1. {"part"} \subseteq Items /\ Sensitive \subseteq Items /\ {} \subseteq Items
  BY DEF Items
<1> QED BY <1>1 DEF RawText, PlainText

(* The texts of an answer that is not streamed (ResponseEvents). *)
LEMMA ResponseEventsKept ==
    ASSUME NEW c \in Calls, NEW i, NEW d, d = Malformed \/ ReadAs(c, d), NEW ev,
           ev = ResponseEvents(c.provider, i, d, ContentOpts(c))
    PROVE  ev \in Seq(EventType(c)) /\ (c.mode # "events" => ev = <<>>)
<1> DEFINE o == ContentOpts(c)
<1>1. o.capture <=> c.mode = "events"
  BY Zenon DEF ContentOpts
<1>2. \A x : RawText(x) \in SUBSET Items /\ PlainText(x) \in SUBSET Items
  BY TextIn
<1>3. \A x : /\ SpanEvent("choice", o, RawText(x)) \in EventType(c)
            /\ SpanEvent("choice", o, PlainText(x)) \in EventType(c)
  BY <1>2, SpanEventKept
<1>4. <<>> \in Seq(EventType(c))
  BY NothingYet, Zenon
<1>5. ev = IF ~ o.capture \/ d = Malformed THEN <<>>
           ELSE IF c.provider = "openai" THEN OpenAIResponseEvents(i, d, o)
           ELSE AnthropicResponseEvents(d, o)
  BY DEF ResponseEvents
<1> HIDE DEF o
<1>6. ASSUME d # Malformed, c.provider = "openai"
      PROVE  OpenAIResponseEvents(i, d, o) \in Seq(EventType(c))
  <2>1. d.choices \in Seq(ChoiceType)
    BY <1>6 DEF ReadAs, ChunkType
  <2> DEFINE n == Len(d.choices)
             evs == [j \in DOMAIN d.choices |-> SpanEvent("choice", o, RawText(d.choices[j].content))]
  <2>2. n \in Nat /\ DOMAIN d.choices = 1..n
    BY <2>1, SMTT(60)
  <2>3. evs \in [1..n -> EventType(c)]
    <3> HIDE DEF n
    <3> QED BY <1>3, <2>2, ZenonT(60)
  <2>4. evs \in Seq(EventType(c))
    <3> HIDE DEF evs, n
    <3> QED BY <2>2, <2>3, IsSeq
  <2>5. OpenAIResponseEvents(i, d, o) = IF i.operation # "chat" THEN <<>> ELSE evs
    BY DEF OpenAIResponseEvents
  <2> HIDE DEF evs
  <2> QED BY <1>4, <2>4, <2>5
<1>7. AnthropicResponseEvents(d, o) \in Seq(EventType(c))
  <2> DEFINE e == SpanEvent("choice", o, PlainText(d.content))
  <2>1. e \in EventType(c)
    BY <1>3
  <2>2. AnthropicResponseEvents(d, o) = IF ~ HasText(d.content) THEN <<>> ELSE <<e>>
    BY DEF AnthropicResponseEvents
  <2> HIDE DEF e
  <2> QED BY <1>4, <2>1, <2>2
<1>8. ev \in Seq(EventType(c))
  BY <1>4, <1>5, <1>6, <1>7, Zenon
<1>9. c.mode # "events" => ev = <<>>
  BY <1>1, <1>5, ZenonT(60)
<1> QED BY <1>8, <1>9

(* The text that a stream assembled (the closer of WrapStream). *)
LEMMA AssembledKept ==
    ASSUME NEW c, NEW i, NEW ev, ev = AssembledEvents(c.provider, i, ContentOpts(c))
    PROVE  ev \in Seq(EventType(c)) /\ (c.mode # "events" => ev = <<>>)
<1> DEFINE o == ContentOpts(c)
           t == Assembled(c.provider, i)
           e == SpanEvent("choice", o, t)
<1>1. o.capture <=> c.mode = "events"
  BY Zenon DEF ContentOpts
<1>2. t \in SUBSET Items
  <2>1. \A x : RawText(x) \subseteq Items /\ PlainText(x) \subseteq Items
    BY TextIn
  <2>2. RawDeltas(i.assembled) \subseteq Items
    BY <2>1 DEF RawDeltas
  <2>3. {"key"} \subseteq Items
    BY DEF Items, Sensitive, defaultPatterns
  <2>4. PlainDeltas(i.assembled) \subseteq Items
    BY <2>1, <2>3, Zenon DEF PlainDeltas
  <2> QED BY <2>2, <2>4 DEF Assembled
<1> HIDE DEF t
<1>3. e \in EventType(c)
  BY <1>2, SpanEventKept
<1>4. ev = IF o.capture /\ i.assembled # <<>> THEN <<e>> ELSE <<>>
  BY Zenon DEF AssembledEvents, t
<1>5. <<>> \in Seq(EventType(c))
  BY NothingYet, Zenon
<1> HIDE DEF o, e
<1>6. <<e>> \in Seq(EventType(c))
  BY <1>3
<1> QED BY <1>1, <1>4, <1>5, <1>6

(* The types of responseAttrs. *)
LEMMA AttrsIn ==
    ASSUME NEW i \in InfoType
    PROVE  responseAttrs(i) \in AttrType
<1>1. i.responseModel \in Models /\ i.finishReasons \in Nat /\ i.input \in Int /\ i.output \in Int
  BY DEF InfoType
<1>2. Prefer(i.input, 0, 0) \in Int /\ Prefer(i.output, 0, 0) \in Int
  BY <1>1 DEF Prefer
<1> QED BY <1>1, <1>2 DEF responseAttrs, AttrType

(* The span that a call starts with, and the one it ends with (finishSpan). *)
LEMMA SpanStarts ==
    ASSUME NEW c, span = [events |-> <<>>, attrs |-> NoAttrs, snippet |-> {}]
    PROVE  SpanInv(c)
<1>1. {} \in Kept(c)
  BY DEF Kept
<1>2. NoName \in Models
  BY EnrichAssumption
<1>3. NoAttrs \in AttrType
  BY <1>2 DEF NoAttrs, AttrType
<1> DEFINE e == <<>>
<1>4. e \in Seq(EventType(c)) /\ e = <<>>
  BY NothingYet, ZenonT(60)
<1>5. span = [events |-> e, attrs |-> NoAttrs, snippet |-> {}]
  OBVIOUS
<1> HIDE DEF e
<1>6. span.events = e /\ span.snippet = {} /\ span \in SpanType(c)
  BY <1>1, <1>3, <1>4, <1>5 DEF SpanType
<1> QED BY <1>4, <1>6 DEF SpanInv

(* The span with attributes set and events added. *)
SpanWith(a, ev) == [span EXCEPT !.attrs = a, !.events = @ \o ev]

(* Attributes and cleaned events keep a span one of c. *)
LEMMA SpanGrows ==
    ASSUME NEW c, SpanInv(c), NEW a \in AttrType, NEW ev \in Seq(EventType(c)),
           c.mode # "events" => ev = <<>>
    PROVE  /\ SpanWith(a, ev) \in SpanType(c)
           /\ SpanWith(a, ev).attrs = a
           /\ c.mode # "events" => SpanWith(a, ev).events = <<>>
<1> DEFINE all == span.events \o ev
           s == SpanWith(a, ev)
<1>1. /\ span \in SpanType(c) /\ span.events \in Seq(EventType(c))
      /\ c.mode # "events" => span.events = <<>>
  BY DEF SpanInv, SpanType
<1>2. all \in Seq(EventType(c)) /\ (c.mode # "events" => all = <<>>)
  <2> DEFINE x == span.events
  <2>1. x \in Seq(EventType(c)) /\ (c.mode # "events" => x = <<>>)
    BY <1>1
  <2> HIDE DEF x
  <2>2. x \o ev \in Seq(EventType(c))
    BY <2>1
  <2>3. x = <<>> /\ ev = <<>> => x \o ev = <<>>
    OBVIOUS
  <2> QED BY <2>1, <2>2, <2>3 DEF x
<1>3. s = [span EXCEPT !.attrs = a, !.events = all]
  BY DEF SpanWith
<1> HIDE DEF all, s
<1>4. s \in SpanType(c) /\ s.attrs = a /\ s.events = all
  BY <1>1, <1>2, <1>3, Zenon DEF SpanType
<1>5. s \in SpanType(c) /\ s.attrs = a /\ (c.mode # "events" => s.events = <<>>)
  BY <1>2, <1>4
<1> QED BY <1>5 DEF s

(* So does the snippet of finishSpan. *)
LEMMA SpanEnds ==
    ASSUME NEW c, NEW s \in SpanType(c), c.mode # "events" => s.events = <<>>,
           NEW snippet \in Kept(c),
           span' = [s EXCEPT !.snippet = IF ContentOpts(c).capture THEN snippet ELSE {}]
    PROVE  SpanInv(c)' /\ span'.attrs = s.attrs
<1> DEFINE x == IF ContentOpts(c).capture THEN snippet ELSE {}
<1>1. x \in Kept(c) /\ (c.mode # "events" => x = {})
  BY Zenon DEF ContentOpts, Kept
<1>2. span' = [s EXCEPT !.snippet = x]
  OBVIOUS
<1> HIDE DEF x
<1>3. span' \in SpanType(c) /\ span'.attrs = s.attrs /\ span'.events = s.events /\ span'.snippet = x
  BY <1>1, <1>2, ZenonT(60) DEF SpanType
<1> QED BY <1>1, <1>3 DEF SpanInv

-----------------------------------------------------------------------------
(***************************************************************************)
(* A call's record tells what its answer reported                          *)
(***************************************************************************)
(* The document in what was kept of a JSON answer. *)
KeptDoc == Unmarshal(head(maxEnrichmentBodyBytes))

(* i has what the answer to c reported: its events, or the document kept of it. *)
Tells(c, i) ==
    /\ i.requestModel = Requested(c)
    /\ FirstIn(Tokens(events), Len(events), i)
    /\ c.kind # "json" => Knows(i, events, Len(events))
    /\ c.kind = "json" => /\ Prefer(i.input, 0, 0) = ReportedInput(KeptDoc)
                          /\ Prefer(i.output, 0, 0) = ReportedOutput(KeptDoc)
                          /\ i.responseModel = ReportedModel(KeptDoc)

(* The answer to c held a document. *)
Heard(c) ==
    \/ c.kind = "stream" /\ events # <<>>
    \/ c.kind = "json" /\ KeptDoc # Malformed

(* The record and the attributes of the span come from one Info, which has what
   the answer reported. *)
RecordInv(c) ==
    recorded # <<>> =>
        \E i \in InfoType : \E status \in {"none", "ok", "error"} :
            /\ recorded = <<recordMetrics(i, status)>>
            /\ Tells(c, i)
            /\ Heard(c) => span.attrs = responseAttrs(i)

(* RecordInv speaks of what was read, the events, the span and the record. *)
LEMMA RecordKept ==
    ASSUME NEW c, RecordInv(c), stream' = stream, pos' = pos, events' = events, span' = span,
           recorded' = recorded
    PROVE  RecordInv(c)'
<1>1. KeptDoc' = KeptDoc
  BY DEF KeptDoc, head
<1>2. \A i : Tells(c, i)' <=> Tells(c, i)
  BY <1>1, Zenon DEF Tells
<1>3. Heard(c)' <=> Heard(c)
  BY <1>1 DEF Heard
<1> QED BY <1>2, <1>3 DEF RecordInv

(* What finalize records from an Info that has it all. *)
LEMMA RecordTells ==
    ASSUME NEW c, NEW i \in InfoType, NEW status \in {"none", "ok", "error"}, recorded = <<>>,
           recorded' = Append(recorded, recordMetrics(i, status)), Tells(c, i)',
           Heard(c)' => span'.attrs = responseAttrs(i)
    PROVE  RecordInv(c)'
<1> DEFINE m == recordMetrics(i, status)
<1>1. recorded' = <<m>>
  <2> HIDE DEF m
  <2>1. recorded' = Append(<<>>, m)
    BY DEF m
  <2> QED BY <2>1
<1> QED BY <1>1 DEF RecordInv

(* Nothing read, nothing kept. *)
LEMMA FreshKeeps ==
    ASSUME NEW B, stream \in Seq(B), pos = 0
    PROVE  KeptDoc = Malformed
<1>1. maxEnrichmentBodyBytes \in Nat
  BY ExchangeAssumption
<1>2. head(maxEnrichmentBodyBytes) = <<>>
  <2>1. head(maxEnrichmentBodyBytes) = SubSeq(stream, 1, 0)
    BY <1>1 DEF head
  <2> QED BY <2>1
<1>3. Unmarshal(<<>>) = Malformed
  BY DEF Unmarshal
<1> QED BY <1>2, <1>3 DEF KeptDoc

(* No events, no report. *)
LEMMA KnownNothing ==
    ASSUME NEW i, Knows(i, <<>>, Len(<<>>))
    PROVE  i.input = 0 /\ i.output = 0 /\ i.responseModel = NoName
<1>1. Len(<<>>) = 0 /\ \A j \in 1..0 : FALSE
  BY NothingYet, Zenon
<1>2. \A f, a, v : IsLast(f, 0, a, v) => v = a
  BY <1>1 DEF IsLast
<1> QED BY <1>1, <1>2 DEF Knows

-----------------------------------------------------------------------------
(* The inductive invariant, for the call c. *)
ExchangeInv(c) == CallInv(c) /\ SpanInv(c) /\ RecordInv(c)

(* dispatch and modify hand a call on without a record. *)
LEMMA StepMoves ==
    ASSUME NEW c \in Calls, ExchangeInv(c), PassThrough \/ BodyUnread \/ modify
    PROVE  ExchangeInv(c)'
<1>1. CallInv(c)'
  BY CallMoves DEF ExchangeInv
<1>2. /\ UNCHANGED tap /\ span' = span /\ recorded' = recorded
  BY DEF PassThrough, BodyUnread, modify
<1>3. stream' = stream /\ pos' = pos /\ events' = events
  BY <1>2 DEF tap
<1>4. SpanInv(c)'
  BY <1>2 DEF ExchangeInv, SpanInv
<1>5. RecordInv(c)'
  BY <1>2, <1>3, RecordKept DEF ExchangeInv
<1> QED BY <1>1, <1>4, <1>5 DEF ExchangeInv

(* The request is parsed, captured and sent. *)
LEMMA StepSend ==
    ASSUME NEW c \in Calls, ExchangeInv(c), Send
    PROVE  ExchangeInv(c)'
<1>1. CallInv(c)'
  BY CallSend DEF ExchangeInv
<1> DEFINE ev == RequestEvents(c.provider, info', c.request, ContentOpts(c))
<1>2. call = c /\ stage = "request" /\ recorded' = recorded /\ recorded = <<>>
  BY DEF Send, ExchangeInv, CallInv, StageInv
<1>3. span' = [span EXCEPT !.events = ev]
  BY <1>2 DEF Send, opts
<1>4. ev \in Seq(EventType(c)) /\ (c.mode # "events" => ev = <<>>)
  BY RequestEventsKept
<1> HIDE DEF ev
<1>5. span \in SpanType(c) /\ (c.mode # "events" => span.snippet = {})
  BY DEF ExchangeInv, SpanInv
<1>6. span' \in SpanType(c) /\ span'.events = ev /\ span'.snippet = span.snippet
  BY <1>3, <1>4, <1>5 DEF SpanType
<1>7. SpanInv(c)'
  BY <1>4, <1>5, <1>6 DEF SpanInv
<1>8. RecordInv(c)'
  BY <1>2 DEF RecordInv
<1> QED BY <1>1, <1>7, <1>8 DEF ExchangeInv

(* A call without an answer is recorded with what the request says. *)
LEMMA StepUnanswered ==
    ASSUME NEW c \in Calls, ExchangeInv(c), Unanswered
    PROVE  ExchangeInv(c)'
<1>1. CallInv(c)'
  BY CallUnanswered DEF ExchangeInv
<1>2. call = c /\ stage = "sent" /\ recorded = <<>> /\ Fresh /\ AnswerInv(c) /\ InfoInv(c)
  BY DEF Unanswered, ExchangeInv, CallInv, StageInv
<1>3. UNCHANGED tap
  BY DEF Unanswered
<1>4. stream' = stream /\ pos' = pos /\ events' = events /\ pos = 0 /\ events = <<>>
  BY <1>2, <1>3 DEF tap, Fresh
<1>5. /\ recorded' = Append(recorded, recordMetrics(info, "none"))
      /\ span' = [span EXCEPT !.snippet = IF ContentOpts(c).capture THEN {} ELSE {}]
  BY <1>2 DEF Unanswered, finalize, opts
<1>6. SpanInv(c)'
  <2>1. span \in SpanType(c) /\ (c.mode # "events" => span.events = <<>>)
    BY DEF ExchangeInv, SpanInv
  <2>2. {} \in Kept(c)
    BY DEF Kept
  <2> QED BY <1>5, <2>1, <2>2, SpanEnds, ZenonT(60)
<1>7. stream \in Seq(Symbols(c))
  BY <1>2, Zenon DEF AnswerInv, TapInv, BodyInv
<1>8. KeptDoc = Malformed
  BY <1>4, <1>7, FreshKeeps
<1>9. KeptDoc' = Malformed
  BY <1>4, <1>8 DEF KeptDoc, head
<1>10. /\ info \in InfoType /\ info.requestModel = Requested(c)
       /\ Knows(info, events, Len(events)) /\ FirstIn(Tokens(events), Len(events), info)
  BY <1>2 DEF InfoInv
<1>11. info.input = 0 /\ info.output = 0 /\ info.responseModel = NoName
  BY <1>4, <1>10, KnownNothing
<1>12. Prefer(info.input, 0, 0) = 0 /\ Prefer(info.output, 0, 0) = 0
  BY <1>11 DEF Prefer
<1>13. PICK i : i = info
  BY Zenon
<1>14. Tells(c, i)'
  <2>1. /\ i.requestModel = Requested(c)
        /\ FirstIn(Tokens(events'), Len(events'), i) /\ Knows(i, events', Len(events'))
    BY <1>4, <1>10, <1>13
  <2>2. /\ Prefer(i.input, 0, 0) = ReportedInput(KeptDoc')
        /\ Prefer(i.output, 0, 0) = ReportedOutput(KeptDoc')
        /\ i.responseModel = ReportedModel(KeptDoc')
    BY <1>9, <1>11, <1>12, <1>13, MalformedTold
  <2> QED BY <2>1, <2>2, ZenonT(60) DEF Tells
<1>15. ~ Heard(c)'
  BY <1>4, <1>9 DEF Heard
<1>16. RecordInv(c)'
  <2>1. i \in InfoType /\ recorded' = Append(recorded, recordMetrics(i, "none"))
    BY <1>5, <1>10, <1>13
  <2> QED BY <1>2, <1>14, <1>15, <2>1, RecordTells
<1> QED BY <1>1, <1>6, <1>16 DEF ExchangeInv

(* The second finalize, after ServeHTTP returned. *)
LEMMA StepReturn ==
    ASSUME NEW c \in Calls, ExchangeInv(c), Return
    PROVE  ExchangeInv(c)'
<1>1. CallInv(c)' /\ UNCHANGED <<stream, pos, events, span, recorded, info>>
  BY CallReturn DEF ExchangeInv
<1>2. SpanInv(c)'
  BY <1>1 DEF ExchangeInv, SpanInv
<1>3. RecordInv(c)'
  BY <1>1, RecordKept DEF ExchangeInv
<1> QED BY <1>1, <1>2, <1>3 DEF ExchangeInv

(* A Read of a stream: the new events are handed to the callback, and nothing
   is recorded yet. *)
LEMMA StepStreamRead ==
    ASSUME NEW c \in Calls, ExchangeInv(c), NEW n \in Nat, StreamRead(n)
    PROVE  ExchangeInv(c)'
<1> DEFINE B == Symbols(c)
<1>1. /\ call = c /\ call' = call /\ c.kind = "stream" /\ stage = "answered" /\ stage' = stage
      /\ Read(n) /\ span' = span /\ recorded' = recorded /\ info' = Enriched(Len(events))
  BY DEF ExchangeInv, CallInv, StreamRead, Streaming
<1>2. TapInv(B) /\ StageInv /\ InfoInv(c)
  BY <1>1 DEF ExchangeInv, CallInv, AnswerInv
<1>3. TapInv(B)' /\ Extends(events, events') /\ events' \in Seq(FieldsOf(B))
  BY <1>1, <1>2, TapRead
<1>4. ~ once /\ once' = once
  BY <1>1 DEF Read
<1>5. recorded = <<>>
  BY <1>1, <1>2, <1>4, Zenon DEF StageInv
<1>6. events \in Seq(FieldsOf(B)) /\ Len(events) \in Nat /\ Len(events) <= Len(events')
  BY <1>2, <1>3 DEF TapInv, Extends
<1>7. Knows(info, events', Len(events))
  <2>1. Knows(info, events, Len(events))
    BY <1>1, <1>2 DEF InfoInv
  <2> QED BY <1>3, <1>6, <2>1, KnowsStays
<1>8. Knows(info', events', Len(events')) /\ SameCall(info, info')
  BY <1>1, <1>3, <1>6, <1>7, EnrichedKnows
<1>9. InfoInv(c)'
  <2>1. ~ info.finished /\ info.requestModel = Requested(c)
    BY <1>1, <1>2, <1>5 DEF InfoInv
  <2>2. ~ info'.finished /\ info'.requestModel = Requested(c)
    BY <1>8, <2>1, Zenon DEF SameCall
  <2>3. info' \in InfoType /\ FirstIn(Tokens(events'), Len(events'), info')
    BY <1>8, ZenonT(60) DEF Knows
  <2> QED BY <1>1, <1>5, <1>8, <2>2, <2>3, ZenonT(60) DEF InfoInv
<1>10. StageInv'
  BY <1>1, <1>4, <1>5 DEF StageInv
<1>11. CallInv(c)'
  BY <1>1, <1>3, <1>9, <1>10, Zenon DEF CallInv, AnswerInv
<1>12. SpanInv(c)'
  BY <1>1, Zenon DEF ExchangeInv, SpanInv
<1>13. RecordInv(c)'
  BY <1>1, <1>5 DEF RecordInv
<1> QED BY <1>11, <1>12, <1>13 DEF ExchangeInv

(* The closer of the tap: what is known then is recorded, the first time. *)
LEMMA StreamEnds ==
    ASSUME NEW c \in Calls, ExchangeInv(c), c.kind = "stream", call' = call,
           stage = "answered", stage' = stage, TapInv(Symbols(c))', once' = TRUE,
           stream' = stream, pos' = pos, once => events' = events,
           NEW i, Knows(i, events', Len(events')), SameCall(info, i), closer(i)
    PROVE  ExchangeInv(c)'
<1>1. call = c /\ StageInv /\ InfoInv(c) /\ SpanInv(c) /\ RecordInv(c)
  BY Zenon DEF ExchangeInv, CallInv
<1>2. i \in InfoType /\ FirstIn(Tokens(events'), Len(events'), i)
  BY ZenonT(60) DEF Knows
<1>3. CASE once
  <2>1. recorded # <<>> /\ events' = events
    BY <1>1, <1>3 DEF StageInv
  <2>2. info' = i /\ span' = span /\ recorded' = recorded
    BY <1>3 DEF closer
  <2>3. InfoInv(c)'
    <3>1. \E m \in MetricType : recorded' = <<m>>
      BY <1>1, <2>1, <2>2 DEF InfoInv
    <3> QED BY <1>2, <2>1, <2>2, <3>1, ZenonT(60) DEF InfoInv
  <2>4. StageInv'
    BY <2>1, <2>2 DEF StageInv
  <2>5. CallInv(c)'
    BY <1>1, <2>3, <2>4, Zenon DEF CallInv, AnswerInv
  <2>6. SpanInv(c)'
    BY <1>1, <2>2, ZenonT(60) DEF SpanInv
  <2>7. RecordInv(c)'
    BY <1>1, <2>1, <2>2, RecordKept
  <2> QED BY <2>5, <2>6, <2>7 DEF ExchangeInv
<1>4. CASE ~ once
  <2> DEFINE j0 == [i EXCEPT !.finished = TRUE]
             ev == AssembledEvents(c.provider, i, ContentOpts(c))
             s == [span EXCEPT !.attrs = responseAttrs(i), !.events = @ \o ev]
  <2>1. recorded = <<>>
    BY <1>1, <1>4 DEF StageInv
  <2>2. ~ info.finished /\ info.requestModel = Requested(c)
    BY <1>1, <2>1 DEF InfoInv
  <2>3. ~ i.finished /\ i.requestModel = Requested(c)
    BY <2>2 DEF SameCall
  <2>4. finalize(j0, s, "ok", {})
    BY <1>1, <1>4, <2>3 DEF closer, opts
  <2>5. /\ info' = [j0 EXCEPT !.finished = TRUE]
        /\ recorded' = Append(recorded, recordMetrics(j0, "ok"))
        /\ span' = [s EXCEPT !.snippet = IF ContentOpts(c).capture THEN {} ELSE {}]
    <3> HIDE DEF j0, s
    <3> QED BY <1>1, <2>1, <2>4 DEF finalize, opts
  <2>6. /\ j0 \in InfoType /\ Knows(j0, events', Len(events'))
        /\ FirstIn(Tokens(events'), Len(events'), j0)
    BY <1>2, FinishedKnows
  <2>7. j0.requestModel = Requested(c) /\ responseAttrs(j0) = responseAttrs(i)
    BY <1>2, <2>3, Zenon DEF InfoType, responseAttrs
  <2>8. s \in SpanType(c) /\ s.attrs = responseAttrs(i) /\ (c.mode # "events" => s.events = <<>>)
    <3>1. ev \in Seq(EventType(c)) /\ (c.mode # "events" => ev = <<>>)
      <4>1. \A x : x = AssembledEvents(c.provider, i, ContentOpts(c))
                     => x \in Seq(EventType(c)) /\ (c.mode # "events" => x = <<>>)
        BY AssembledKept, ZenonT(60)
      <4> QED BY <4>1, ZenonT(60)
    <3>2. responseAttrs(i) \in AttrType
      BY <1>2, AttrsIn
    <3> DEFINE a == responseAttrs(i)
    <3>3. a \in AttrType /\ s = SpanWith(a, ev)
      BY <3>2, Zenon DEF SpanWith
    <3> HIDE DEF ev, a, s
    <3>4. /\ SpanWith(a, ev) \in SpanType(c)
          /\ SpanWith(a, ev).attrs = a
          /\ c.mode # "events" => SpanWith(a, ev).events = <<>>
      BY <1>1, <3>1, <3>3, SpanGrows
    <3> QED BY <3>3, <3>4, ZenonT(60) DEF a
  <2> HIDE DEF s, ev
  <2>9. SpanInv(c)' /\ span'.attrs = responseAttrs(i)
    <3>1. {} \in Kept(c)
      BY DEF Kept
    <3> QED BY <2>5, <2>8, <3>1, SpanEnds, Zenon
  <2>10. PICK j : j = j0
    BY ZenonT(60)
  <2> HIDE DEF j0
  <2>11. /\ j \in InfoType /\ Knows(j, events', Len(events'))
         /\ FirstIn(Tokens(events'), Len(events'), j)
         /\ info' = [j EXCEPT !.finished = TRUE]
         /\ recorded' = Append(recorded, recordMetrics(j, "ok"))
         /\ j.requestModel = Requested(c) /\ span'.attrs = responseAttrs(j)
    BY <2>5, <2>6, <2>7, <2>9, <2>10
  <2>12. InfoInv(c)' /\ recorded' # <<>>
    BY <2>1, <2>11, RecordKnows
  <2>13. StageInv'
    BY <2>12 DEF StageInv
  <2>14. CallInv(c)'
    BY <1>1, <2>12, <2>13 DEF CallInv, AnswerInv
  <2>15. Tells(c, j)'
    BY <2>11 DEF Tells
  <2>16. RecordInv(c)'
    BY <2>1, <2>11, <2>15, RecordTells
  <2> QED BY <2>9, <2>14, <2>16 DEF ExchangeInv
<1> QED BY <1>3, <1>4

(* A Read that ends the stream hands on the last frame and runs the closer. *)
LEMMA StepStreamErr ==
    ASSUME NEW c \in Calls, ExchangeInv(c), StreamErr
    PROVE  ExchangeInv(c)'
<1> DEFINE B == Symbols(c)
<1>1. /\ call = c /\ call' = call /\ c.kind = "stream" /\ stage = "answered" /\ stage' = stage
      /\ ReadErr /\ closer(Enriched(Len(events)))
  BY DEF ExchangeInv, CallInv, StreamErr, Streaming
<1>2. TapInv(B) /\ InfoInv(c)
  BY <1>1 DEF ExchangeInv, CallInv, AnswerInv
<1>3. /\ TapInv(B)' /\ Extends(events, events') /\ events' \in Seq(FieldsOf(B))
      /\ once => events' = events
  BY <1>1, <1>2, TapReadErr
<1>4. once' = TRUE /\ stream' = stream /\ pos' = pos
  BY <1>1, Zenon DEF ReadErr, CloseOnce
<1>5. events \in Seq(FieldsOf(B)) /\ Len(events) \in Nat /\ Len(events) <= Len(events')
  <2>1. events \in Seq(FieldsOf(B))
    BY <1>2, Zenon DEF TapInv
  <2>2. Len(events) <= Len(events')
    BY <1>3, Zenon DEF Extends
  <2> QED BY <2>1, <2>2, LenProperties, Zenon
<1>6. Knows(info, events', Len(events))
  <2>1. Knows(info, events, Len(events))
    BY <1>1, <1>2 DEF InfoInv
  <2> QED BY <1>3, <1>5, <2>1, KnowsStays
<1>7. /\ Knows(Enriched(Len(events)), events', Len(events'))
      /\ SameCall(info, Enriched(Len(events)))
  BY <1>1, <1>3, <1>5, <1>6, EnrichedKnows
<1>8. PICK i : i = Enriched(Len(events))
  OBVIOUS
<1>9. closer(i)
  BY <1>1, <1>8 DEF closer
<1> QED BY <1>1, <1>3, <1>4, <1>7, <1>8, <1>9, StreamEnds

(* Close runs the closer, if no Read did. *)
LEMMA StepStreamClose ==
    ASSUME NEW c \in Calls, ExchangeInv(c), StreamClose
    PROVE  ExchangeInv(c)'
<1> DEFINE B == Symbols(c)
<1>1. /\ call = c /\ call' = call /\ c.kind = "stream" /\ stage = "answered" /\ stage' = stage
      /\ Close /\ closer(info)
  BY DEF ExchangeInv, CallInv, StreamClose, Streaming
<1>2. TapInv(B) /\ InfoInv(c)
  BY <1>1 DEF ExchangeInv, CallInv, AnswerInv
<1>3. TapInv(B)' /\ events' = events
  BY <1>1, <1>2, TapClose
<1>4. once' = TRUE /\ stream' = stream /\ pos' = pos
  BY <1>1 DEF Close, CloseOnce
<1>5. Knows(info, events', Len(events')) /\ SameCall(info, info)
  BY <1>1, <1>2, <1>3 DEF InfoInv, SameCall
<1>6. PICK i : i = info
  OBVIOUS
<1>7. closer(i)
  BY <1>1, <1>6 DEF closer
<1> QED BY <1>1, <1>3, <1>4, <1>5, <1>6, <1>7, StreamEnds

(* A Read of an answer that is not streamed. *)
LEMMA StepBodyRead ==
    ASSUME NEW c \in Calls, ExchangeInv(c), NEW n \in Nat, BodyRead(n)
    PROVE  ExchangeInv(c)'
<1>1. /\ call = c /\ call' = call /\ c.kind # "stream" /\ stage = "answered" /\ stage' = stage
      /\ ~ once /\ pos + n <= Len(stream) /\ pos' = pos + n
      /\ stream' = stream /\ buf' = buf /\ events' = events /\ closes' = closes /\ once' = once
      /\ open' = open /\ info' = info /\ span' = span /\ recorded' = recorded
  BY DEF ExchangeInv, CallInv, BodyRead, Whole
<1>2. BodyInv(Symbols(c)) /\ StageInv /\ InfoInv(c)
  BY <1>1 DEF ExchangeInv, CallInv, AnswerInv
<1>3. BodyInv(Symbols(c))'
  <2>1. pos' \in 0..Len(stream')
    BY <1>1, <1>2 DEF BodyInv
  <2> QED BY <1>1, <1>2, <2>1, Zenon DEF BodyInv
<1>4. recorded = <<>>
  BY <1>1, <1>2 DEF StageInv
<1>5. InfoInv(c)'
  BY <1>1, <1>2, InfoKept
<1>6. StageInv'
  BY <1>1, <1>4 DEF StageInv
<1>7. CallInv(c)'
  BY <1>1, <1>3, <1>5, <1>6, Zenon DEF CallInv, AnswerInv
<1>8. SpanInv(c)'
  BY <1>1 DEF ExchangeInv, SpanInv
<1>9. RecordInv(c)'
  BY <1>1, <1>4 DEF RecordInv
<1> QED BY <1>7, <1>8, <1>9 DEF ExchangeInv

(* What is kept of an answer is made of its symbols (snippetCapture). *)
LEMMA HeadIn ==
    ASSUME NEW B, stream \in Seq(B), pos \in 0..Len(stream), NEW cap \in Nat
    PROVE  head(cap) \in Seq(B)
<1> DEFINE n == IF pos < cap THEN pos ELSE cap
<1>1. n \in Int /\ n <= Len(stream) /\ 1 \in Nat \ {0}
  OBVIOUS
<1>2. head(cap) = SubSeq(stream, 1, n)
  BY DEF head
<1> HIDE DEF n
<1> QED BY <1>1, <1>2, SubSeqIn

(* parseOnClose: what was read is parsed and recorded, the first time. *)
LEMMA BodyEnds ==
    ASSUME NEW c \in Calls, ExchangeInv(c), Whole, CloseOnce, onClose, stream' = stream,
           pos' = pos, buf' = buf, events' = events, open' \in BOOLEAN
    PROVE  ExchangeInv(c)'
<1>1. call = c /\ call' = call /\ c.kind # "stream" /\ stage = "answered" /\ stage' = stage
  BY DEF ExchangeInv, CallInv, Whole
<1>2. BodyInv(Symbols(c)) /\ StageInv /\ InfoInv(c) /\ SpanInv(c) /\ RecordInv(c)
  BY <1>1 DEF ExchangeInv, CallInv, AnswerInv
<1>3. once' = TRUE /\ closes' = IF once THEN closes ELSE closes + 1
  BY DEF CloseOnce
<1>4. /\ stream \in Seq(Symbols(c)) /\ pos \in 0..Len(stream) /\ buf = <<>> /\ events = <<>>
      /\ once \in BOOLEAN /\ closes = IF once THEN 1 ELSE 0
  BY <1>2 DEF BodyInv
<1>5. BodyInv(Symbols(c))'
  <2>1. closes' = IF once' THEN 1 ELSE 0
    BY <1>3, <1>4
  <2>2. once' \in BOOLEAN /\ once'
    BY <1>3
  <2> QED BY <1>4, <2>1, <2>2, Zenon DEF BodyInv
<1>6. KeptDoc' = KeptDoc
  BY DEF KeptDoc, head
<1> DEFINE doc == KeptDoc
           parsed == ParseResponseJSON(c.provider, info, doc)
<1>7. CASE once
  <2>1. recorded # <<>>
    BY <1>1, <1>2, <1>7 DEF StageInv
  <2>2. info' = info /\ span' = span /\ recorded' = recorded
    BY <1>7 DEF onClose
  <2>3. InfoInv(c)'
    BY <1>1, <1>2, <2>2, InfoKept
  <2>4. StageInv'
    BY <1>1, <1>3, <2>1, <2>2 DEF StageInv
  <2>5. CallInv(c)'
    BY <1>1, <1>5, <2>3, <2>4, Zenon DEF CallInv, AnswerInv
  <2>6. SpanInv(c)'
    BY <1>2, <2>2 DEF SpanInv
  <2>7. RecordInv(c)'
    BY <1>2, <2>2, RecordKept
  <2> QED BY <2>5, <2>6, <2>7 DEF ExchangeInv
<1>8. ASSUME ~ once
      PROVE  /\ recorded = <<>> /\ info \in InfoType /\ info.requestModel = Requested(c)
             /\ Knows(info, events', Len(events'))
             /\ FirstIn(Tokens(events'), Len(events'), info)
             /\ info.input = 0 /\ info.output = 0 /\ info.responseModel = NoName
  <2>1. recorded = <<>>
    BY <1>1, <1>2, <1>8 DEF StageInv
  <2>2. /\ info \in InfoType /\ info.requestModel = Requested(c)
        /\ Knows(info, events', Len(events'))
        /\ FirstIn(Tokens(events'), Len(events'), info)
    BY <1>1, <1>2, <2>1 DEF InfoInv
  <2>3. info.input = 0 /\ info.output = 0 /\ info.responseModel = NoName
    BY <1>4, <2>2, KnownNothing
  <2> QED BY <2>1, <2>2, <2>3
(* what the two kinds have in common *)
<1>9. ASSUME NEW i \in InfoType, NEW status \in {"none", "ok", "error"}, recorded = <<>>,
             info' = [i EXCEPT !.finished = TRUE],
             recorded' = Append(recorded, recordMetrics(i, status)),
             FirstIn(Tokens(events'), Len(events'), i), Tells(c, i)',
             Heard(c)' => span'.attrs = responseAttrs(i), SpanInv(c)'
      PROVE  ExchangeInv(c)'
  <2>1. InfoInv(c)' /\ recorded' # <<>>
    BY <1>1, <1>9, RecordKnows
  <2>2. StageInv'
    BY <1>1, <1>3, <2>1 DEF StageInv
  <2>3. CallInv(c)'
    BY <1>1, <1>5, <2>1, <2>2 DEF CallInv, AnswerInv
  <2>4. RecordInv(c)'
    BY <1>9, RecordTells
  <2> QED BY <1>9, <2>3, <2>4 DEF ExchangeInv
<1>10. CASE ~ once /\ c.kind = "error"
  <2>1. finalize(info, span, "error", Snippet)
    BY <1>1, <1>10 DEF onClose
  <2>2. PICK i : i = info
    OBVIOUS
  <2>3. /\ i \in InfoType /\ recorded = <<>> /\ info' = [i EXCEPT !.finished = TRUE]
        /\ recorded' = Append(recorded, recordMetrics(i, "error"))
        /\ span' = [span EXCEPT !.snippet = IF ContentOpts(c).capture THEN Snippet ELSE {}]
    BY <1>1, <1>8, <1>10, <2>1, <2>2 DEF finalize, opts
  <2>4. /\ FirstIn(Tokens(events'), Len(events'), i) /\ Knows(i, events', Len(events'))
        /\ i.requestModel = Requested(c)
    BY <1>8, <1>10, <2>2, Zenon
  <2>5. Tells(c, i)' /\ ~ Heard(c)'
    BY <1>10, <2>4, ZenonT(60) DEF Tells, Heard
  <2>6. Snippet \in Kept(c)
    <3>1. Clean(ContentOpts(c), Items) \in Kept(c)
      BY CleanKept
    <3>2. {} \in Kept(c)
      BY DEF Kept
    <3> QED BY <1>1, <3>1, <3>2 DEF Snippet, opts
  <2>7. SpanInv(c)'
    BY <1>2, <2>3, <2>6, SpanEnds, ZenonT(60) DEF SpanInv
  <2> QED BY <1>9, <2>3, <2>4, <2>5, <2>7
<1>11. CASE ~ once /\ c.kind = "json"
  <2> DEFINE ev == ResponseEvents(c.provider, parsed, doc, ContentOpts(c))
             a == IF doc = Malformed THEN span.attrs ELSE responseAttrs(parsed)
             s == SpanWith(a, ev)
  <2>1. finalize(parsed, s, "ok", {})
    BY <1>1, <1>11 DEF onClose, KeptDoc, SpanWith, opts
  <2>2. head(maxEnrichmentBodyBytes) \in Seq(Symbols(c))
    BY <1>4, HeadIn, ExchangeAssumption, Zenon
  <2>3. /\ parsed \in InfoType /\ SameCall(info, parsed) /\ SameToken(info, parsed)
        /\ Prefer(parsed.input, 0, 0) = ReportedInput(doc)
        /\ Prefer(parsed.output, 0, 0) = ReportedOutput(doc)
        /\ parsed.responseModel = ReportedModel(doc)
    <3>1. doc = Unmarshal(head(maxEnrichmentBodyBytes))
      BY DEF KeptDoc
    <3> HIDE DEF doc
    <3> QED BY <1>1, <1>8, <1>11, <2>2, <3>1, AnswerTold, ZenonT(60)
  <2>4. doc = Malformed \/ ReadAs(c, doc)
    BY <2>2, UnmarshalFits DEF KeptDoc
  <2>5. ev \in Seq(EventType(c)) /\ (c.mode # "events" => ev = <<>>)
    BY <2>4, ResponseEventsKept
  <2>6. a \in AttrType
    <3>1. span.attrs \in AttrType
      BY <1>2, Zenon DEF SpanInv, SpanType
    <3>2. responseAttrs(parsed) \in AttrType
      BY <2>3, AttrsIn, ZenonT(60)
    <3> QED BY <3>1, <3>2
  <2> HIDE DEF parsed, ev
  <2>7. doc # Malformed => a = responseAttrs(parsed)
    OBVIOUS
  <2> HIDE DEF a
  <2> HIDE DEF s
  <2>8. s \in SpanType(c) /\ s.attrs = a /\ (c.mode # "events" => s.events = <<>>)
    <3>1. /\ SpanWith(a, ev) \in SpanType(c)
          /\ SpanWith(a, ev).attrs = a
          /\ c.mode # "events" => SpanWith(a, ev).events = <<>>
      BY <1>2, <2>5, <2>6, SpanGrows
    <3> QED BY <3>1, Zenon DEF s
  <2>9. PICK i : i = parsed
    OBVIOUS
  <2>10. /\ i \in InfoType /\ recorded = <<>> /\ info' = [i EXCEPT !.finished = TRUE]
         /\ recorded' = Append(recorded, recordMetrics(i, "ok"))
         /\ span' = [s EXCEPT !.snippet = IF ContentOpts(c).capture THEN {} ELSE {}]
    BY <1>1, <1>8, <1>11, <2>1, <2>3, <2>9 DEF finalize, opts
  <2>11. SpanInv(c)' /\ span'.attrs = a
    <3>1. {} \in Kept(c)
      BY DEF Kept
    <3> QED BY <2>8, <2>10, <3>1, SpanEnds, ZenonT(60)
  <2>12. FirstIn(Tokens(events'), Len(events'), i) /\ i.requestModel = Requested(c)
    <3>1. FirstIn(Tokens(events'), Len(events'), info) /\ info.requestModel = Requested(c)
      BY <1>8, <1>11
    <3>2. SameCall(info, i) /\ SameToken(info, i)
      BY <2>3, <2>9, Zenon
    <3> QED BY <3>1, <3>2, Zenon DEF FirstIn, SameCall, SameToken
  <2>13. Tells(c, i)'
    <3>1. /\ Prefer(i.input, 0, 0) = ReportedInput(KeptDoc')
          /\ Prefer(i.output, 0, 0) = ReportedOutput(KeptDoc')
          /\ i.responseModel = ReportedModel(KeptDoc')
      BY <1>6, <2>3, <2>9, ZenonT(60)
    <3> QED BY <1>11, <2>12, <3>1, ZenonT(60) DEF Tells
  <2>14. Heard(c)' => span'.attrs = responseAttrs(i)
    BY <1>6, <1>11, <2>7, <2>9, <2>11 DEF Heard
  <2> QED BY <1>9, <2>10, <2>11, <2>12, <2>13, <2>14
<1>12. c.kind \in {"error", "stream", "json"}
  BY ExchangeAssumption
<1> QED BY <1>1, <1>7, <1>10, <1>11, <1>12

-----------------------------------------------------------------------------
(***************************************************************************)
(* The inductive invariant of the exchange                                 *)
(***************************************************************************)
(* The invariant of a behaviour: that of its call. *)
IInv == \E c \in Calls : ExchangeInv(c)

(* It holds before the request is looked at. *)
LEMMA Initially == Init => IInv
<1> SUFFICES ASSUME Init
             PROVE  IInv
  OBVIOUS
<1>1. PICK c \in Calls : call = c
  BY DEF Init
<1>2. CallInv(c)
  BY <1>1, CallInit
<1>3. SpanInv(c)
  BY SpanStarts DEF Init
<1>4. RecordInv(c)
  BY DEF Init, RecordInv
<1> QED BY <1>2, <1>3, <1>4 DEF IInv, ExchangeInv

(* Nothing happens. *)
LEMMA StepStutter ==
    ASSUME NEW c \in Calls, ExchangeInv(c), UNCHANGED vars
    PROVE  ExchangeInv(c)'
<1>1. /\ stream' = stream /\ pos' = pos /\ buf' = buf /\ events' = events /\ closes' = closes
      /\ once' = once /\ open' = open /\ base' = base /\ past' = past /\ call' = call
      /\ stage' = stage /\ info' = info /\ span' = span /\ recorded' = recorded
  BY DEF vars, tap
<1>2. SinceOverflow' = SinceOverflow
  BY <1>1 DEF SinceOverflow
<1>3. AnswerInv(c)'
  <2>1. TapInv(Symbols(c)) => TapInv(Symbols(c))'
    BY <1>1, <1>2, Zenon DEF TapInv
  <2>2. BodyInv(Symbols(c)) => BodyInv(Symbols(c))'
    BY <1>1, Zenon DEF BodyInv
  <2> QED BY <2>1, <2>2 DEF AnswerInv, ExchangeInv, CallInv
<1>4. StageInv'
  BY <1>1 DEF StageInv, Fresh, ExchangeInv, CallInv
<1>5. InfoInv(c)'
  BY <1>1, InfoKept DEF ExchangeInv, CallInv
<1>6. SpanInv(c)'
  BY <1>1 DEF SpanInv, ExchangeInv
<1>7. RecordInv(c)'
  BY <1>1, RecordKept DEF ExchangeInv
<1> QED BY <1>1, <1>3, <1>4, <1>5, <1>6, <1>7 DEF ExchangeInv, CallInv

(* Every step keeps it. *)
LEMMA Inductive == IInv /\ [Next]_vars => IInv'
<1> SUFFICES ASSUME IInv, [Next]_vars
             PROVE  IInv'
  OBVIOUS
<1>1. PICK c \in Calls : ExchangeInv(c)
  BY DEF IInv
<1>2. CASE PassThrough \/ BodyUnread \/ modify
  BY <1>1, <1>2, StepMoves DEF IInv
<1>3. CASE Send
  BY <1>1, <1>3, StepSend DEF IInv
<1>4. CASE Unanswered
  BY <1>1, <1>4, StepUnanswered DEF IInv
<1>5. ASSUME NEW n \in 1..Len(stream), StreamRead(n)
      PROVE  IInv'
  <2>1. n \in Nat
    OBVIOUS
  <2> QED BY <1>1, <1>5, <2>1, StepStreamRead DEF IInv
<1>6. CASE StreamErr
  BY <1>1, <1>6, StepStreamErr DEF IInv
<1>7. CASE StreamClose
  BY <1>1, <1>7, StepStreamClose DEF IInv
<1>8. ASSUME NEW n \in 1..Len(stream), BodyRead(n)
      PROVE  IInv'
  <2>1. n \in Nat
    OBVIOUS
  <2> QED BY <1>1, <1>8, <2>1, StepBodyRead DEF IInv
<1>9. CASE BodyEOF \/ BodyClose
  <2>1. open \in BOOLEAN
    BY <1>1 DEF ExchangeInv, CallInv, AnswerInv, TapInv, BodyInv
  <2>2. /\ Whole /\ CloseOnce /\ onClose /\ stream' = stream /\ pos' = pos /\ buf' = buf
        /\ events' = events /\ open' \in BOOLEAN
    BY <1>9, <2>1, Zenon DEF BodyEOF, BodyClose
  <2>3. ExchangeInv(c)'
    BY <1>1, <2>2, BodyEnds
  <2> QED BY <2>3, Zenon DEF IInv
<1>10. CASE Return
  BY <1>1, <1>10, StepReturn DEF IInv
<1>11. CASE UNCHANGED vars
  BY <1>1, <1>11, StepStutter DEF IInv
<1> QED
  BY <1>2, <1>3, <1>4, <1>5, <1>6, <1>7, <1>8, <1>9, <1>10, <1>11 DEF Next

(* The invariant holds in every state of an exchange, for every set of calls
   (dispatch, responseInterceptor, sseTee, parseOnClose). *)
THEOREM ExchangeConsistent == Spec => []IInv
BY Initially, Inductive, PTL DEF Spec

-----------------------------------------------------------------------------
(* The parse buffer never holds more than maxEventBytes between two reads
   (BufferBounded; sseTee.Read). *)
THEOREM ParseBufferBounded == Spec => []BufferBounded
<1>1. IInv => BufferBounded
  <2> SUFFICES ASSUME NEW c \in Calls, ExchangeInv(c)
               PROVE  BufferBounded
    BY DEF IInv
  <2>1. AnswerInv(c)
    BY DEF ExchangeInv, CallInv
  <2>2. CASE c.kind = "stream"
    BY <2>1, <2>2 DEF AnswerInv, TapInv, BufferBounded
  <2>3. CASE c.kind # "stream"
    <3>1. buf = <<>>
      BY <2>1, <2>3 DEF AnswerInv, BodyInv
    <3> QED BY <3>1, NothingYet, SSEAssumption DEF BufferBounded
  <2> QED BY <2>2, <2>3
<1> QED BY <1>1, ExchangeConsistent, PTL

(* For every stream, every limit and every way to cut the stream into reads, the
   calls of onEvent are those of the bytes since the last overflow, taken at once
   (ChunkingInvisible; sseTee.Read, drain, findFrameBoundary). *)
THEOREM ReadsInvisible == Spec => []ChunkingInvisible
<1>1. IInv => ChunkingInvisible
  <2> SUFFICES ASSUME NEW c \in Calls, ExchangeInv(c), call.kind = "stream", open
               PROVE  events = drain(SinceOverflow, past, once).out
    BY DEF IInv, ChunkingInvisible
  <2>1. TapInv(Symbols(c))
    BY DEF ExchangeInv, CallInv, AnswerInv
  <2>2. CASE once
    <3>1. events = AtEnd(SinceOverflow, past).out
      BY <2>1, <2>2 DEF TapInv
    <3>2. \A b, out : drain(b, out, once) = AtEnd(b, out)
      BY <2>2 DEF drain, AtEnd
    <3> QED BY <3>1, <3>2
  <2>3. CASE ~ once
    <3>1. Drained(SinceOverflow, past) = Pair(buf, events)
      BY <2>1, <2>3 DEF TapInv
    <3>2. \A b, out : drain(b, out, once) = Drained(b, out)
      BY <2>3, Zenon DEF drain
    <3> QED BY <3>1, <3>2 DEF Pair
  <2> QED BY <2>2, <2>3
<1> QED BY <1>1, ExchangeConsistent, PTL

(* For every mode, profile, request and answer, text reaches a span only in mode
   events, and with no item left that the profile masks and that stands whole and
   alone in the string it was given: an item in parts, or one that no pattern
   matches as it stands in raw JSON, is outside this (CapturedOnlyWhenAsked;
   ContentOpts.Clean, redact.Func and the five places that add text to a span). *)
THEOREM OnlyCapturedWhenAsked == Spec => []CapturedOnlyWhenAsked
<1>1. IInv => CapturedOnlyWhenAsked
  <2> SUFFICES ASSUME NEW c \in Calls, ExchangeInv(c)
               PROVE  CapturedOnlyWhenAsked
    BY DEF IInv
  <2>1. call = c /\ SpanInv(c)
    BY DEF ExchangeInv, CallInv
  <2>2. Masked = MaskedBy(c.redact)
    BY <2>1 DEF Masked, MaskedBy
  <2>3. /\ span.events \in Seq(EventType(c)) /\ span.snippet \in Kept(c)
        /\ c.mode # "events" => span.events = <<>> /\ span.snippet = {}
    BY <2>1 DEF SpanInv, SpanType
  <2>4. ASSUME NEW i \in DOMAIN span.events
        PROVE  span.events[i].text \in Kept(c)
    <3>1. span.events[i] \in EventType(c)
      BY <2>3
    <3> QED BY <3>1 DEF EventType
  <2>5. \A t \in Kept(c) : t \cap Masked = {}
    BY <2>2 DEF Kept
  <2>6. \A t \in Captured : t \in Kept(c)
    BY <2>3, <2>4 DEF Captured
  <2> QED BY <2>1, <2>3, <2>5, <2>6, ZenonT(60) DEF CapturedOnlyWhenAsked
<1> QED BY <1>1, ExchangeConsistent, PTL

(* onClose runs once and onFirstToken once, at the first event with a token,
   whose time is the one recorded (CallbacksOnce; the sync.Once of the tap and of
   parseOnClose, the gotFirst flag of WrapStream). *)
THEOREM CallbacksRunOnce == Spec => []CallbacksOnce
<1>1. IInv => CallbacksOnce
  <2> SUFFICES ASSUME NEW c \in Calls, ExchangeInv(c)
               PROVE  CallbacksOnce
    BY DEF IInv
  <2> DEFINE T == Tokens(events)
             first == IF T = {} THEN 0 ELSE CHOOSE x \in T : \A j \in T : x <= j
  <2>1. closes = (IF once THEN 1 ELSE 0) /\ \E S : events \in Seq(S)
    <3>1. AnswerInv(c)
      BY DEF ExchangeInv, CallInv
    <3>2. CASE c.kind = "stream"
      BY <3>1, <3>2 DEF AnswerInv, TapInv
    <3>3. CASE c.kind # "stream"
      BY <3>1, <3>3, NothingYet DEF AnswerInv, BodyInv
    <3> QED BY <3>2, <3>3
  <2>2. T \in SUBSET (1..Len(events)) /\ Len(events) \in Nat
    BY <2>1 DEF Tokens
  <2>3. FirstIn(T, Len(events), info)
    BY DEF ExchangeInv, CallInv, InfoInv
  <2>4. ASSUME NEW i, FirstIn(T, Len(events), i)
        PROVE  i.firstCalls = (IF T = {} THEN 0 ELSE 1) /\ i.firstTokenAt = first
    <3> HIDE DEF T
    <3> QED BY <2>2, <2>4, FirstIsLeast, Zenon
  <2>5. ASSUME NEW k \in DOMAIN recorded
        PROVE  recorded[k].firstToken = first
    <3>1. recorded # <<>>
      BY <2>5
    <3>2. PICK i \in InfoType, status \in {"none", "ok", "error"} :
              recorded = <<recordMetrics(i, status)>> /\ Tells(c, i)
      BY <3>1, Zenon DEF ExchangeInv, RecordInv
    <3>3. FirstIn(T, Len(events), i)
      BY <3>2, ZenonT(60) DEF Tells
    <3>4. recorded[k].firstToken = i.firstTokenAt
      <4>1. k = 1 /\ recorded[1] = recordMetrics(i, status)
        BY <3>2, <2>5
      <4>2. recordMetrics(i, status).firstToken = i.firstTokenAt
        BY Zenon DEF recordMetrics
      <4> QED BY <4>1, <4>2, Zenon
    <3> QED BY <2>4, <3>3, <3>4
  <2>6. T = {j \in DOMAIN events : HasToken(Unmarshal(events[j].data))}
    BY DEF Tokens
  <2>7. info.firstCalls = (IF T = {} THEN 0 ELSE 1) /\ info.firstTokenAt = first
    BY <2>3, <2>4, Zenon
  <2> HIDE DEF T
  <2>8. /\ closes = IF once THEN 1 ELSE 0
        /\ info.firstCalls = IF T = {} THEN 0 ELSE 1
        /\ info.firstTokenAt = first
        /\ \A i \in DOMAIN recorded : recorded[i].firstToken = first
    BY <2>1, <2>5, <2>7
  <2> QED BY <2>6, <2>8, Zenon DEF CallbacksOnce
<1> QED BY <1>1, ExchangeConsistent, PTL

-----------------------------------------------------------------------------
(* A count that was reported is positive (prefer of openai.go and anthropic.go). *)
LEMMA CountsPositive ==
    ASSUME NEW c \in Calls, NEW data \in Seq(Symbols(c)), NEW d, d = Unmarshal(data)
    PROVE  ReportedInput(d) \in Nat /\ ReportedOutput(d) \in Nat
<1>1. d = Malformed \/ d \in ChunkType \/ d \in PartType
  BY UnmarshalFits DEF ReadAs
<1>2. CASE d = Malformed
  <2>1. d.type = "malformed"
    BY <1>2 DEF Malformed
  <2> QED BY <2>1 DEF ReportedInput, ReportedOutput
<1>3. CASE d \in ChunkType
  <2>1. d.type = "chunk" /\ d.prompt \in Int /\ d.input \in Int /\ d.completion \in Int /\ d.output \in Int
    BY <1>3 DEF ChunkType
  <2>2. ReportedInput(d) = (IF d.prompt > 0 THEN d.prompt ELSE Positive(d.input))
    BY <2>1 DEF ReportedInput
  <2>3. ReportedOutput(d) = (IF d.completion > 0 THEN d.completion ELSE Positive(d.output))
    BY <2>1 DEF ReportedOutput
  <2> QED BY <2>1, <2>2, <2>3 DEF Positive
<1>4. CASE d \in PartType
  <2>1. d.type # "chunk" /\ d.input \in Int /\ d.output \in Int
    BY <1>4 DEF PartType
  <2>2. ReportedInput(d) \in {Positive(d.input), 0}
    BY <2>1 DEF ReportedInput
  <2>3. ReportedOutput(d) \in {Positive(d.output), 0}
    BY <2>1 DEF ReportedOutput
  <2> QED BY <2>1, <2>2, <2>3 DEF Positive
<1> QED BY <1>1, <1>2, <1>3, <1>4

(* A count that was not reported. *)
NoCount == 0

(* A last count among counts is one: Prefer keeps it. *)
LEMMA LastIsCount ==
    ASSUME NEW n \in Nat, NEW f, \A i \in 1..n : f[i] \in Nat, NEW v, IsLast(f, n, 0, v)
    PROVE  IsLast(f, n, NoCount, Prefer(v, 0, 0))
<1>1. v \in Nat
  BY DEF IsLast
<1>2. Prefer(v, 0, 0) = v
  BY <1>1 DEF Prefer
<1> QED BY <1>2 DEF NoCount

(* The last of one report is that report. *)
LEMMA LastOfOne ==
    ASSUME NEW f, NEW absent, NEW v, v = f[1]
    PROVE  IsLast(f, 1, absent, v)
<1>1. \A i \in 1..1 : i = 1
  OBVIOUS
<1>2. 1 \in 1..1 /\ \A j \in 2..1 : FALSE
  OBVIOUS
<1>3. CASE v = absent
  BY <1>1, <1>3, Zenon DEF IsLast
<1>4. CASE v # absent
  <2>1. \E i \in 1..1 : v = f[i] /\ f[i] # absent /\ \A j \in (i + 1)..1 : f[j] = absent
    <3>1. \A j \in (1 + 1)..1 : f[j] = absent
      BY <1>2, SMTT(60)
    <3> QED BY <1>2, <1>4, <3>1
  <2> QED BY <2>1 DEF IsLast
<1> QED BY <1>3, <1>4

(* The last of the reports of the answer: n documents, i has the last values. *)
Told3(n, i) ==
    /\ DOMAIN Reports = 1..n
    /\ IsLast([j \in 1..n |-> ReportedInput(Reports[j])], n, NoCount, Prefer(i.input, 0, 0))
    /\ IsLast([j \in 1..n |-> ReportedOutput(Reports[j])], n, NoCount, Prefer(i.output, 0, 0))
    /\ IsLast([j \in 1..n |-> ReportedModel(Reports[j])], n, NoName, i.responseModel)

(* What is recorded is the last of what the answer reported, for each of the
   three kinds of answer (WrapStream, parseOnClose). *)
LEMMA RecordsTheLast ==
    ASSUME NEW c \in Calls, ExchangeInv(c), NEW i \in InfoType, Tells(c, i)
    PROVE  /\ \E n \in Nat : Told3(n, i)
           /\ (\E k \in DOMAIN Reports : Reports[k] # Malformed) => Heard(c)
<1>1. call = c /\ AnswerInv(c)
  BY DEF ExchangeInv, CallInv
<1>2. CASE c.kind = "stream"
  <2> DEFINE n == Len(events)
             f == Inputs(events)
             g == Outputs(events)
             h == Names(events)
  <2>1. events \in Seq(FieldsOf(Symbols(c)))
    BY <1>1, <1>2 DEF AnswerInv, TapInv
  <2>2. n \in Nat /\ DOMAIN events = 1..n
    BY <2>1
  <2>3. Reports = [j \in DOMAIN events |-> Unmarshal(events[j].data)]
    BY <1>1, <1>2, Zenon DEF Reports
  <2>4. /\ IsLast(f, n, 0, i.input) /\ IsLast(g, n, 0, i.output) /\ IsLast(h, n, NoName, i.responseModel)
    BY <1>2, ZenonT(60) DEF Tells, Knows
  <2>5. \A j \in 1..n : f[j] \in Nat /\ g[j] \in Nat
    <3> SUFFICES ASSUME NEW j \in 1..n
                 PROVE  f[j] \in Nat /\ g[j] \in Nat
      OBVIOUS
    <3>1. events[j] \in FieldsOf(Symbols(c))
      BY <2>1
    <3>2. events[j].data \in Seq(Symbols(c))
      BY <3>1 DEF FieldsOf
    <3>3. f[j] = ReportedInput(Unmarshal(events[j].data)) /\ g[j] = ReportedOutput(Unmarshal(events[j].data))
      BY <2>2 DEF Inputs, Outputs
    <3> QED BY <3>2, <3>3, CountsPositive
  <2>6. /\ f = [j \in 1..n |-> ReportedInput(Reports[j])]
        /\ g = [j \in 1..n |-> ReportedOutput(Reports[j])]
        /\ h = [j \in 1..n |-> ReportedModel(Reports[j])]
    BY <2>2, <2>3 DEF Inputs, Outputs, Names
  <2>7. DOMAIN Reports = 1..n
    BY <2>2, <2>3
  <2>8. events # <<>> \/ 1..n = {}
    BY <2>2, SMTT(60)
  <2> HIDE DEF f, g, h, n
  <2>9. IsLast(f, n, NoCount, Prefer(i.input, 0, 0)) /\ IsLast(g, n, NoCount, Prefer(i.output, 0, 0))
    BY <2>2, <2>4, <2>5, LastIsCount, ZenonT(60)
  <2>10. Told3(n, i)
    BY <2>4, <2>6, <2>7, <2>9, ZenonT(60) DEF Told3
  <2> QED BY <1>2, <2>2, <2>7, <2>8, <2>10 DEF Heard
<1>3. CASE c.kind = "json"
  <2>1. Reports = <<KeptDoc>>
    BY <1>1, <1>3, Zenon DEF Reports, KeptDoc
  <2> DEFINE d == KeptDoc
  <2>2. /\ Prefer(i.input, 0, 0) = ReportedInput(d) /\ Prefer(i.output, 0, 0) = ReportedOutput(d)
        /\ i.responseModel = ReportedModel(d)
    BY <1>3, Zenon DEF Tells
  <2>3. d # Malformed => Heard(c)
    BY <1>3 DEF Heard
  <2> HIDE DEF d
  <2>4. DOMAIN Reports = 1..1 /\ Reports[1] = d /\ \A k \in DOMAIN Reports : Reports[k] = d
    BY <2>1, SMTT(60) DEF d
  <2>5. Told3(1, i)
    <3>1. /\ [j \in 1..1 |-> ReportedInput(Reports[j])][1] = ReportedInput(d)
          /\ [j \in 1..1 |-> ReportedOutput(Reports[j])][1] = ReportedOutput(d)
          /\ [j \in 1..1 |-> ReportedModel(Reports[j])][1] = ReportedModel(d)
      BY <2>4
    <3> DEFINE f == [j \in 1..1 |-> ReportedInput(Reports[j])]
               g == [j \in 1..1 |-> ReportedOutput(Reports[j])]
               h == [j \in 1..1 |-> ReportedModel(Reports[j])]
    <3>2. f[1] = ReportedInput(d) /\ g[1] = ReportedOutput(d) /\ h[1] = ReportedModel(d)
      BY <3>1, Zenon
    <3> HIDE DEF f, g, h
    <3>3. /\ IsLast(f, 1, NoCount, Prefer(i.input, 0, 0)) /\ IsLast(g, 1, NoCount, Prefer(i.output, 0, 0))
          /\ IsLast(h, 1, NoName, i.responseModel)
      BY <2>2, <3>2, LastOfOne, ZenonT(60)
    <3> QED BY <2>4, <3>3, ZenonT(60) DEF Told3, f, g, h
  <2> QED BY <2>3, <2>4, <2>5
<1>4. CASE c.kind = "error"
  <2>1. Reports = <<>> /\ events = <<>>
    BY <1>1, <1>4, Zenon DEF Reports, AnswerInv, BodyInv
  <2>2. Knows(i, <<>>, Len(<<>>))
    BY <1>4, <2>1, ZenonT(60) DEF Tells
  <2>3. i.input = 0 /\ i.output = 0 /\ i.responseModel = NoName
    BY <2>2, KnownNothing
  <2>4. \A f, absent : IsLast(f, 0, absent, absent)
    BY NothingYet DEF IsLast
  <2>5. Prefer(0, 0, 0) = 0 /\ DOMAIN <<>> = 1..0
    BY DEF Prefer
  <2>6. Told3(0, i)
    BY <2>1, <2>3, <2>4, <2>5 DEF Told3, NoCount
  <2> QED BY <2>1, <2>6
<1> QED BY <1>1, <1>2, <1>3, <1>4, ExchangeAssumption, ZenonT(60)

(* LastReported reads that value off. *)
LEMMA LastInput ==
    ASSUME NEW n \in Nat, DOMAIN Reports = 1..n, NEW v,
           IsLast([j \in 1..n |-> ReportedInput(Reports[j])], n, NoCount, v)
    PROVE  LastReported(ReportedInput, 0, 0) = v
<1> DEFINE f == [j \in 1..n |-> ReportedInput(Reports[j])]
           set == {j \in DOMAIN Reports : ReportedInput(Reports[j]) # 0}
           m == Greatest(set)
<1>1. LastReported(ReportedInput, 0, 0) = IF set = {} THEN 0 ELSE ReportedInput(Reports[m])
  BY DEF LastReported, Greatest
<1>2. PICK none : none = NoCount
  OBVIOUS
<1>3. \A j \in 1..n : j \in set <=> f[j] # none
  BY <1>2 DEF NoCount
<1>4. \A j \in 1..n : f[j] = ReportedInput(Reports[j])
  OBVIOUS
<1>5. set \in SUBSET (1..n)
  OBVIOUS
<1>6. IsLast(f, n, none, v)
  BY <1>2
<1> HIDE DEF set, f
<1>7. (set = {} <=> v = none) /\ (set # {} => m \in set /\ v = f[m])
  BY <1>3, <1>5, <1>6, LastIsGreatest
<1> HIDE DEF m
<1> QED BY <1>1, <1>2, <1>4, <1>5, <1>7, Zenon DEF NoCount

(* LastReported reads that value off. *)
LEMMA LastOutput ==
    ASSUME NEW n \in Nat, DOMAIN Reports = 1..n, NEW v,
           IsLast([j \in 1..n |-> ReportedOutput(Reports[j])], n, NoCount, v)
    PROVE  LastReported(ReportedOutput, 0, 0) = v
<1> DEFINE f == [j \in 1..n |-> ReportedOutput(Reports[j])]
           set == {j \in DOMAIN Reports : ReportedOutput(Reports[j]) # 0}
           m == Greatest(set)
<1>1. LastReported(ReportedOutput, 0, 0) = IF set = {} THEN 0 ELSE ReportedOutput(Reports[m])
  BY DEF LastReported, Greatest
<1>2. PICK none : none = NoCount
  OBVIOUS
<1>3. \A j \in 1..n : j \in set <=> f[j] # none
  BY <1>2 DEF NoCount
<1>4. \A j \in 1..n : f[j] = ReportedOutput(Reports[j])
  OBVIOUS
<1>5. set \in SUBSET (1..n)
  OBVIOUS
<1>6. IsLast(f, n, none, v)
  BY <1>2
<1> HIDE DEF set, f
<1>7. (set = {} <=> v = none) /\ (set # {} => m \in set /\ v = f[m])
  BY <1>3, <1>5, <1>6, LastIsGreatest
<1> HIDE DEF m
<1> QED BY <1>1, <1>2, <1>4, <1>5, <1>7 DEF NoCount

(* LastReported reads that value off. *)
LEMMA LastModel ==
    ASSUME NEW n \in Nat, DOMAIN Reports = 1..n, NEW v,
           IsLast([j \in 1..n |-> ReportedModel(Reports[j])], n, NoName, v)
    PROVE  LastReported(ReportedModel, NoName, RequestedModel) = IF v = NoName THEN RequestedModel ELSE v
<1> DEFINE f == [j \in 1..n |-> ReportedModel(Reports[j])]
           set == {j \in DOMAIN Reports : ReportedModel(Reports[j]) # NoName}
           m == Greatest(set)
<1>1. LastReported(ReportedModel, NoName, RequestedModel) = IF set = {} THEN RequestedModel ELSE ReportedModel(Reports[m])
  BY DEF LastReported, Greatest
<1>2. PICK none : none = NoName
  OBVIOUS
<1>3. \A j \in 1..n : j \in set <=> f[j] # none
  BY <1>2
<1>4. \A j \in 1..n : f[j] = ReportedModel(Reports[j])
  OBVIOUS
<1>5. set \in SUBSET (1..n)
  OBVIOUS
<1>6. IsLast(f, n, none, v)
  BY <1>2
<1> HIDE DEF set, f
<1>7. (set = {} <=> v = none) /\ (set # {} => m \in set /\ v = f[m])
  BY <1>3, <1>5, <1>6, LastIsGreatest
<1> HIDE DEF m
<1> QED BY <1>1, <1>2, <1>4, <1>5, <1>7, Zenon

(* A call that ends is recorded once, with the counts and the model name that its
   answer reported last, whatever the answer, the reads and the end; the span
   agrees; a call without an operation is not recorded (RecordedAsReported;
   mergeOpenAIUsage, ParseResponseJSON, WrapStream, recordMetrics, finalize). *)
THEOREM BilledAsReported == Spec => []RecordedAsReported
<1>1. IInv => RecordedAsReported
  <2> SUFFICES ASSUME NEW c \in Calls, ExchangeInv(c)
               PROVE  RecordedAsReported
    BY DEF IInv
  <2>1. call = c /\ StageInv /\ InfoInv(c) /\ RecordInv(c)
    BY DEF ExchangeInv, CallInv
  <2>2. RequestedModel = Requested(c)
    BY <2>1 DEF RequestedModel, Requested
  <2>3. stage = "passed" => recorded = <<>>
    BY <2>1 DEF StageInv
  <2>4. CASE recorded = <<>>
    <3>1. stage # "done" /\ DOMAIN recorded = {}
      BY <2>1, <2>4 DEF StageInv
    <3> QED BY <2>3, <3>1 DEF RecordedAsReported
  <2>5. CASE recorded # <<>>
    <3>1. PICK i \in InfoType, status \in {"none", "ok", "error"} :
              /\ recorded = <<recordMetrics(i, status)>> /\ Tells(c, i)
              /\ Heard(c) => span.attrs = responseAttrs(i)
      BY <2>1, <2>5 DEF RecordInv
    <3>2. PICK n \in Nat : Told3(n, i)
      BY <3>1, RecordsTheLast
    <3>3. (\E k \in DOMAIN Reports : Reports[k] # Malformed) => Heard(c)
      BY <3>1, RecordsTheLast, Zenon
    <3>4. Prefer(i.input, 0, 0) = LastReported(ReportedInput, 0, 0)
      BY <3>2, LastInput, ZenonT(60) DEF Told3
    <3>5. Prefer(i.output, 0, 0) = LastReported(ReportedOutput, 0, 0)
      BY <3>2, LastOutput, ZenonT(60) DEF Told3
    <3>6. LastReported(ReportedModel, NoName, RequestedModel)
              = IF i.responseModel = NoName THEN RequestedModel ELSE i.responseModel
      BY <3>2, LastModel, ZenonT(60) DEF Told3
    <3>7. i.requestModel = RequestedModel
      BY <2>2, <3>1, ZenonT(60) DEF Tells
    <3> DEFINE m == recordMetrics(i, status)
               input == LastReported(ReportedInput, 0, 0)
               output == LastReported(ReportedOutput, 0, 0)
               model == LastReported(ReportedModel, NoName, RequestedModel)
               heard == \E k \in DOMAIN Reports : Reports[k] # Malformed
    <3>8. /\ m.input = input /\ m.output = output
          /\ m.model = model
      BY <3>4, <3>5, <3>6, <3>7, Zenon DEF recordMetrics
    <3>9. heard => span.attrs.input = input /\ span.attrs.output = output
      <4> HIDE DEF heard
      <4> SUFFICES ASSUME heard
                   PROVE  span.attrs.input = input /\ span.attrs.output = output
        OBVIOUS
      <4>1. span.attrs = responseAttrs(i)
        BY <3>1, <3>3 DEF heard
      <4>2. /\ responseAttrs(i).input = Prefer(i.input, 0, 0)
            /\ responseAttrs(i).output = Prefer(i.output, 0, 0)
        BY Zenon DEF responseAttrs
      <4> QED BY <3>4, <3>5, <4>1, <4>2, Zenon
    <3> HIDE DEF m, input, output, model, heard
    <3>10. recorded = <<m>>
      BY <3>1 DEF m
    <3>11. Len(recorded) = 1 /\ \A k \in DOMAIN recorded : recorded[k] = m
      BY <3>10
    <3>12. \A k \in DOMAIN recorded :
               /\ recorded[k].input = input /\ recorded[k].output = output /\ recorded[k].model = model
               /\ heard => /\ span.attrs.input = recorded[k].input
                           /\ span.attrs.output = recorded[k].output
      BY <3>8, <3>9, <3>11
    <3> QED BY <2>3, <3>11, <3>12, Zenon DEF RecordedAsReported, input, output, model, heard
  <2> QED BY <2>4, <2>5
<1> QED BY <1>1, ExchangeConsistent, PTL

=============================================================================
