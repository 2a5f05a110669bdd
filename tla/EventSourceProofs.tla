------------------------- MODULE EventSourceProofs -------------------------
(***************************************************************************)
(* The tap of SSE reads a stream with uniform line ends as the EventSource *)
(* rules do: the proof of AgreesWithEventSource, for every such stream,    *)
(* every limit and every way to cut the stream into reads.                 *)
(*                                                                         *)
(* The tap looks for terminator strings in a buffer and splits a frame     *)
(* into lines afterwards; the rules split the stream into lines first and  *)
(* look for blank ones.  Both are followed byte by byte: Reading says what *)
(* the rules have gathered of the bytes so far, Tapped what the tap has    *)
(* cut off and still holds, and Same relates the two.                      *)
(*                                                                         *)
(*   loops, as functions and unrolled from the end                         *)
(*   a frame, its last line, and one byte more                             *)
(*   Lines and Gathered, one byte more; Reading                            *)
(*   drain, one byte more; Tapped                                          *)
(*   Same, for LF and CR, and for CR LF two bytes at a time                *)
(*   the tap of a call, and the theorem                                    *)
(***************************************************************************)
EXTENDS Exchange, SSEProofs

(***************************************************************************)
(* Loops, as functions and unrolled from the end                           *)
(***************************************************************************)
(* What a loop of n iterations ends with. *)
Fold(n, s0, step) ==
    LET f[i \in 0..n] == IF i = 0 THEN s0 ELSE step[i][f[i - 1]] IN f[n]

(* A loop of n iterations over states in S: iteration i makes step[i][s] of s. *)
IsLoop(n, S, s0, step) == n \in Nat /\ s0 \in S /\ step \in [1..n -> [S -> S]]

(* f follows the loop as long as it stays in S. *)
Follows(f, n, s0, step, S) ==
    f[0] = s0 /\ \A i \in 1..n : f[i - 1] \in S => f[i] = step[i][f[i - 1]]

(* A function that follows the loop as long as it stays in S does stay there. *)
LEMMA RunsStay ==
    ASSUME NEW n, NEW S, NEW s0, NEW step, IsLoop(n, S, s0, step), NEW f,
           Follows(f, n, s0, step, S)
    PROVE  \A i \in 0..n : f[i] \in S
<1>0. n \in Nat /\ s0 \in S /\ step \in [1..n -> [S -> S]]
  BY DEF IsLoop
<1> DEFINE P == {i \in 0..n : f[i] \in S}
<1>1. P \in SUBSET (0..n) /\ 0 \in P
  BY <1>0 DEF Follows
<1>2. ASSUME NEW i \in 1..n, i - 1 \in P
      PROVE  i \in P
  <2>1. i \in 0..n /\ f[i - 1] \in S
    BY <1>0, <1>2
  <2>2. step[i][f[i - 1]] \in S
    BY <1>0, <2>1
  <2> QED BY <2>1, <2>2 DEF Follows
<1>3. \A i \in P : f[i] \in S
  OBVIOUS
<1> HIDE DEF P
<1> QED BY <1>0, <1>1, <1>2, <1>3, IntervalInduction, Zenon

(* Two runs of a loop agree as far as both go. *)
LEMMA RunsAgree ==
    ASSUME NEW n, NEW S, NEW s0, NEW step, IsLoop(n, S, s0, step), NEW f, NEW g,
           Follows(f, n, s0, step, S),
           Follows(g, n, s0, step, S)
    PROVE  f[n] = g[n]
<1>0. n \in Nat /\ s0 \in S /\ step \in [1..n -> [S -> S]]
  BY DEF IsLoop
<1>1. \A i \in 0..n : f[i] \in S
  BY RunsStay, Zenon
<1> DEFINE P == {i \in 0..n : f[i] = g[i]}
<1>2. P \in SUBSET (0..n) /\ 0 \in P
  BY <1>0 DEF Follows
<1>3. ASSUME NEW i \in 1..n, i - 1 \in P
      PROVE  i \in P
  <2>1. i \in 0..n /\ i - 1 \in 0..n /\ f[i - 1] = g[i - 1]
    BY <1>0, <1>3
  <2>2. f[i - 1] \in S
    BY <1>1, <2>1
  <2> QED BY <2>1, <2>2 DEF Follows
<1>4. \A i \in P : f[i] = g[i]
  OBVIOUS
<1>5. n \in 0..n
  BY <1>0
<1> HIDE DEF P
<1>6. \A i \in 0..n : i \in P
  BY <1>0, <1>2, <1>3, IntervalInduction, Zenon
<1> QED BY <1>4, <1>5, <1>6

(* The loop has a run in S, and Fold returns its end. *)
Folds(n, S, s0, step) == \E f \in [0..n -> S] : IsRun(f, n, s0, step) /\ Fold(n, s0, step) = f[n]

(* What Fold returns is the end of a run. *)
LEMMA FoldRuns ==
    ASSUME NEW n, NEW S, NEW s0, NEW step, IsLoop(n, S, s0, step)
    PROVE  Folds(n, S, s0, step)
<1> DEFINE Loop(f) == [i \in 0..n |-> IF i = 0 THEN s0 ELSE step[i][f[i - 1]]]
           at == CHOOSE f : f = Loop(f)
<1>0. n \in Nat /\ s0 \in S /\ step \in [1..n -> [S -> S]]
  BY DEF IsLoop
<1>1. Fold(n, s0, step) = at[n]
  BY DEF Fold
<1>2. PICK f \in [0..n -> S] : IsRun(f, n, s0, step)
  BY <1>0, LoopRuns, Zenon
<1>3. f = Loop(f)
  BY <1>0, <1>2 DEF IsRun
<1>4. at = Loop(at)
  <2> HIDE DEF Loop
  <2> QED BY <1>3 DEF at
<1> HIDE DEF at
<1>5. \A i \in 0..n : at[i] = IF i = 0 THEN s0 ELSE step[i][at[i - 1]]
  <2>1. \A i \in 0..n : Loop(at)[i] = IF i = 0 THEN s0 ELSE step[i][at[i - 1]]
    OBVIOUS
  <2> HIDE DEF Loop
  <2> QED BY <1>4, <2>1
<1>6. Follows(at, n, s0, step, S)
  BY <1>0, <1>5 DEF Follows
<1>7. Follows(f, n, s0, step, S)
  BY <1>2 DEF IsRun, Follows
<1>8. at[n] = f[n]
  BY <1>6, <1>7, RunsAgree, Zenon
<1> QED BY <1>1, <1>2, <1>8, Zenon DEF Folds

(* Any run ends with what Fold returns. *)
LEMMA FoldIs ==
    ASSUME NEW n, NEW S, NEW s0, NEW step, IsLoop(n, S, s0, step), NEW f,
           Follows(f, n, s0, step, S)
    PROVE  f[n] = Fold(n, s0, step) /\ f[n] \in S
<1>1. PICK g \in [0..n -> S] : IsRun(g, n, s0, step) /\ Fold(n, s0, step) = g[n]
  <2>1. Folds(n, S, s0, step)
    BY FoldRuns, Zenon
  <2> QED BY <2>1, Zenon DEF Folds
<1>2. Follows(g, n, s0, step, S)
  BY <1>1 DEF IsRun, Follows
<1>3. f[n] = g[n]
  BY <1>2, RunsAgree, Zenon
<1>4. n \in 0..n
  BY DEF IsLoop
<1> QED BY <1>1, <1>3, <1>4

(* A loop of k iterations goes on one longer than one of n. *)
GoesOn(n, k, S, s0, step, more) ==
    /\ IsLoop(n, S, s0, step) /\ IsLoop(k, S, s0, more)
    /\ k = n + 1 /\ \A i \in 1..n : step[i] = more[i]

(* One iteration more. *)
LEMMA FoldNext ==
    ASSUME NEW n, NEW k, NEW S, NEW s0, NEW step, NEW more, GoesOn(n, k, S, s0, step, more)
    PROVE  Fold(n, s0, step) \in S /\ Fold(k, s0, more) = more[k][Fold(n, s0, step)]
<1>0. IsLoop(n, S, s0, step) /\ IsLoop(k, S, s0, more)
  BY Zenon DEF GoesOn
<1>1. PICK g \in [0..k -> S] : IsRun(g, k, s0, more) /\ Fold(k, s0, more) = g[k]
  <2>1. Folds(k, S, s0, more)
    BY <1>0, FoldRuns, Zenon
  <2> QED BY <2>1, Zenon DEF Folds
<1>2. g[0] = s0 /\ \A i \in 1..k : g[i] = more[i][g[i - 1]]
  BY <1>1 DEF IsRun
<1>3. \A i \in 1..n : i \in 1..k
  BY DEF GoesOn, IsLoop
<1>4. Follows(g, n, s0, step, S)
  BY <1>2, <1>3, Zenon DEF Follows, GoesOn
<1>5. g[n] = Fold(n, s0, step) /\ g[n] \in S
  BY <1>0, <1>4, FoldIs, Zenon
<1>6. k \in 1..k /\ k - 1 = n
  BY DEF GoesOn, IsLoop
<1>7. g[k] = more[k][g[k - 1]]
  BY <1>2, <1>6, Zenon
<1> QED BY <1>1, <1>5, <1>6, <1>7

(* No iteration. *)
LEMMA FoldNone ==
    ASSUME NEW n, n = 0, NEW S, NEW s0, NEW step, IsLoop(n, S, s0, step)
    PROVE  Fold(n, s0, step) = s0
<1>1. PICK f \in [0..n -> S] : IsRun(f, n, s0, step) /\ Fold(n, s0, step) = f[n]
  <2>1. Folds(n, S, s0, step)
    BY FoldRuns, Zenon
  <2> QED BY <2>1, Zenon DEF Folds
<1> QED BY <1>1 DEF IsRun

(* A loop over S ends in S. *)
LEMMA FoldIn ==
    ASSUME NEW n, NEW S, NEW s0, NEW step, IsLoop(n, S, s0, step)
    PROVE  Fold(n, s0, step) \in S
<1>1. Folds(n, S, s0, step)
  BY FoldRuns, Zenon
<1>2. n \in 0..n
  BY DEF IsLoop
<1> QED BY <1>1, <1>2 DEF Folds

-----------------------------------------------------------------------------
(***************************************************************************)
(* The fields of a frame, line by line                                     *)
(***************************************************************************)
(* A line adds to the fields (dispatch). *)
LEMMA FieldIn ==
    ASSUME NEW B, NEW f \in FieldsOf(B), NEW line \in Seq(B)
    PROVE  Field(f, line) \in FieldsOf(B)
<1> DEFINE t == TrimSpace(Tail(line))
           d == f.data \o t
<1>1. f.event \in Seq(B) /\ f.data \in Seq(B)
  BY DEF FieldsOf
<1>2. ASSUME line # <<>>
      PROVE  [f EXCEPT !.event = t] \in FieldsOf(B) /\ [f EXCEPT !.data = d] \in FieldsOf(B)
  <2>1. Tail(line) \in Seq(B)
    BY <1>2
  <2>2. t \in Seq(B)
    BY <2>1, TrimmedIn, Zenon
  <2>3. d \in Seq(B)
    BY <1>1, <2>2
  <2> HIDE DEF t, d
  <2> QED BY <2>2, <2>3 DEF FieldsOf
<1> QED BY <1>2, ZenonT(60) DEF Field

(* What the loop of dispatch makes of the lines of a frame. *)
Folded(lines) ==
    LET upto[i \in 0..Len(lines)] == IF i = 0 THEN NoFields ELSE Field(upto[i - 1], lines[i])
    IN upto[Len(lines)]

(* Its iterations. *)
FoldedSteps(lines, S) == [i \in 1..Len(lines) |-> [x \in S |-> Field(x, lines[i])]]

(* It is the end of a run of the loop. *)
LEMMA FoldedRuns ==
    ASSUME NEW B, NEW lines \in Seq(Seq(B))
    PROVE  /\ IsLoop(Len(lines), FieldsOf(B), NoFields, FoldedSteps(lines, FieldsOf(B)))
           /\ Folded(lines) = Fold(Len(lines), NoFields, FoldedSteps(lines, FieldsOf(B)))
<1> DEFINE n == Len(lines)
           S == FieldsOf(B)
           s0 == NoFields
           step == FoldedSteps(lines, S)
           Loop(f) == [i \in 0..n |-> IF i = 0 THEN s0 ELSE Field(f[i - 1], lines[i])]
           at == CHOOSE f : f = Loop(f)
<1>1. Folded(lines) = at[n]
  BY DEF Folded
<1>2. n \in Nat /\ s0 \in S /\ \A i \in 1..n : \A x \in S : Field(x, lines[i]) \in S
  <2>1. n \in Nat /\ s0 \in S
    BY DEF NoFields, FieldsOf
  <2>2. ASSUME NEW i \in 1..n, NEW x \in S
        PROVE  Field(x, lines[i]) \in S
    <3>1. lines[i] \in Seq(B)
      OBVIOUS
    <3> QED BY <3>1, FieldIn
  <2> QED BY <2>1, <2>2
<1>3. step \in [1..n -> [S -> S]]
  BY <1>2 DEF FoldedSteps
<1>4. \A i \in 1..n : \A x \in S : step[i][x] = Field(x, lines[i])
  BY DEF FoldedSteps
<1> HIDE DEF n, S, s0, step
<1>5. PICK f \in [0..n -> S] : IsRun(f, n, s0, step)
  BY <1>2, <1>3, LoopRuns, Zenon
<1>6. \A i \in 0..n : i = 0 \/ (i \in 1..n /\ i - 1 \in 0..n)
  BY <1>2
<1>7. ASSUME NEW i \in 0..n
      PROVE  f[i] = IF i = 0 THEN s0 ELSE Field(f[i - 1], lines[i])
  <2>1. CASE i = 0
    BY <1>5, <2>1 DEF IsRun
  <2>2. CASE i # 0
    <3>1. i \in 1..n /\ f[i - 1] \in S
      BY <1>6, <2>2
    <3>2. f[i] = step[i][f[i - 1]]
      BY <1>5, <3>1 DEF IsRun
    <3> QED BY <1>4, <2>2, <3>1, <3>2
  <2> QED BY <2>1, <2>2
<1>8. f = Loop(f)
  BY <1>7
<1>9. at = Loop(at)
  <2> HIDE DEF Loop
  <2> QED BY <1>8 DEF at
<1> HIDE DEF at
<1>10. \A i \in 0..n : at[i] = IF i = 0 THEN s0 ELSE Field(at[i - 1], lines[i])
  <2>1. \A i \in 0..n : Loop(at)[i] = IF i = 0 THEN s0 ELSE Field(at[i - 1], lines[i])
    OBVIOUS
  <2> HIDE DEF Loop
  <2> QED BY <1>9, <2>1
<1>11. Follows(at, n, s0, step, S)
  <2>1. 0 \in 0..n /\ \A i \in 1..n : i \in 0..n /\ i # 0
    BY <1>2
  <2> QED BY <1>4, <1>10, <2>1, Zenon DEF Follows
<1>12. IsLoop(n, S, s0, step)
  BY <1>2, <1>3 DEF IsLoop
<1>13. at[n] = Fold(n, s0, step)
  BY <1>11, <1>12, FoldIs, Zenon
<1> QED BY <1>1, <1>12, <1>13 DEF n, S, s0, step

(* No line has no fields (dispatch). *)
LEMMA FoldedNone ==
    ASSUME NEW B
    PROVE  Folded(<<>>) = NoFields
<1> DEFINE S == FieldsOf(B)
           s0 == NoFields
           none == FoldedSteps(<<>>, S)
           z == Len(<<>>)
<1>1. <<>> \in Seq(Seq(B)) /\ z \in Nat /\ z = 0
  OBVIOUS
<1>2. IsLoop(z, S, s0, none) /\ Folded(<<>>) = Fold(z, s0, none)
  BY <1>1, FoldedRuns, Zenon
<1> HIDE DEF none, z, S, s0
<1>3. Folded(<<>>) = s0
  BY <1>1, <1>2, FoldNone
<1> QED BY <1>3 DEF s0

(* The fields of one line more (dispatch). *)
LEMMA FoldedNext ==
    ASSUME NEW B, NEW lines \in Seq(Seq(B)), NEW line \in Seq(B)
    PROVE  /\ Folded(lines) \in FieldsOf(B)
           /\ Folded(Append(lines, line)) = Field(Folded(lines), line)
<1> DEFINE S == FieldsOf(B)
           s0 == NoFields
           more == Append(lines, line)
           n == Len(lines)
           k == Len(more)
           st == FoldedSteps(lines, S)
           mt == FoldedSteps(more, S)
<1>1. \A q \in Seq(Seq(B)) : /\ IsLoop(Len(q), S, s0, FoldedSteps(q, S))
                         /\ Folded(q) = Fold(Len(q), s0, FoldedSteps(q, S))
  BY FoldedRuns, Zenon
<1>2. /\ n \in Nat /\ more \in Seq(Seq(B)) /\ k \in Nat /\ k = n + 1 /\ more[k] = line
      /\ \A i \in 1..n : more[i] = lines[i]
  OBVIOUS
<1>3. \A i \in 1..n : st[i] = mt[i]
  <2> HIDE DEF more
  <2> QED BY <1>2 DEF FoldedSteps
<1>4. mt[k] = [x \in S |-> Field(x, line)]
  <2> HIDE DEF more
  <2> QED BY <1>2 DEF FoldedSteps
<1>5. /\ IsLoop(n, S, s0, st) /\ IsLoop(k, S, s0, mt)
      /\ Folded(lines) = Fold(n, s0, st) /\ Folded(more) = Fold(k, s0, mt)
  <2> HIDE DEF more, s0
  <2> QED BY <1>1, <1>2
<1> HIDE DEF st, mt, S, s0
<1>6. GoesOn(n, k, S, s0, st, mt)
  BY <1>2, <1>3, <1>5 DEF GoesOn
<1> HIDE DEF n, k
<1>7. Fold(n, s0, st) \in S /\ Fold(k, s0, mt) = mt[k][Fold(n, s0, st)]
  BY <1>6, FoldNext
<1>8. mt[k][Fold(n, s0, st)] = Field(Fold(n, s0, st), line)
  BY <1>4, <1>7
<1> QED BY <1>5, <1>7, <1>8, Zenon DEF S, s0, more

-----------------------------------------------------------------------------
(***************************************************************************)
(* A frame, its last line, and one byte more                               *)
(***************************************************************************)
(* A part of a sequence is the same part of a longer one. *)
LEMMA SubSeqOfLonger ==
    ASSUME NEW B, NEW s \in Seq(B), NEW t \in Seq(B), NEW m \in Nat \ {0}, NEW j \in Int,
           j <= Len(s), Len(s) <= Len(t), \A i \in 1..Len(s) : t[i] = s[i]
    PROVE  SubSeq(t, m, j) = SubSeq(s, m, j)
<1> DEFINE u == SubSeq(s, m, j)
           v == SubSeq(t, m, j)
           l == IF m <= j THEN j - m + 1 ELSE 0
<1>1. u \in Seq(B) /\ Len(u) = l /\ \A i \in 1..(j - m + 1) : u[i] = s[m + i - 1]
  BY SubSeqIn
<1>2. v \in Seq(B) /\ Len(v) = l /\ \A i \in 1..(j - m + 1) : v[i] = t[m + i - 1]
  <2>1. j <= Len(t)
    OBVIOUS
  <2> QED BY <2>1, SubSeqIn
<1>3. \A i \in 1..l : i \in 1..(j - m + 1) /\ m + i - 1 \in 1..Len(s)
  OBVIOUS
<1> HIDE DEF u, v, l
<1>4. \A i \in 1..l : u[i] = v[i]
  BY <1>1, <1>2, <1>3
<1>5. u = v
  BY <1>1, <1>2, <1>4, SeqEqual
<1> QED BY <1>5 DEF u, v

(* The lines that have ended, and where the line begins that has not. *)
SplitState(B) == [lines : Seq(Seq(B)), start : Nat \ {0}]

(* Where the loop of splitSSELines starts. *)
SplitStart == [lines |-> <<>>, start |-> 1]

(* What it ends with. *)
SplitEnd(msg) ==
    LET at[i \in 0..Len(msg)] == IF i = 0 THEN SplitStart ELSE SplitAt(msg, i, at[i - 1])
    IN at[Len(msg)]

(* An iteration looks at no later byte (splitSSELines). *)
LEMMA SplitAtIn ==
    ASSUME NEW B, NEW msg \in Seq(B), NEW i \in 1..Len(msg), NEW s \in SplitState(B)
    PROVE  SplitAt(msg, i, s) \in SplitState(B)
<1>1. s.start \in Nat \ {0} /\ s.lines \in Seq(Seq(B)) /\ i - 1 \in Int /\ i - 1 <= Len(msg)
      /\ i + 1 \in Nat \ {0}
  BY DEF SplitState
<1> DEFINE line == SubSeq(msg, s.start, i - 1)
<1>2. line \in Seq(B)
  BY <1>1, SubSeqIn
<1> DEFINE ls == Append(s.lines, line)
<1>3. ls \in Seq(Seq(B))
  <2> HIDE DEF line
  <2> QED BY <1>1, <1>2
<1> HIDE DEF ls
<1>4. [lines |-> ls, start |-> i + 1] \in SplitState(B)
  BY <1>1, <1>3 DEF SplitState
<1>5. [s EXCEPT !.start = i + 1] \in SplitState(B)
  BY <1>1, SMTT(60) DEF SplitState
<1> QED BY <1>4, <1>5, Zenon DEF SplitAt, ls

(* The iterations of splitSSELines. *)
SplitSteps(msg, S) == [i \in 1..Len(msg) |-> [x \in S |-> SplitAt(msg, i, x)]]

(* SplitEnd is the end of a run of the loop. *)
LEMMA SplitRuns ==
    ASSUME NEW B, NEW msg \in Seq(B)
    PROVE  /\ IsLoop(Len(msg), SplitState(B), SplitStart, SplitSteps(msg, SplitState(B)))
           /\ SplitEnd(msg) = Fold(Len(msg), SplitStart, SplitSteps(msg, SplitState(B)))
<1> DEFINE n == Len(msg)
           S == SplitState(B)
           s0 == SplitStart
           step == SplitSteps(msg, S)
           Loop(f) == [i \in 0..n |-> IF i = 0 THEN s0 ELSE SplitAt(msg, i, f[i - 1])]
           at == CHOOSE f : f = Loop(f)
<1>1. SplitEnd(msg) = at[n]
  BY DEF SplitEnd
<1>2. n \in Nat /\ s0 \in S /\ \A i \in 1..n : \A x \in S : SplitAt(msg, i, x) \in S
  <2>1. n \in Nat /\ s0 \in S
    BY DEF SplitStart, SplitState
  <2>2. ASSUME NEW i \in 1..n, NEW x \in S
        PROVE  SplitAt(msg, i, x) \in S
    BY SplitAtIn
  <2> QED BY <2>1, <2>2
<1>3. step \in [1..n -> [S -> S]]
  BY <1>2 DEF SplitSteps
<1>4. \A i \in 1..n : \A x \in S : step[i][x] = SplitAt(msg, i, x)
  BY DEF SplitSteps
<1> HIDE DEF n, S, s0, step
<1>5. PICK f \in [0..n -> S] : IsRun(f, n, s0, step)
  BY <1>2, <1>3, LoopRuns, Zenon
<1>6. \A i \in 0..n : i = 0 \/ (i \in 1..n /\ i - 1 \in 0..n)
  BY <1>2
<1>7. ASSUME NEW i \in 0..n
      PROVE  f[i] = IF i = 0 THEN s0 ELSE SplitAt(msg, i, f[i - 1])
  <2>1. CASE i = 0
    BY <1>5, <2>1 DEF IsRun
  <2>2. CASE i # 0
    <3>1. i \in 1..n /\ f[i - 1] \in S
      BY <1>6, <2>2
    <3>2. f[i] = step[i][f[i - 1]]
      BY <1>5, <3>1 DEF IsRun
    <3> QED BY <1>4, <2>2, <3>1, <3>2
  <2> QED BY <2>1, <2>2
<1>8. f = Loop(f)
  BY <1>7
<1>9. at = Loop(at)
  <2> HIDE DEF Loop
  <2> QED BY <1>8 DEF at
<1> HIDE DEF at
<1>10. \A i \in 0..n : at[i] = IF i = 0 THEN s0 ELSE SplitAt(msg, i, at[i - 1])
  <2>1. \A i \in 0..n : Loop(at)[i] = IF i = 0 THEN s0 ELSE SplitAt(msg, i, at[i - 1])
    OBVIOUS
  <2> HIDE DEF Loop
  <2> QED BY <1>9, <2>1
<1>11. Follows(at, n, s0, step, S)
  <2>1. 0 \in 0..n /\ \A i \in 1..n : i \in 0..n /\ i # 0
    BY <1>2
  <2> QED BY <1>4, <1>10, <2>1, Zenon DEF Follows
<1>12. IsLoop(n, S, s0, step)
  BY <1>2, <1>3 DEF IsLoop
<1>13. at[n] = Fold(n, s0, step)
  BY <1>11, <1>12, FoldIs, Zenon
<1> QED BY <1>1, <1>12, <1>13 DEF n, S, s0, step

(* There is no line in no bytes (splitSSELines). *)
LEMMA SplitNone ==
    ASSUME NEW B
    PROVE  SplitEnd(<<>>) = SplitStart
<1> DEFINE S == SplitState(B)
           s0 == SplitStart
           none == SplitSteps(<<>>, S)
           z == Len(<<>>)
<1>1. <<>> \in Seq(B) /\ z \in Nat /\ z = 0
  OBVIOUS
<1>2. IsLoop(z, S, s0, none) /\ SplitEnd(<<>>) = Fold(z, s0, none)
  BY <1>1, SplitRuns, Zenon
<1> HIDE DEF none, z, S, s0
<1>3. SplitEnd(<<>>) = s0
  BY <1>1, <1>2, FoldNone
<1> QED BY <1>3 DEF s0

(* The lines of one byte more (splitSSELines). *)
LEMMA SplitNext ==
    ASSUME NEW B, NEW msg \in Seq(B), NEW b \in B
    PROVE  /\ SplitEnd(msg) \in SplitState(B)
           /\ SplitEnd(Append(msg, b)) = SplitAt(Append(msg, b), Len(Append(msg, b)), SplitEnd(msg))
<1> DEFINE S == SplitState(B)
           s0 == SplitStart
           more == Append(msg, b)
           n == Len(msg)
           k == Len(more)
           st == SplitSteps(msg, S)
           mt == SplitSteps(more, S)
<1>1. \A q \in Seq(B) : /\ IsLoop(Len(q), S, s0, SplitSteps(q, S))
                         /\ SplitEnd(q) = Fold(Len(q), s0, SplitSteps(q, S))
  BY SplitRuns, Zenon
<1>2. /\ n \in Nat /\ more \in Seq(B) /\ k \in Nat /\ k = n + 1 /\ more[k] = b
      /\ \A i \in 1..n : more[i] = msg[i]
  OBVIOUS
<1>3. \A i \in 1..n : st[i] = mt[i]
  <2> HIDE DEF more
  <2>1. ASSUME NEW i \in 1..n, NEW x \in S
        PROVE  SplitAt(msg, i, x) = SplitAt(more, i, x)
    <3>1. i - 1 \in Int /\ i - 1 <= Len(msg) /\ Len(msg) <= Len(more) /\ x.start \in Nat \ {0}
      BY <1>2 DEF SplitState
    <3>2. SubSeq(more, x.start, i - 1) = SubSeq(msg, x.start, i - 1)
      BY <1>2, <3>1, SubSeqOfLonger, Zenon
    <3>3. more[i] = msg[i] /\ (i > 1 => more[i - 1] = msg[i - 1])
      BY <1>2
    <3> QED BY <3>2, <3>3, Zenon DEF SplitAt
  <2> QED BY <1>2, <2>1 DEF SplitSteps
<1>4. mt[k] = [x \in S |-> SplitAt(more, Len(more), x)]
  <2> HIDE DEF more
  <2> QED BY <1>2 DEF SplitSteps
<1>5. /\ IsLoop(n, S, s0, st) /\ IsLoop(k, S, s0, mt)
      /\ SplitEnd(msg) = Fold(n, s0, st) /\ SplitEnd(more) = Fold(k, s0, mt)
  <2> HIDE DEF more, s0
  <2> QED BY <1>1, <1>2
<1> HIDE DEF st, mt, S, s0
<1>6. GoesOn(n, k, S, s0, st, mt)
  BY <1>2, <1>3, <1>5 DEF GoesOn
<1> HIDE DEF n, k
<1>7. Fold(n, s0, st) \in S /\ Fold(k, s0, mt) = mt[k][Fold(n, s0, st)]
  BY <1>6, FoldNext
<1>8. mt[k][Fold(n, s0, st)] = SplitAt(more, Len(more), Fold(n, s0, st))
  BY <1>4, <1>7
<1> QED BY <1>5, <1>7, <1>8, Zenon DEF S, s0, more

(* Induction over a sequence, element by element. *)
LEMMA AppendInduction ==
    ASSUME NEW B, NEW P, <<>> \in P, \A s \in Seq(B), b \in B : s \in P => Append(s, b) \in P
    PROVE  \A s \in Seq(B) : s \in P
<1> SUFFICES ASSUME NEW s \in Seq(B)
             PROVE  s \in P
  OBVIOUS
<1> DEFINE n == Len(s)
           Q == {i \in 0..n : SubSeq(s, 1, i) \in P}
<1>1. n \in Nat /\ Q \in SUBSET (0..n)
  OBVIOUS
<1>2. 0 \in Q
  <2>1. SubSeq(s, 1, 0) = <<>> /\ 0 \in 0..n
    OBVIOUS
  <2> QED BY <2>1, Zenon
<1>3. ASSUME NEW i \in 1..n, i - 1 \in Q
      PROVE  i \in Q
  <2> DEFINE t == SubSeq(s, 1, i - 1)
             u == SubSeq(s, 1, i)
  <2>1. t \in Seq(B) /\ Len(t) = i - 1 /\ \A j \in 1..(i - 1) : t[j] = s[j]
    OBVIOUS
  <2>2. u \in Seq(B) /\ Len(u) = i /\ \A j \in 1..i : u[j] = s[j]
    OBVIOUS
  <2>3. s[i] \in B /\ t \in P
    BY <1>3
  <2> HIDE DEF t, u
  <2> DEFINE v == Append(t, s[i])
  <2>4. v \in Seq(B) /\ Len(v) = i /\ \A j \in 1..i : v[j] = s[j]
    BY <2>1, <2>3
  <2>5. v \in P
    BY <2>1, <2>3
  <2> HIDE DEF v
  <2>6. u = v
    BY <2>2, <2>4, SeqEqual
  <2>7. i \in 0..n
    BY <1>1
  <2> QED BY <2>5, <2>6, <2>7, Zenon DEF u
<1>4. \A i \in Q : SubSeq(s, 1, i) \in P
  OBVIOUS
<1>5. SubSeq(s, 1, n) = s /\ n \in 0..n
  OBVIOUS
<1> HIDE DEF n, Q
<1>6. \A i \in 0..n : i \in Q
  BY <1>1, <1>2, <1>3, IntervalInduction, Zenon
<1> QED BY <1>4, <1>5, <1>6, Zenon

(* The line that has not ended begins after at most all of the bytes. *)
LEMMA SplitStartIn ==
    ASSUME NEW B
    PROVE  \A msg \in Seq(B) : SplitEnd(msg).start \in 1..(Len(msg) + 1)
<1> DEFINE P == {msg \in Seq(B) : SplitEnd(msg).start \in 1..(Len(msg) + 1)}
<1>1. ASSUME NEW msg \in Seq(B), NEW b \in B, msg \in P
      PROVE  Append(msg, b) \in P
  <2> DEFINE more == Append(msg, b)
             s == SplitEnd(msg)
  <2>1. SplitEnd(more) = SplitAt(more, Len(more), s) /\ s \in SplitState(B)
    BY SplitNext
  <2>2. /\ more \in Seq(B) /\ Len(more) = Len(msg) + 1 /\ Len(msg) \in Nat
        /\ s.start \in 1..(Len(msg) + 1)
    BY <1>1
  <2> HIDE DEF more, s
  <2>3. SplitAt(more, Len(more), s).start \in {s.start, Len(more) + 1}
    BY <2>1 DEF SplitAt, SplitState
  <2> QED BY <2>1, <2>2, <2>3 DEF more
<1>2. <<>> \in P
  <2>1. SplitEnd(<<>>) = SplitStart
    BY SplitNone
  <2> QED BY <2>1 DEF SplitStart
<1> HIDE DEF P
<1>3. \A msg \in Seq(B) : msg \in P
  BY <1>1, <1>2, AppendInduction
<1> QED BY <1>3 DEF P

(* The fields of the lines that have ended. *)
Ended(msg) == Folded(SplitEnd(msg).lines)

(* The line that has not. *)
Rest(msg) == SubSeq(msg, SplitEnd(msg).start, Len(msg))

(* An LF that belongs to the CR before it. *)
Skipped(msg, b) == b = LF /\ msg # <<>> /\ msg[Len(msg)] = CR

(* The fields of a frame are those of its lines that have ended, and of the
   one that has not (dispatch). *)
LEMMA FieldsByLine ==
    ASSUME NEW B, NEW msg \in Seq(B)
    PROVE  /\ Ended(msg) \in FieldsOf(B) /\ Rest(msg) \in Seq(B)
           /\ Fields(msg) = Field(Ended(msg), Rest(msg))
<1> DEFINE s == SplitEnd(msg)
<1>1. s \in SplitState(B) /\ s.start \in 1..(Len(msg) + 1) /\ Len(msg) \in Nat
  BY SplitRuns, SplitStartIn, FoldIn
<1>2. splitSSELines(msg) = IF s.start <= Len(msg) THEN Append(s.lines, Rest(msg)) ELSE s.lines
  BY DEF splitSSELines, SplitEnd, SplitStart, Rest
<1>3. Fields(msg) = Folded(splitSSELines(msg))
  BY DEF Fields, Folded
<1> HIDE DEF s
<1>4. Rest(msg) \in Seq(B) /\ (s.start > Len(msg) => Rest(msg) = <<>>) /\ s.lines \in Seq(Seq(B))
  <2>1. s.start \in Nat \ {0} /\ Len(msg) \in Int /\ Len(msg) <= Len(msg) /\ s.lines \in Seq(Seq(B))
    BY <1>1 DEF SplitState
  <2>2. /\ SubSeq(msg, s.start, Len(msg)) \in Seq(B)
        /\ Len(SubSeq(msg, s.start, Len(msg))) =
              IF s.start <= Len(msg) THEN Len(msg) - s.start + 1 ELSE 0
    BY <2>1, SubSeqIn
  <2>3. Rest(msg) = SubSeq(msg, s.start, Len(msg))
    BY DEF Rest, s
  <2>4. s.start > Len(msg) => Len(Rest(msg)) = 0
    BY <1>1, <2>2, <2>3
  <2> QED BY <2>1, <2>2, <2>3, <2>4
<1>5. /\ Folded(s.lines) \in FieldsOf(B)
      /\ Folded(Append(s.lines, Rest(msg))) = Field(Folded(s.lines), Rest(msg))
  BY <1>4, FoldedNext
<1>6. Ended(msg) = Folded(s.lines)
  BY DEF Ended, s
<1>7. \A f : Field(f, <<>>) = f
  BY DEF Field
<1>8. CASE s.start <= Len(msg)
  BY <1>2, <1>3, <1>4, <1>5, <1>6, <1>8
<1>9. CASE ~ (s.start <= Len(msg))
  <2>1. Rest(msg) = <<>>
    BY <1>1, <1>4, <1>9
  <2>2. Field(Ended(msg), Rest(msg)) = Ended(msg)
    BY <1>7, <2>1, Zenon
  <2> QED BY <1>2, <1>3, <1>4, <1>5, <1>6, <1>9, <2>2, Zenon
<1> QED BY <1>8, <1>9

(* u is s from m to n. *)
IsPart(u, s, m, n, B) ==
    /\ u \in Seq(B) /\ Len(u) = IF m <= n THEN n - m + 1 ELSE 0
    /\ \A i \in 1..(n - m + 1) : u[i] = s[m + i - 1]

(* What SubSeq returns. *)
LEMMA PartOf ==
    ASSUME NEW B, NEW s \in Seq(B), NEW m \in Nat \ {0}, NEW n \in Int, n <= Len(s)
    PROVE  IsPart(SubSeq(s, m, n), s, m, n, B)
BY SubSeqIn, ZenonT(60) DEF IsPart

(* more is msg and one byte. *)
IsNext(msg, b, more) == more = Append(msg, b)

(* What one byte does: it goes on the line, belongs to the CR before it, or
   ends the line. *)
ByteReads(msg, b, more) ==
    /\ b \notin {CR, LF} => Ended(more) = Ended(msg) /\ Rest(more) = Append(Rest(msg), b)
    /\ Skipped(msg, b) => Ended(more) = Ended(msg) /\ Rest(more) = <<>>
    /\ b \in {CR, LF} /\ ~ Skipped(msg, b) => Ended(more) = Fields(msg) /\ Rest(more) = <<>>

(* It does (splitSSELines). *)
LEMMA ByteRead ==
    ASSUME NEW B, NEW msg \in Seq(B), NEW b \in B, NEW more, IsNext(msg, b, more)
    PROVE  ByteReads(msg, b, more) /\ more \in Seq(B)
<1> SUFFICES
        ASSUME more = Append(msg, b)
        PROVE  /\ b \notin {CR, LF} => Ended(more) = Ended(msg) /\ Rest(more) = Append(Rest(msg), b)
               /\ Skipped(msg, b) => Ended(more) = Ended(msg) /\ Rest(more) = <<>>
               /\ b \in {CR, LF} /\ ~ Skipped(msg, b)
                      => Ended(more) = Fields(msg) /\ Rest(more) = <<>>
  BY DEF IsNext, ByteReads
<1> DEFINE s == SplitEnd(msg)
           k == Len(more)
           e == SplitAt(more, k, s)
<1>1. SplitEnd(more) = e /\ s \in SplitState(B) /\ s.start \in 1..(Len(msg) + 1)
  BY SplitNext, SplitStartIn
<1>2. /\ Len(msg) \in Nat /\ more \in Seq(B) /\ k = Len(msg) + 1 /\ k \in Nat /\ more[k] = b
      /\ \A i \in 1..Len(msg) : more[i] = msg[i]
  OBVIOUS
<1>3. Rest(msg) = SubSeq(msg, s.start, Len(msg)) /\ Rest(more) = SubSeq(more, e.start, k)
      /\ Ended(msg) = Folded(s.lines) /\ Ended(more) = Folded(e.lines)
  <2>1. /\ Rest(more) = SubSeq(more, SplitEnd(more).start, Len(more))
        /\ Ended(more) = Folded(SplitEnd(more).lines)
    BY DEF Rest, Ended
  <2> HIDE DEF e
  <2> QED BY <1>1, <2>1, Zenon DEF Rest, Ended
<1>4. CR # LF
  BY DEF CR, LF
<1>5. Skipped(msg, b) <=> b = LF /\ k > 1 /\ more[k - 1] = CR
  <2>1. msg # <<>> <=> Len(msg) > 0
    OBVIOUS
  <2> HIDE DEF k
  <2> QED BY <1>2, <2>1 DEF Skipped
<1> HIDE DEF s, k
<1>6. s.start \in Nat \ {0} /\ s.lines \in Seq(Seq(B)) /\ s.start <= k
  BY <1>1, <1>2 DEF SplitState
<1>7. ASSUME e.start = k + 1
      PROVE  Rest(more) = <<>>
  <2>1. Len(SubSeq(more, k + 1, k)) = 0 /\ SubSeq(more, k + 1, k) \in Seq(B)
    <3> DEFINE m == k + 1
    <3>1. m \in Nat \ {0} /\ k \in Int /\ k <= Len(more) /\ ~ (m <= k)
      BY <1>2 DEF k
    <3> HIDE DEF m
    <3>2. Len(SubSeq(more, m, k)) = 0 /\ SubSeq(more, m, k) \in Seq(B)
      BY <1>2, <3>1, SubSeqIn
    <3> QED BY <3>2 DEF m
  <2>2. Rest(more) = SubSeq(more, k + 1, k)
    BY <1>3, <1>7, Zenon
  <2> QED BY <2>1, <2>2
<1>8. CASE b \notin {CR, LF}
  <2>1. e = s
    BY <1>2, <1>8 DEF SplitAt
  <2> HIDE DEF e
  <2> DEFINE u == SubSeq(msg, s.start, Len(msg))
             v == SubSeq(more, s.start, k)
             w == Append(u, b)
             l == k - s.start + 1
  <2>2. u \in Seq(B) /\ Len(u) = l - 1 /\ \A i \in 1..(l - 1) : u[i] = msg[s.start + i - 1]
    <3> DEFINE j == Len(msg)
    <3>1. /\ j \in Int /\ j <= Len(msg) /\ j - s.start + 1 = l - 1
          /\ (IF s.start <= j THEN j - s.start + 1 ELSE 0) = l - 1
      BY <1>2, <1>6
    <3> HIDE DEF j, l
    <3>2. /\ SubSeq(msg, s.start, j) \in Seq(B)
          /\ Len(SubSeq(msg, s.start, j)) = IF s.start <= j THEN j - s.start + 1 ELSE 0
          /\ \A i \in 1..(j - s.start + 1) : SubSeq(msg, s.start, j)[i] = msg[s.start + i - 1]
      BY <1>6, <3>1, SubSeqIn
    <3> QED BY <3>1, <3>2 DEF j
  <2>3. v \in Seq(B) /\ Len(v) = l /\ \A i \in 1..l : v[i] = more[s.start + i - 1]
    <3>1. k \in Int /\ k <= Len(more) /\ (IF s.start <= k THEN l ELSE 0) = l /\ k - s.start + 1 = l
      BY <1>2, <1>6 DEF k
    <3>0. more \in Seq(B) /\ s.start \in Nat \ {0}
      BY <1>2, <1>6
    <3> HIDE DEF l
    <3>2. IsPart(SubSeq(more, s.start, k), more, s.start, k, B)
      BY <3>0, <3>1, PartOf, Zenon
    <3> QED BY <3>1, <3>2, Zenon DEF IsPart
  <2>4. /\ l \in Nat \ {0} /\ s.start + l - 1 = k
        /\ \A i \in 1..(l - 1) : s.start + i - 1 \in 1..Len(msg)
    BY <1>2, <1>6
  <2> HIDE DEF u, v, l
  <2>5. w \in Seq(B) /\ Len(w) = l /\ w[l] = b /\ \A i \in 1..(l - 1) : w[i] = u[i]
    BY <2>2, <2>4
  <2> HIDE DEF w
  <2>6. \A i \in 1..l : v[i] = w[i]
    <3> SUFFICES ASSUME NEW i \in 1..l
                 PROVE  v[i] = w[i]
      OBVIOUS
    <3>1. CASE i = l
      BY <1>2, <2>3, <2>4, <2>5, <3>1
    <3>2. CASE i # l
      <4>1. i \in 1..(l - 1)
        BY <2>4, <3>2
      <4> QED BY <1>2, <2>2, <2>3, <2>4, <2>5, <4>1, Zenon
    <3> QED BY <3>1, <3>2
  <2>7. v = w
    BY <2>3, <2>5, <2>6, SeqEqual
  <2>8. Rest(more) = Append(Rest(msg), b) /\ Ended(more) = Ended(msg)
    BY <1>3, <2>1, <2>7, Zenon DEF u, v, w
  <2> QED BY <1>8, <2>8 DEF Skipped
<1>9. CASE Skipped(msg, b)
  <2>1. e = [s EXCEPT !.start = k + 1]
    BY <1>2, <1>4, <1>5, <1>9 DEF SplitAt
  <2>2. e.lines = s.lines /\ e.start = k + 1
    BY <1>1, <2>1 DEF SplitState
  <2> HIDE DEF e
  <2>3. Ended(more) = Ended(msg) /\ Rest(more) = <<>>
    BY <1>3, <1>7, <2>2
  <2> QED BY <1>9, <2>3 DEF Skipped
<1>10. CASE b \in {CR, LF} /\ ~ Skipped(msg, b)
  <2>1. e = [lines |-> Append(s.lines, SubSeq(more, s.start, k - 1)), start |-> k + 1]
    BY <1>2, <1>5, <1>10 DEF SplitAt
  <2>2. SubSeq(more, s.start, k - 1) = Rest(msg)
    <3> DEFINE j == Len(msg)
    <3>1. j \in Int /\ j <= Len(msg) /\ Len(msg) <= Len(more) /\ k - 1 = j
      BY <1>2 DEF k
    <3>2. SubSeq(more, s.start, j) = SubSeq(msg, s.start, j)
      <4> HIDE DEF j
      <4> QED BY <1>2, <1>6, <3>1, SubSeqOfLonger, SMTT(60)
    <3> QED BY <1>3, <3>1, <3>2, Zenon
  <2>3. e.lines = Append(s.lines, Rest(msg)) /\ e.start = k + 1
    <3> HIDE DEF e
    <3> QED BY <2>1, <2>2, Zenon
  <2> HIDE DEF e
  <2>4. Rest(msg) \in Seq(B) /\ Fields(msg) = Field(Ended(msg), Rest(msg))
    BY FieldsByLine
  <2>5. Folded(Append(s.lines, Rest(msg))) = Field(Folded(s.lines), Rest(msg))
    BY <1>6, <2>4, FoldedNext
  <2>6. Ended(more) = Fields(msg) /\ Rest(more) = <<>>
    BY <1>3, <1>7, <2>3, <2>4, <2>5
  <2> QED BY <1>10, <2>6
<1> QED BY <1>8, <1>9, <1>10

(* There is nothing in no bytes (dispatch). *)
LEMMA NothingRead ==
    ASSUME NEW B
    PROVE  Ended(<<>>) = NoFields /\ Rest(<<>>) = <<>> /\ Fields(<<>>) = NoFields
<1>1. SplitEnd(<<>>) = SplitStart /\ Folded(<<>>) = NoFields
  BY SplitNone, FoldedNone
<1>2. Ended(<<>>) = NoFields /\ Rest(<<>>) = <<>>
  BY <1>1 DEF SplitStart, Ended, Rest
<1>3. <<>> \in Seq(B) /\ Field(NoFields, <<>>) = NoFields
  BY DEF Field
<1>4. Fields(<<>>) = Field(Ended(<<>>), Rest(<<>>))
  BY <1>3, FieldsByLine, Zenon
<1> QED BY <1>2, <1>3, <1>4

(* The last byte of a sequence. *)
LEMMA LastByte ==
    ASSUME NEW B, NEW msg \in Seq(B), msg # <<>>
    PROVE  \E front \in Seq(B), b \in B : msg = Append(front, b) /\ b = msg[Len(msg)]
<1> DEFINE n == Len(msg)
           front == SubSeq(msg, 1, n - 1)
           b == msg[n]
<1>1. n \in Nat /\ n > 0 /\ b \in B
  OBVIOUS
<1>2. front \in Seq(B) /\ Len(front) = n - 1 /\ \A i \in 1..(n - 1) : front[i] = msg[i]
  <2> DEFINE j == n - 1
             m == 1
  <2>1. /\ m \in Nat \ {0} /\ j \in Int /\ j <= Len(msg)
        /\ (IF m <= j THEN j - m + 1 ELSE 0) = n - 1
        /\ j - m + 1 = n - 1 /\ \A i \in 1..(n - 1) : m + i - 1 = i
    <3>1. n \in Nat /\ n > 0 /\ n <= Len(msg)
      BY <1>1
    <3> HIDE DEF n
    <3> QED BY <3>1
  <2> HIDE DEF j, m
  <2>2. IsPart(SubSeq(msg, m, j), msg, m, j, B)
    BY <2>1, PartOf
  <2>3. front = SubSeq(msg, m, j)
    BY DEF j, m
  <2> HIDE DEF n, front
  <2> QED BY <2>1, <2>2, <2>3 DEF IsPart
<1> HIDE DEF front
<1> DEFINE all == Append(front, b)
<1>3. all \in Seq(B) /\ Len(all) = n /\ \A i \in 1..n : all[i] = msg[i]
  BY <1>1, <1>2
<1> HIDE DEF all
<1>4. all = msg
  BY <1>3, SeqEqual
<1> QED BY <1>1, <1>2, <1>4 DEF all

(* No line is under way exactly at the start and after a line end. *)
LEMMA RestEmpty ==
    ASSUME NEW B, NEW msg \in Seq(B)
    PROVE  Rest(msg) = <<>> <=> (msg = <<>> \/ msg[Len(msg)] \in {CR, LF})
<1>1. CASE msg = <<>>
  BY <1>1, NothingRead
<1>2. CASE msg # <<>>
  <2>1. PICK front \in Seq(B), b \in B : msg = Append(front, b) /\ b = msg[Len(msg)]
    BY <1>2, LastByte
  <2>0. ByteReads(front, b, msg)
    <3>1. IsNext(front, b, msg)
      BY <2>1 DEF IsNext
    <3> QED BY <3>1, ByteRead, Zenon
  <2>2. b \notin {CR, LF} => Rest(msg) = Append(Rest(front), b)
    BY <2>0, Zenon DEF ByteReads
  <2>3. b \in {CR, LF} => Rest(msg) = <<>>
    BY <2>0, Zenon DEF ByteReads
  <2>4. Rest(front) \in Seq(B)
    BY FieldsByLine
  <2>5. Append(Rest(front), b) # <<>>
    <3> DEFINE v == Rest(front)
    <3>1. v \in Seq(B)
      BY <2>4
    <3> HIDE DEF v
    <3>2. Len(v) \in Nat /\ Len(Append(v, b)) = Len(v) + 1
      BY <3>1
    <3>3. Len(Append(v, b)) # 0
      BY <3>2
    <3>4. Len(<<>>) = 0
      OBVIOUS
    <3>5. Append(v, b) # <<>>
      BY <3>3, <3>4, Zenon
    <3> QED BY <3>5, Zenon DEF v
  <2> QED BY <1>2, <2>1, <2>2, <2>3, <2>5
<1> QED BY <1>1, <1>2

-----------------------------------------------------------------------------
(***************************************************************************)
(* Lines and Gathered, one step more                                       *)
(***************************************************************************)
(* What byte i of s does to the lines so far. *)
LineAt(s, i, ls) ==
    IF s[i] = CR \/ (s[i] = LF /\ (i = 1 \/ s[i - 1] # CR)) THEN Append(ls, <<>>)
    ELSE IF s[i] = LF THEN ls
    ELSE [ls EXCEPT ![Len(ls)] = Append(@, s[i])]

(* There is always a line under way. *)
SomeLines(B) == Seq(Seq(B)) \ {<<>>}

(* The line that a stream begins with. *)
FirstLine == << <<>> >>

(* A byte leaves lines (Lines). *)
LEMMA LineAtIn ==
    ASSUME NEW B, NEW s \in Seq(B), NEW i \in 1..Len(s), NEW ls \in SomeLines(B)
    PROVE  LineAt(s, i, ls) \in SomeLines(B)
<1>1. /\ ls \in Seq(Seq(B)) /\ ls # <<>> /\ Len(ls) \in Nat /\ Len(ls) > 0 /\ s[i] \in B
      /\ <<>> \in Seq(B)
  BY DEF SomeLines
<1>2. Append(ls, <<>>) \in SomeLines(B)
  <2> DEFINE S == Seq(B)
             e == <<>>
             more == Append(ls, e)
  <2>1. ls \in Seq(S) /\ e \in S
    BY <1>1
  <2> HIDE DEF S, e
  <2>2. more \in Seq(S) /\ Len(more) = Len(ls) + 1
    BY <2>1
  <2> HIDE DEF more
  <2>3. more # <<>>
    BY <1>1, <2>2
  <2> QED BY <2>2, <2>3 DEF SomeLines, S, e, more
<1> DEFINE n == Len(ls)
           line == Append(ls[n], s[i])
           more == [ls EXCEPT ![n] = line]
<1>3. line \in Seq(B)
  <2>1. ls[n] \in Seq(B)
    BY <1>1
  <2> QED BY <1>1, <2>1
<1> HIDE DEF line
<1>4. more \in Seq(Seq(B)) /\ Len(more) = n
  BY <1>1, <1>3
<1> HIDE DEF more
<1>5. more \in SomeLines(B)
  BY <1>1, <1>4 DEF SomeLines
<1>6. [ls EXCEPT ![Len(ls)] = Append(@, s[i])] = more
  BY DEF more, line
<1> QED BY <1>1, <1>2, <1>5, <1>6, Zenon DEF LineAt, SomeLines


(* The steps of Lines. *)
LinesSteps(s, S) == [i \in 1..Len(s) |-> [x \in S |-> LineAt(s, i, x)]]

(* Lines is the end of a run of them. *)
LEMMA LinesRuns ==
    ASSUME NEW B, NEW s \in Seq(B)
    PROVE  /\ IsLoop(Len(s), SomeLines(B), FirstLine, LinesSteps(s, SomeLines(B)))
           /\ Lines(s) = Fold(Len(s), FirstLine, LinesSteps(s, SomeLines(B)))
<1> DEFINE n == Len(s)
           S == SomeLines(B)
           s0 == FirstLine
           step == LinesSteps(s, S)
           Loop(f) == [i \in 0..n |-> IF i = 0 THEN s0 ELSE LineAt(s, i, f[i - 1])]
           at == CHOOSE f : f = Loop(f)
<1>1. Lines(s) = at[n]
  BY DEF Lines, LineAt, FirstLine
<1>2. n \in Nat /\ s0 \in S /\ \A i \in 1..n : \A x \in S : LineAt(s, i, x) \in S
  <2>1. n \in Nat /\ s0 \in S
    BY DEF FirstLine, SomeLines
  <2>2. ASSUME NEW i \in 1..n, NEW x \in S
        PROVE  LineAt(s, i, x) \in S
    BY LineAtIn
  <2> QED BY <2>1, <2>2
<1>3. step \in [1..n -> [S -> S]]
  BY <1>2 DEF LinesSteps
<1>4. \A i \in 1..n : \A x \in S : step[i][x] = LineAt(s, i, x)
  BY DEF LinesSteps
<1> HIDE DEF n, S, s0, step
<1>5. PICK f \in [0..n -> S] : IsRun(f, n, s0, step)
  BY <1>2, <1>3, LoopRuns, Zenon
<1>6. \A i \in 0..n : i = 0 \/ (i \in 1..n /\ i - 1 \in 0..n)
  BY <1>2
<1>7. ASSUME NEW i \in 0..n
      PROVE  f[i] = IF i = 0 THEN s0 ELSE LineAt(s, i, f[i - 1])
  <2>1. CASE i = 0
    BY <1>5, <2>1 DEF IsRun
  <2>2. CASE i # 0
    <3>1. i \in 1..n /\ f[i - 1] \in S
      BY <1>6, <2>2
    <3>2. f[i] = step[i][f[i - 1]]
      BY <1>5, <3>1 DEF IsRun
    <3> QED BY <1>4, <2>2, <3>1, <3>2
  <2> QED BY <2>1, <2>2
<1>8. f = Loop(f)
  BY <1>7
<1>9. at = Loop(at)
  <2> HIDE DEF Loop
  <2> QED BY <1>8 DEF at
<1> HIDE DEF at
<1>10. \A i \in 0..n : at[i] = IF i = 0 THEN s0 ELSE LineAt(s, i, at[i - 1])
  <2>1. \A i \in 0..n : Loop(at)[i] = IF i = 0 THEN s0 ELSE LineAt(s, i, at[i - 1])
    OBVIOUS
  <2> HIDE DEF Loop
  <2> QED BY <1>9, <2>1
<1>11. Follows(at, n, s0, step, S)
  <2>1. 0 \in 0..n /\ \A i \in 1..n : i \in 0..n /\ i # 0
    BY <1>2
  <2> QED BY <1>4, <1>10, <2>1, Zenon DEF Follows
<1>12. IsLoop(n, S, s0, step)
  BY <1>2, <1>3 DEF IsLoop
<1>13. at[n] = Fold(n, s0, step)
  BY <1>11, <1>12, FoldIs, Zenon
<1> QED BY <1>1, <1>12, <1>13 DEF n, S, s0, step

(* There is one line in no bytes (Lines). *)
LEMMA LinesNone ==
    ASSUME NEW B
    PROVE  Lines(<<>>) = FirstLine
<1> DEFINE S == SomeLines(B)
           s0 == FirstLine
           none == LinesSteps(<<>>, S)
           z == Len(<<>>)
<1>1. <<>> \in Seq(B) /\ z \in Nat /\ z = 0
  OBVIOUS
<1>2. IsLoop(z, S, s0, none) /\ Lines(<<>>) = Fold(z, s0, none)
  BY <1>1, LinesRuns, Zenon
<1> HIDE DEF none, z, S, s0
<1>3. Lines(<<>>) = s0
  BY <1>1, <1>2, FoldNone
<1> QED BY <1>3 DEF s0

(* The lines of one byte more (Lines). *)
LEMMA LinesNext ==
    ASSUME NEW B, NEW s \in Seq(B), NEW b \in B
    PROVE  /\ Lines(s) \in SomeLines(B)
           /\ Lines(Append(s, b)) = LineAt(Append(s, b), Len(Append(s, b)), Lines(s))
<1> DEFINE S == SomeLines(B)
           s0 == FirstLine
           more == Append(s, b)
           n == Len(s)
           k == Len(more)
           st == LinesSteps(s, S)
           mt == LinesSteps(more, S)
<1>1. \A q \in Seq(B) : /\ IsLoop(Len(q), S, s0, LinesSteps(q, S))
                         /\ Lines(q) = Fold(Len(q), s0, LinesSteps(q, S))
  BY LinesRuns, Zenon
<1>2. /\ n \in Nat /\ more \in Seq(B) /\ k \in Nat /\ k = n + 1 /\ more[k] = b
      /\ \A i \in 1..n : more[i] = s[i]
  OBVIOUS
<1>3. \A i \in 1..n : st[i] = mt[i]
  <2> HIDE DEF more
  <2>1. ASSUME NEW i \in 1..n, NEW x \in S
        PROVE  LineAt(s, i, x) = LineAt(more, i, x)
    <3>1. more[i] = s[i] /\ (i # 1 => more[i - 1] = s[i - 1])
      BY <1>2
    <3> QED BY <3>1 DEF LineAt
  <2> QED BY <1>2, <2>1 DEF LinesSteps
<1>4. mt[k] = [x \in S |-> LineAt(more, Len(more), x)]
  <2> HIDE DEF more
  <2> QED BY <1>2 DEF LinesSteps
<1>5. /\ IsLoop(n, S, s0, st) /\ IsLoop(k, S, s0, mt)
      /\ Lines(s) = Fold(n, s0, st) /\ Lines(more) = Fold(k, s0, mt)
  <2> HIDE DEF more, s0
  <2> QED BY <1>1, <1>2
<1> HIDE DEF st, mt, S, s0
<1>6. GoesOn(n, k, S, s0, st, mt)
  BY <1>2, <1>3, <1>5 DEF GoesOn
<1> HIDE DEF n, k
<1>7. Fold(n, s0, st) \in S /\ Fold(k, s0, mt) = mt[k][Fold(n, s0, st)]
  BY <1>6, FoldNext
<1>8. mt[k][Fold(n, s0, st)] = LineAt(more, Len(more), Fold(n, s0, st))
  BY <1>4, <1>7
<1> QED BY <1>5, <1>7, <1>8, Zenon DEF S, s0, more

(* What a line does to the event under way. *)
GatherAt(x, line) ==
    IF line = <<>> THEN [frame |-> <<>>, out |-> dispatch(x.out, x.frame)]
    ELSE [x EXCEPT !.frame = @ \o line \o <<LF>>]

(* Nothing gathered. *)
GatherStart == [frame |-> <<>>, out |-> <<>>]

(* What the lines gather before the end of the stream. *)
GatherEnd(lines) ==
    LET upto[i \in 0..Len(lines)] == IF i = 0 THEN GatherStart ELSE GatherAt(upto[i - 1], lines[i])
    IN upto[Len(lines)]

(* The lines of an event, and the events before it. *)
GatherState(B) == [frame : Seq(B), out : Seq(FieldsOf(B))]

(* A line leaves such a state (Gathered). *)
LEMMA GatherAtIn ==
    ASSUME NEW B, LF \in B, NEW x \in GatherState(B), NEW line \in Seq(B)
    PROVE  GatherAt(x, line) \in GatherState(B)
<1>1. x.frame \in Seq(B) /\ x.out \in Seq(FieldsOf(B)) /\ <<LF>> \in Seq(B) /\ <<>> \in Seq(B)
  BY DEF GatherState
<1> DEFINE d == dispatch(x.out, x.frame)
           w == x.frame \o line \o <<LF>>
<1>2. d \in Seq(FieldsOf(B))
  BY <1>1, DispatchIn
<1>3. w \in Seq(B)
  BY <1>1
<1> HIDE DEF d, w
<1>4. [frame |-> <<>>, out |-> d] \in GatherState(B)
  BY <1>1, <1>2 DEF GatherState
<1>5. [x EXCEPT !.frame = w] \in GatherState(B)
  BY <1>3 DEF GatherState
<1> QED BY <1>4, <1>5, Zenon DEF GatherAt, d, w


(* The steps of Gathered. *)
GatherSteps(lines, S) == [i \in 1..Len(lines) |-> [x \in S |-> GatherAt(x, lines[i])]]

(* GatherEnd is the end of a run of them. *)
LEMMA GatherRuns ==
    ASSUME NEW B, LF \in B, NEW lines \in Seq(Seq(B))
    PROVE  /\ IsLoop(Len(lines), GatherState(B), GatherStart, GatherSteps(lines, GatherState(B)))
           /\ GatherEnd(lines) = Fold(Len(lines), GatherStart, GatherSteps(lines, GatherState(B)))
<1> DEFINE n == Len(lines)
           S == GatherState(B)
           s0 == GatherStart
           step == GatherSteps(lines, S)
           Loop(f) == [i \in 0..n |-> IF i = 0 THEN s0 ELSE GatherAt(f[i - 1], lines[i])]
           at == CHOOSE f : f = Loop(f)
<1>1. GatherEnd(lines) = at[n]
  BY DEF GatherEnd
<1>2. n \in Nat /\ s0 \in S /\ \A i \in 1..n : \A x \in S : GatherAt(x, lines[i]) \in S
  <2>1. n \in Nat /\ s0 \in S
    BY DEF GatherStart, GatherState
  <2>2. ASSUME NEW i \in 1..n, NEW x \in S
        PROVE  GatherAt(x, lines[i]) \in S
    <3>1. lines[i] \in Seq(B)
      OBVIOUS
    <3> QED BY <3>1, GatherAtIn
  <2> QED BY <2>1, <2>2
<1>3. step \in [1..n -> [S -> S]]
  BY <1>2 DEF GatherSteps
<1>4. \A i \in 1..n : \A x \in S : step[i][x] = GatherAt(x, lines[i])
  BY DEF GatherSteps
<1> HIDE DEF n, S, s0, step
<1>5. PICK f \in [0..n -> S] : IsRun(f, n, s0, step)
  BY <1>2, <1>3, LoopRuns, Zenon
<1>6. \A i \in 0..n : i = 0 \/ (i \in 1..n /\ i - 1 \in 0..n)
  BY <1>2
<1>7. ASSUME NEW i \in 0..n
      PROVE  f[i] = IF i = 0 THEN s0 ELSE GatherAt(f[i - 1], lines[i])
  <2>1. CASE i = 0
    BY <1>5, <2>1 DEF IsRun
  <2>2. CASE i # 0
    <3>1. i \in 1..n /\ f[i - 1] \in S
      BY <1>6, <2>2, SMTT(60)
    <3>2. f[i] = step[i][f[i - 1]]
      BY <1>5, <3>1 DEF IsRun
    <3> QED BY <1>4, <2>2, <3>1, <3>2
  <2> QED BY <2>1, <2>2
<1>8. f = Loop(f)
  BY <1>7
<1>9. at = Loop(at)
  <2> HIDE DEF Loop
  <2> QED BY <1>8 DEF at
<1> HIDE DEF at
<1>10. \A i \in 0..n : at[i] = IF i = 0 THEN s0 ELSE GatherAt(at[i - 1], lines[i])
  <2>1. \A i \in 0..n : Loop(at)[i] = IF i = 0 THEN s0 ELSE GatherAt(at[i - 1], lines[i])
    OBVIOUS
  <2> HIDE DEF Loop
  <2> QED BY <1>9, <2>1
<1>11. Follows(at, n, s0, step, S)
  <2>1. 0 \in 0..n /\ \A i \in 1..n : i \in 0..n /\ i # 0
    BY <1>2
  <2> QED BY <1>4, <1>10, <2>1, Zenon DEF Follows
<1>12. IsLoop(n, S, s0, step)
  BY <1>2, <1>3 DEF IsLoop
<1>13. at[n] = Fold(n, s0, step)
  BY <1>11, <1>12, FoldIs, Zenon
<1> QED BY <1>1, <1>12, <1>13 DEF n, S, s0, step

(* No line gathers nothing (Gathered). *)
LEMMA GatherNone ==
    ASSUME NEW B, LF \in B
    PROVE  GatherEnd(<<>>) = GatherStart
<1> DEFINE S == GatherState(B)
           s0 == GatherStart
           none == GatherSteps(<<>>, S)
           z == Len(<<>>)
<1>1. <<>> \in Seq(Seq(B)) /\ z \in Nat /\ z = 0
  OBVIOUS
<1>2. IsLoop(z, S, s0, none) /\ GatherEnd(<<>>) = Fold(z, s0, none)
  BY <1>1, GatherRuns, Zenon
<1> HIDE DEF none, z, S, s0
<1>3. GatherEnd(<<>>) = s0
  BY <1>1, <1>2, FoldNone
<1> QED BY <1>3 DEF s0

(* What one line more gathers (Gathered). *)
LEMMA GatherNext ==
    ASSUME NEW B, LF \in B, NEW lines \in Seq(Seq(B)), NEW line \in Seq(B)
    PROVE  /\ GatherEnd(lines) \in GatherState(B)
           /\ GatherEnd(Append(lines, line)) = GatherAt(GatherEnd(lines), line)
<1> DEFINE S == GatherState(B)
           s0 == GatherStart
           more == Append(lines, line)
           n == Len(lines)
           k == Len(more)
           st == GatherSteps(lines, S)
           mt == GatherSteps(more, S)
<1>1. \A q \in Seq(Seq(B)) : /\ IsLoop(Len(q), S, s0, GatherSteps(q, S))
                         /\ GatherEnd(q) = Fold(Len(q), s0, GatherSteps(q, S))
  BY GatherRuns, Zenon
<1>2. /\ n \in Nat /\ more \in Seq(Seq(B)) /\ k \in Nat /\ k = n + 1 /\ more[k] = line
      /\ \A i \in 1..n : more[i] = lines[i]
  OBVIOUS
<1>3. \A i \in 1..n : st[i] = mt[i]
  <2> HIDE DEF more
  <2> QED BY <1>2 DEF GatherSteps
<1>4. mt[k] = [x \in S |-> GatherAt(x, line)]
  <2> HIDE DEF more
  <2> QED BY <1>2 DEF GatherSteps
<1>5. /\ IsLoop(n, S, s0, st) /\ IsLoop(k, S, s0, mt)
      /\ GatherEnd(lines) = Fold(n, s0, st) /\ GatherEnd(more) = Fold(k, s0, mt)
  <2> HIDE DEF more, s0
  <2> QED BY <1>1, <1>2
<1> HIDE DEF st, mt, S, s0
<1>6. GoesOn(n, k, S, s0, st, mt)
  BY <1>2, <1>3, <1>5 DEF GoesOn
<1> HIDE DEF n, k
<1>7. Fold(n, s0, st) \in S /\ Fold(k, s0, mt) = mt[k][Fold(n, s0, st)]
  BY <1>6, FoldNext
<1>8. mt[k][Fold(n, s0, st)] = GatherAt(Fold(n, s0, st), line)
  BY <1>4, <1>7
<1> QED BY <1>5, <1>7, <1>8, Zenon DEF S, s0, more

-----------------------------------------------------------------------------
(***************************************************************************)
(* What the EventSource rules make of one byte more                        *)
(***************************************************************************)
(* One element changed. *)
LEMMA ChangedSeq ==
    ASSUME NEW S, NEW s \in Seq(S), NEW n \in 1..Len(s), NEW c \in S,
           NEW t, t = [s EXCEPT ![n] = c]
    PROVE  /\ t \in Seq(S) /\ Len(t) = Len(s) /\ t[n] = c
           /\ \A i \in 1..Len(s) : i # n => t[i] = s[i]
OBVIOUS

(* The last element changed. *)
WithLast(t, c) == [t EXCEPT ![Len(t)] = c]

(* It stands after the others. *)
LEMMA LastChanged ==
    ASSUME NEW S, NEW s \in Seq(S), NEW c \in S, NEW t \in Seq(S), Len(t) = Len(s) + 1,
           \A i \in 1..Len(s) : t[i] = s[i]
    PROVE  WithLast(t, c) = Append(s, c)
<1> DEFINE n == Len(t)
           u == [t EXCEPT ![n] = c]
           v == Append(s, c)
<1>1. n = Len(s) + 1 /\ Len(s) \in Nat /\ n \in 1..Len(t)
  OBVIOUS
<1>2. v \in Seq(S) /\ Len(v) = Len(s) + 1 /\ v[Len(s) + 1] = c /\ \A i \in 1..Len(s) : v[i] = s[i]
  OBVIOUS
<1>3. u \in Seq(S) /\ Len(u) = Len(t) /\ u[n] = c /\ \A i \in 1..Len(t) : i # n => u[i] = t[i]
  BY <1>1, ChangedSeq
<1> HIDE DEF u, v
<1>4. \A i \in 1..Len(t) : u[i] = v[i]
  <2>1. \A i \in 1..Len(t) : i = n \/ i \in 1..Len(s)
    BY <1>1
  <2> QED BY <1>1, <1>2, <1>3, <2>1
<1>5. u = v
  BY <1>1, <1>2, <1>3, <1>4, SeqEqual
<1> QED BY <1>5 DEF u, v, WithLast

(* The same for the elements before one appended. *)
LEMMA AppendedChanged ==
    ASSUME NEW S, NEW s \in Seq(S), NEW a \in S, NEW c \in S
    PROVE  WithLast(Append(s, a), c) = Append(s, c)
<1> DEFINE t == Append(s, a)
<1>1. t \in Seq(S) /\ Len(t) = Len(s) + 1 /\ \A i \in 1..Len(s) : t[i] = s[i]
  OBVIOUS
<1> HIDE DEF t
<1>2. WithLast(t, c) = Append(s, c)
  BY <1>1, LastChanged
<1> QED BY <1>2 DEF t

(* An element after a concatenation, and a concatenation with an element. *)
After(s, t, x) == Append(s \o t, x)
Within(s, t, x) == s \o Append(t, x)

(* They are the same. *)
LEMMA AppendConcat ==
    ASSUME NEW S, NEW s \in Seq(S), NEW t \in Seq(S), NEW x \in S
    PROVE  After(s, t, x) = Within(s, t, x)
BY DEF After, Within

(* No CR occurs in w. *)
NoCR(w) == \A i \in 1..Len(w) : w[i] # CR

(* The EventSource reading of s: the lines of the event under way with the one
   that has not ended (w), that line (cur), and the events before. *)
Reading(s, w, cur, out, B) ==
    /\ s \in Seq(B) /\ w \in Seq(B) /\ cur \in Seq(B) /\ out \in Seq(FieldsOf(B))
    /\ NoCR(w) /\ Rest(w) = cur
    /\ \E done \in Seq(Seq(B)) :
           /\ Lines(s) = Append(done, cur) /\ GatherEnd(done).out = out
           /\ w = GatherEnd(done).frame \o cur

(* It begins with nothing (Lines, Gathered). *)
LEMMA ReadingStart ==
    ASSUME NEW B, LF \in B
    PROVE  Reading(<<>>, <<>>, <<>>, <<>>, B)
<1>1. Lines(<<>>) = FirstLine /\ GatherEnd(<<>>) = GatherStart /\ Rest(<<>>) = <<>>
  BY LinesNone, GatherNone, NothingRead
<1>2. <<>> \in Seq(B) /\ <<>> \in Seq(FieldsOf(B)) /\ <<>> \in Seq(Seq(B)) /\ <<>> \o <<>> = <<>>
      /\ Append(<<>>, <<>>) = << <<>> >> /\ Len(<<>>) = 0
  OBVIOUS
<1>3. NoCR(<<>>)
  BY <1>2 DEF NoCR
<1>4. GatherStart.out = <<>> /\ GatherStart.frame = <<>>
  BY DEF GatherStart
<1> QED BY <1>1, <1>2, <1>3, <1>4, Zenon DEF Reading, FirstLine

(* A line end after bytes without CR ends their last line (splitSSELines). *)
LEMMA LineEnded ==
    ASSUME NEW B, LF \in B, NEW w \in Seq(B), NoCR(w), NEW more, more = Append(w, LF)
    PROVE  /\ more \in Seq(B) /\ NoCR(more) /\ Ended(more) = Fields(w) /\ Rest(more) = <<>>
           /\ Fields(more) = Fields(w)
<1>1. CR # LF
  BY DEF CR, LF
<1>2. more \in Seq(B) /\ NoCR(more)
  BY <1>1 DEF NoCR
<1>3. ~ Skipped(w, LF)
  BY DEF Skipped, NoCR
<1>4. Ended(more) = Fields(w) /\ Rest(more) = <<>>
  <2>1. ByteReads(w, LF, more)
    <3>1. IsNext(w, LF, more)
      BY DEF IsNext
    <3> QED BY <3>1, ByteRead, Zenon
  <2> QED BY <1>3, <2>1 DEF ByteReads
<1>5. Fields(more) = Field(Ended(more), Rest(more))
  BY <1>2, FieldsByLine, Zenon
<1>6. Field(Fields(w), <<>>) = Fields(w)
  BY DEF Field
<1> QED BY <1>2, <1>4, <1>5, <1>6, Zenon

(* Nothing is dispatched of nothing (dispatch). *)
LEMMA DispatchNothing ==
    ASSUME NEW out
    PROVE  dispatch(out, <<>>) = out
BY NothingRead DEF dispatch

(* What is read of one byte more. *)
ReadsOn(s, w, cur, out, x, more, B) ==
    /\ x \notin {CR, LF} => Reading(more, Append(w, x), Append(cur, x), out, B)
    /\ Skipped(s, x) => Reading(more, w, cur, out, B)
    /\ x \in {CR, LF} /\ ~ Skipped(s, x) /\ cur # <<>>
           => Reading(more, Append(w, LF), <<>>, out, B)
    /\ x \in {CR, LF} /\ ~ Skipped(s, x) /\ cur = <<>>
           => Reading(more, <<>>, <<>>, dispatch(out, w), B)

(* It is (Lines, Gathered). *)
LEMMA ReadingNext ==
    ASSUME NEW B, LF \in B, NEW s, NEW w, NEW cur, NEW out, Reading(s, w, cur, out, B),
           NEW x \in B, NEW more, IsNext(s, x, more)
    PROVE  ReadsOn(s, w, cur, out, x, more, B)
<1> SUFFICES
        ASSUME more = Append(s, x)
        PROVE  /\ x \notin {CR, LF} => Reading(more, Append(w, x), Append(cur, x), out, B)
               /\ Skipped(s, x) => Reading(more, w, cur, out, B)
               /\ x \in {CR, LF} /\ ~ Skipped(s, x) /\ cur # <<>>
                      => Reading(more, Append(w, LF), <<>>, out, B)
               /\ x \in {CR, LF} /\ ~ Skipped(s, x) /\ cur = <<>>
                      => Reading(more, <<>>, <<>>, dispatch(out, w), B)
  BY Zenon DEF IsNext, ReadsOn
<1>1. /\ s \in Seq(B) /\ w \in Seq(B) /\ cur \in Seq(B) /\ out \in Seq(FieldsOf(B))
      /\ NoCR(w) /\ Rest(w) = cur
  BY Zenon DEF Reading
<1>2. PICK done \in Seq(Seq(B)) :
          /\ Lines(s) = Append(done, cur) /\ GatherEnd(done).out = out
          /\ w = GatherEnd(done).frame \o cur
  BY Zenon DEF Reading
<1> DEFINE k == Len(more)
           ls == Lines(s)
           g == GatherEnd(done)
<1>3. Lines(more) = LineAt(more, k, ls)
  BY <1>1, LinesNext
<1>4. more \in Seq(B) /\ k \in Nat /\ k > 0 /\ more[k] = x /\ (k # 1 => more[k - 1] = s[Len(s)])
      /\ (k = 1 <=> s = <<>>)
  BY <1>1
<1> HIDE DEF k
<1>5. CR # LF
  BY DEF CR, LF
<1>6. Skipped(s, x) <=> x = LF /\ k # 1 /\ more[k - 1] = CR
  BY <1>4, Zenon DEF Skipped
<1>7. g \in GatherState(B) /\ g.frame \in Seq(B) /\ g.out = out
  <2>1. g \in GatherState(B)
    BY GatherNext, <1>1
  <2> QED BY <1>2, <2>1 DEF GatherState
<1>8. GatherEnd(Append(done, cur)) = GatherAt(g, cur)
  BY <1>1, GatherNext
<1> HIDE DEF g, ls
<1>9. CASE x \notin {CR, LF}
  <2> DEFINE c == Append(cur, x)
             v == Append(w, x)
  <2>1. Lines(more) = Append(done, c)
    <3> DEFINE S == Seq(B)
    <3>1. done \in Seq(S) /\ cur \in S /\ c \in S /\ ls = Append(done, cur)
      BY <1>1, <1>2 DEF ls
    <3>2. ls[Len(ls)] = cur
      BY <3>1
    <3>3. Lines(more) = WithLast(ls, c)
      BY <1>3, <1>4, <1>9, <3>2 DEF LineAt, WithLast
    <3>4. WithLast(ls, c) = Append(done, c)
      <4> HIDE DEF S, c
      <4> QED BY <3>1, AppendedChanged, Zenon
    <3> QED BY <3>3, <3>4
  <2>2. v = g.frame \o c
    <3>1. w = g.frame \o cur
      BY <1>2 DEF g
    <3> DEFINE u == g.frame
    <3>2. u \in Seq(B) /\ w = u \o cur
      BY <1>7, <3>1
    <3> HIDE DEF u
    <3>3. After(u, cur, x) = Within(u, cur, x)
      BY <1>1, <3>2, AppendConcat, Zenon
    <3> QED BY <3>2, <3>3, Zenon DEF u, After, Within
  <2>3. v \in Seq(B) /\ c \in Seq(B)
    BY <1>1
  <2>4. NoCR(v)
    BY <1>1, <1>9 DEF NoCR
  <2>5. Rest(v) = c
    <3>1. IsNext(w, x, v)
      BY DEF IsNext
    <3> HIDE DEF v
    <3>2. ByteReads(w, x, v)
      BY <1>1, <3>1, ByteRead, Zenon
    <3> QED BY <1>1, <1>9, <3>2 DEF ByteReads
  <2> HIDE DEF v, c
  <2>6. Reading(more, v, c, out, B)
    BY <1>1, <1>2, <1>4, <2>1, <2>2, <2>3, <2>4, <2>5, Zenon DEF Reading, g
  <2> QED BY <1>9, <2>6 DEF Skipped, v, c
<1>10. CASE Skipped(s, x)
  <2>1. Lines(more) = Lines(s)
    BY <1>3, <1>4, <1>5, <1>6, <1>10, Zenon DEF LineAt, ls
  <2>2. Reading(more, w, cur, out, B)
    BY <1>1, <1>2, <1>4, <2>1, Zenon DEF Reading
  <2>3. x = LF
    BY <1>10 DEF Skipped
  <2> QED BY <1>10, <2>2, <2>3
<1>11. CASE x \in {CR, LF} /\ ~ Skipped(s, x)
  <2> DEFINE e == <<>>
             now == Append(done, cur)
  <2>1. Lines(more) = Append(now, e)
    <3>1. more[k] = CR \/ (more[k] = LF /\ (k = 1 \/ more[k - 1] # CR))
      BY <1>4, <1>6, <1>11, Zenon
    <3> QED BY <1>2, <1>3, <3>1, Zenon DEF LineAt, ls
  <2>2. now \in Seq(Seq(B)) /\ e \in Seq(B)
    <3> DEFINE S == Seq(B)
    <3>1. done \in Seq(S) /\ cur \in S /\ e \in S
      BY <1>1, <1>2
    <3> HIDE DEF S
    <3> QED BY <3>1 DEF S
  <2>3. \A v \in Seq(B) : v \o e = v
    OBVIOUS
  <2> HIDE DEF now
  <2>4. ASSUME cur # <<>>
        PROVE  Reading(more, Append(w, LF), e, out, B)
    <3> DEFINE v == Append(w, LF)
    <3>1. v \in Seq(B) /\ NoCR(v) /\ Rest(v) = e
      BY <1>1, LineEnded, Zenon
    <3>2. GatherEnd(now) = [g EXCEPT !.frame = g.frame \o cur \o <<LF>>]
      BY <1>7, <1>8, <2>4 DEF GatherAt, now
    <3>3. GatherEnd(now).out = out /\ GatherEnd(now).frame = g.frame \o cur \o <<LF>>
      BY <1>7, <3>2 DEF GatherState
    <3>4. g.frame \o cur \o <<LF>> = v
      BY <1>1, <1>2 DEF g
    <3> HIDE DEF v
    <3>5. v = GatherEnd(now).frame \o e
      BY <2>3, <3>1, <3>3, <3>4, SMTT(60)
    <3>6. Reading(more, v, e, out, B)
      BY <1>1, <1>4, <2>1, <2>2, <3>1, <3>3, <3>5, Zenon DEF Reading
    <3> QED BY <3>6 DEF v
  <2>5. ASSUME cur = <<>>
        PROVE  Reading(more, <<>>, e, dispatch(out, w), B)
    <3>1. w = g.frame
      BY <1>2, <1>7, <2>3, <2>5 DEF g
    <3> DEFINE d == dispatch(out, w)
    <3>2. d \in Seq(FieldsOf(B))
      BY <1>1, DispatchIn
    <3>3. GatherEnd(now) = [frame |-> <<>>, out |-> d]
      BY <1>7, <1>8, <2>5, <3>1 DEF GatherAt, now
    <3> HIDE DEF d
    <3>4. GatherEnd(now).out = d /\ GatherEnd(now).frame = <<>>
      BY <3>3
    <3>5. NoCR(<<>>) /\ Rest(<<>>) = <<>> /\ <<>> = GatherEnd(now).frame \o e
      BY <2>3, <3>4, NothingRead DEF NoCR
    <3>6. Reading(more, <<>>, e, d, B)
      BY <1>4, <2>1, <2>2, <3>2, <3>4, <3>5, Zenon DEF Reading
    <3> QED BY <3>6 DEF d
  <2> QED BY <1>11, <2>4, <2>5
<1> QED BY <1>9, <1>10, <1>11

(* The end of the stream ends the event under way (Gathered). *)
LEMMA ReadingEnd ==
    ASSUME NEW B, LF \in B, NEW s, NEW w, NEW cur, NEW out, Reading(s, w, cur, out, B)
    PROVE  Gathered(Lines(s)) = dispatch(out, w)
<1>1. w \in Seq(B) /\ cur \in Seq(B) /\ NoCR(w)
  BY Zenon DEF Reading
<1>2. PICK done \in Seq(Seq(B)) :
          /\ Lines(s) = Append(done, cur) /\ GatherEnd(done).out = out
          /\ w = GatherEnd(done).frame \o cur
  BY Zenon DEF Reading
<1> DEFINE g == GatherEnd(done)
           ls == Lines(s)
<1>3. g \in GatherState(B) /\ g.frame \in Seq(B) /\ g.out = out
  <2>1. g \in GatherState(B)
    BY GatherNext, <1>1
  <2> QED BY <1>2, <2>1 DEF GatherState
<1>4. GatherEnd(ls) = GatherAt(g, cur)
  BY <1>1, <1>2, GatherNext
<1>5. Gathered(ls) = dispatch(GatherEnd(ls).out, GatherEnd(ls).frame)
  BY DEF Gathered, GatherEnd, GatherStart, GatherAt
<1> HIDE DEF g, ls
<1>6. CASE cur = <<>>
  <2>1. w = g.frame
    BY <1>2, <1>3, <1>6 DEF g
  <2> DEFINE d == dispatch(out, w)
  <2>2. GatherEnd(ls) = [frame |-> <<>>, out |-> d]
    BY <1>3, <1>4, <1>6, <2>1 DEF GatherAt
  <2> HIDE DEF d
  <2>3. GatherEnd(ls).out = d /\ GatherEnd(ls).frame = <<>>
    BY <2>2
  <2>4. Gathered(ls) = d
    BY <1>5, <2>3, DispatchNothing
  <2> QED BY <2>4 DEF d, ls
<1>7. CASE cur # <<>>
  <2> DEFINE v == Append(w, LF)
  <2>1. GatherEnd(ls) = [g EXCEPT !.frame = g.frame \o cur \o <<LF>>]
    BY <1>3, <1>4, <1>7 DEF GatherAt
  <2>2. GatherEnd(ls).out = out /\ GatherEnd(ls).frame = g.frame \o cur \o <<LF>>
    BY <1>3, <2>1 DEF GatherState
  <2>3. g.frame \o cur \o <<LF>> = v
    BY <1>1, <1>2 DEF g
  <2>4. Fields(v) = Fields(w)
    BY <1>1, LineEnded, Zenon
  <2> HIDE DEF v
  <2>5. Gathered(ls) = dispatch(out, v)
    BY <1>5, <2>2, <2>3, Zenon
  <2> QED BY <2>4, <2>5 DEF dispatch, ls
<1> QED BY <1>6, <1>7

-----------------------------------------------------------------------------
(***************************************************************************)
(* What the tap makes of one byte more                                     *)
(***************************************************************************)
(* What the tap makes of s: the buffer it keeps and the events handed on. *)
Tapped(s, b, out, B) ==
    /\ s \in Seq(B) /\ b \in Seq(B) /\ out \in Seq(FieldsOf(B)) /\ NoBoundary(b)
    /\ Drained(s, <<>>) = Pair(b, out)

(* A terminator ends with the last byte of raw. *)
EndsLast(raw, i, n) == i \in 1..Len(raw) /\ n \in {2, 4} /\ Ends(raw, i, n) /\ i + n = Len(raw) + 1

(* A terminator that is new with a byte ends with it (findFrameBoundary). *)
LEMMA NewEndsLast ==
    ASSUME NEW B, NEW b \in Seq(B), NEW x \in B, NoBoundary(b), NEW raw, raw = Append(b, x),
           NEW i \in 1..Len(raw), NEW n \in {2, 4}, Ends(raw, i, n)
    PROVE  EndsLast(raw, i, n)
<1>1. /\ Len(b) \in Nat /\ raw \in Seq(B) /\ Len(raw) = Len(b) + 1
      /\ \A j \in 1..Len(b) : raw[j] = b[j]
  OBVIOUS
<1>2. i + n <= Len(raw) + 1
  BY <1>1 DEF Ends
<1>3. ASSUME i + n < Len(raw) + 1
      PROVE  FALSE
  <2>1. i \in 1..Len(b) /\ (n = 4 => i + 3 <= Len(b)) /\ (n = 2 => i + 1 <= Len(b))
    BY <1>1, <1>3
  <2>2. /\ raw[i] = b[i] /\ raw[i + 1] = b[i + 1]
        /\ n = 4 => raw[i + 2] = b[i + 2] /\ raw[i + 3] = b[i + 3]
    BY <1>1, <2>1
  <2>3. Ends(b, i, n)
    BY <2>1, <2>2 DEF Ends
  <2> QED BY <2>1, <2>3 DEF NoBoundary
<1>4. i + n = Len(raw) + 1
  BY <1>1, <1>2, <1>3
<1> QED BY <1>4 DEF EndsLast

(* A frame that is complete with a byte is cut off, and nothing is left (drain). *)
LEMMA ByteCuts ==
    ASSUME NEW B, NEW b \in Seq(B), NEW x \in B, NoBoundary(b), NEW raw, raw = Append(b, x),
           NEW out \in Seq(FieldsOf(B)), NEW i, NEW n, EndsLast(raw, i, n)
    PROVE  Drained(raw, out) = Pair(<<>>, dispatch(out, SubSeq(raw, 1, i - 1)))
<1>1. Len(b) \in Nat /\ raw \in Seq(B) /\ Len(raw) = Len(b) + 1
  OBVIOUS
<1>2. i \in 1..Len(raw) /\ n \in {2, 4} /\ Ends(raw, i, n) /\ i + n = Len(raw) + 1
  BY DEF EndsLast
<1>3. ASSUME NEW j \in 1..(i - 1), NEW m \in {2, 4}, Ends(raw, j, m)
      PROVE  FALSE
  <2>1. j \in 1..Len(raw)
    BY <1>1, <1>2
  <2>2. EndsLast(raw, j, m)
    BY <1>3, <2>1, NewEndsLast, Zenon
  <2>3. j + m = Len(raw) + 1
    BY <2>2 DEF EndsLast
  <2>4. m = 4 /\ n = 2 /\ i = j + 2
    BY <1>1, <1>2, <2>3
  <2>5. CR # LF
    BY DEF CR, LF
  <2> QED BY <1>2, <1>3, <2>4, <2>5 DEF Ends
<1>4. Boundary(raw, i, n)
  BY <1>2, <1>3 DEF Boundary
<1> DEFINE at == findFrameBoundary(raw)
           p == Pair(raw, out)
           d == dispatch(out, SubSeq(raw, 1, i - 1))
<1>5. at.idx = i /\ at.sep = n
  BY <1>1, <1>4, BoundaryOnce, Zenon
<1>6. ~ Settled(p)
  BY <1>2, <1>5 DEF Settled, Pair
<1>7. SubSeq(raw, i + n, Len(raw)) = <<>>
  <2> DEFINE m == i + n
             k == Len(raw)
  <2>1. m \in Nat \ {0} /\ k \in Int /\ k <= Len(raw) /\ ~ (m <= k)
    BY <1>1, <1>2
  <2> HIDE DEF m, k
  <2>2. IsPart(SubSeq(raw, m, k), raw, m, k, B)
    BY <1>1, <2>1, PartOf, Zenon
  <2>3. SubSeq(raw, m, k) \in Seq(B) /\ Len(SubSeq(raw, m, k)) = 0
    BY <2>1, <2>2 DEF IsPart
  <2>4. SubSeq(raw, m, k) = <<>>
    BY <2>3
  <2> QED BY <2>4 DEF m, k
<1>8. d \in Seq(FieldsOf(B))
  <2> DEFINE m == 1
             k == i - 1
  <2>1. m \in Nat \ {0} /\ k \in Int /\ k <= Len(raw)
    BY <1>1, <1>2
  <2> HIDE DEF m, k
  <2>2. IsPart(SubSeq(raw, m, k), raw, m, k, B)
    BY <1>1, <2>1, PartOf, Zenon
  <2>3. SubSeq(raw, m, k) \in Seq(B)
    BY <2>2, Zenon DEF IsPart
  <2>4. dispatch(out, SubSeq(raw, m, k)) \in Seq(FieldsOf(B))
    BY <2>3, DispatchIn, Zenon
  <2> QED BY <2>4 DEF m, k
<1>9. Cut(p) = [buf |-> <<>>, out |-> d]
  <2>1. p.buf = raw /\ p.out = out
    BY DEF Pair
  <2>2. i # 0
    BY <1>2
  <2> HIDE DEF p
  <2> QED BY <1>5, <1>7, <2>1, <2>2, Zenon DEF Cut
<1> HIDE DEF d, p
<1>10. Cut(p).buf = <<>> /\ Cut(p).out = d
  BY <1>9
<1>11. Drained(raw, out) = Drained(Cut(p).buf, Cut(p).out)
  BY <1>1, <1>6, DrainedNext, Zenon DEF p
<1>12. Drained(<<>>, d) = Pair(<<>>, d)
  BY <1>8, DrainedEmpty DEF Pair
<1> QED BY <1>10, <1>11, <1>12 DEF d

(* One byte more for the tap: it is kept, or it completes a frame. *)
TapsOn(out, more, raw, B) ==
    /\ (\A i, n : ~ EndsLast(raw, i, n)) => Tapped(more, raw, out, B)
    /\ \A i, n : EndsLast(raw, i, n)
           => Tapped(more, <<>>, dispatch(out, SubSeq(raw, 1, i - 1)), B)

(* It is one or the other (sseTee.Read). *)
LEMMA TappedNext ==
    ASSUME NEW B, NEW s, NEW b, NEW out, Tapped(s, b, out, B), NEW x \in B,
           NEW more, IsNext(s, x, more), NEW raw, IsNext(b, x, raw)
    PROVE  TapsOn(out, more, raw, B)
<1> SUFFICES
        ASSUME more = Append(s, x), raw = Append(b, x)
        PROVE  /\ (\A i, n : ~ EndsLast(raw, i, n)) => Tapped(more, raw, out, B)
               /\ \A i, n : EndsLast(raw, i, n)
                      => Tapped(more, <<>>, dispatch(out, SubSeq(raw, 1, i - 1)), B)
  BY Zenon DEF IsNext, TapsOn
<1>1. /\ s \in Seq(B) /\ b \in Seq(B) /\ out \in Seq(FieldsOf(B)) /\ NoBoundary(b)
      /\ Drained(s, <<>>) = Pair(b, out)
  BY Zenon DEF Tapped
<1>2. more \in Seq(B) /\ raw \in Seq(B)
  BY <1>1
<1>3. Drained(more, <<>>) = Drained(raw, out)
  <2> DEFINE c == <<x>>
             none == <<>>
  <2>1. c \in Seq(B) /\ none \in Seq(FieldsOf(B))
    OBVIOUS
  <2>2. more = s \o c
    BY <1>1
  <2>3. raw = b \o c
    BY <1>1
  <2> HIDE DEF c, none
  <2>4. Drained(s \o c, none) = Drained(Drained(s, none).buf \o c, Drained(s, none).out)
    <3>1. \A p \in Seq(B), q \in Seq(FieldsOf(B)) :
              Drained(p \o c, q) = Drained(Drained(p, q).buf \o c, Drained(p, q).out)
      BY <2>1, DrainedInParts
    <3> QED BY <1>1, <2>1, <3>1
  <2>5. Drained(s, none).buf = b /\ Drained(s, none).out = out
    BY <1>1 DEF Pair, none
  <2> QED BY <2>2, <2>3, <2>4, <2>5, Zenon DEF none
<1>4. ASSUME \A i, n : ~ EndsLast(raw, i, n)
      PROVE  Tapped(more, raw, out, B)
  <2>1. NoBoundary(raw)
    BY <1>1, <1>4, NewEndsLast, Zenon DEF NoBoundary
  <2>2. findFrameBoundary(raw).idx = 0
    BY <1>2, <2>1, BoundaryFound, Zenon DEF NoBoundary, Boundary
  <2>3. Settled(Pair(raw, out))
    BY <2>2 DEF Settled, Pair
  <2>4. Drained(raw, out) = Pair(raw, out)
    BY <1>1, <1>2, <2>3, DrainedDone, Zenon DEF Pair
  <2> QED BY <1>1, <1>2, <1>3, <2>1, <2>4, Zenon DEF Tapped
<1>5. ASSUME NEW i, NEW n, EndsLast(raw, i, n)
      PROVE  Tapped(more, <<>>, dispatch(out, SubSeq(raw, 1, i - 1)), B)
  <2> DEFINE d == dispatch(out, SubSeq(raw, 1, i - 1))
  <2>1. Drained(raw, out) = Pair(<<>>, d)
    BY <1>1, <1>5, ByteCuts, ZenonT(60)
  <2>2. Drained(raw, out) \in StateOf(B)
    BY <1>1, <1>2, DrainedIn, Zenon
  <2> HIDE DEF d
  <2>3. d \in Seq(FieldsOf(B)) /\ <<>> \in Seq(B)
    BY <2>1, <2>2 DEF StateOf, Pair
  <2>4. NoBoundary(<<>>)
    BY DEF NoBoundary
  <2>5. Tapped(more, <<>>, d, B)
    BY <1>1, <1>2, <1>3, <2>1, <2>3, <2>4, Zenon DEF Tapped
  <2> QED BY <2>5 DEF d
<1> QED BY <1>4, <1>5, Zenon

(* Nothing is kept of nothing (newSSETee). *)
LEMMA TappedStart ==
    ASSUME NEW B
    PROVE  Tapped(<<>>, <<>>, <<>>, B)
<1>1. <<>> \in Seq(B) /\ <<>> \in Seq(FieldsOf(B)) /\ Len(<<>>) = 0
  OBVIOUS
<1>2. NoBoundary(<<>>)
  BY <1>1 DEF NoBoundary
<1>3. Drained(<<>>, <<>>) = Pair(<<>>, <<>>)
  BY <1>1, DrainedEmpty, Zenon DEF Pair
<1> QED BY <1>1, <1>2, <1>3, Zenon DEF Tapped

-----------------------------------------------------------------------------
(***************************************************************************)
(* The two together                                                        *)
(***************************************************************************)
(* The tap and the EventSource reading agree on s: on the events, and on the
   event under way. *)
Same(s, b, w, cur, out, B) ==
    /\ Tapped(s, b, out, B) /\ Reading(s, w, cur, out, B)
    /\ Ended(b) = Ended(w) /\ Rest(b) = cur

(* They begin so. *)
LEMMA SameStart ==
    ASSUME NEW B, LF \in B
    PROVE  Same(<<>>, <<>>, <<>>, <<>>, <<>>, B)
<1>1. Rest(<<>>) = <<>>
  BY NothingRead
<1> QED BY <1>1, TappedStart, ReadingStart DEF Same

(* The event under way has the same fields for both. *)
LEMMA SameFields ==
    ASSUME NEW B, NEW s, NEW b, NEW w, NEW cur, NEW out, Same(s, b, w, cur, out, B)
    PROVE  /\ s \in Seq(B) /\ b \in Seq(B) /\ w \in Seq(B) /\ cur \in Seq(B) /\ NoCR(w)
           /\ Fields(b) = Fields(w) /\ dispatch(out, b) = dispatch(out, w)
<1>1. Tapped(s, b, out, B) /\ Reading(s, w, cur, out, B) /\ Ended(b) = Ended(w) /\ Rest(b) = cur
  BY Zenon DEF Same
<1>2. /\ s \in Seq(B) /\ b \in Seq(B) /\ w \in Seq(B) /\ cur \in Seq(B) /\ NoCR(w) /\ Rest(w) = cur
  BY <1>1, Zenon DEF Tapped, Reading
<1>3. Fields(b) = Field(Ended(b), Rest(b)) /\ Fields(w) = Field(Ended(w), Rest(w))
  BY <1>2, FieldsByLine, Zenon
<1>4. Fields(b) = Fields(w)
  BY <1>1, <1>2, <1>3
<1> QED BY <1>2, <1>4, Zenon DEF dispatch

(* Then they agree at the end of the stream (drain, Gathered). *)
LEMMA SameEnd ==
    ASSUME NEW B, LF \in B, NEW s, NEW b, NEW w, NEW cur, NEW out, Same(s, b, w, cur, out, B)
    PROVE  AtEnd(s, <<>>).out = Gathered(Lines(s))
<1>1. Tapped(s, b, out, B) /\ Reading(s, w, cur, out, B)
  BY Zenon DEF Same
<1>2. s \in Seq(B) /\ Drained(s, <<>>) = Pair(b, out)
  BY <1>1, Zenon DEF Tapped
<1>3. dispatch(out, b) = dispatch(out, w)
  BY SameFields
<1>4. Gathered(Lines(s)) = dispatch(out, w)
  BY <1>1, ReadingEnd
<1> DEFINE none == <<>>
           p == Pair(b, out)
           e == AtEnd(s, none).out
<1>5. none \in Seq(FieldsOf(B)) /\ p.buf = b /\ p.out = out
  BY DEF Pair
<1>0. Drained(s, none) = p
  BY <1>2
<1> HIDE DEF none, p
<1>6. e = IF p.buf = <<>> THEN p.out ELSE dispatch(p.out, p.buf)
  BY <1>0, <1>2, <1>5, DrainAtEnd
<1> HIDE DEF e
<1>7. dispatch(out, <<>>) = out
  BY DispatchNothing
<1>8. e = dispatch(out, b)
  BY <1>5, <1>6, <1>7
<1> QED BY <1>3, <1>4, <1>8 DEF e, none

(* What a byte may have to do with a terminator. *)
LEMMA LastBytes ==
    ASSUME NEW B, NEW b \in Seq(B), NEW x \in B, NEW raw, IsNext(b, x, raw),
           NEW i, NEW n, EndsLast(raw, i, n)
    PROVE  /\ x \in {CR, LF} /\ b # <<>> /\ b[Len(b)] \in {CR, LF}
           /\ n = 2 => b[Len(b)] = x
           /\ n = 4 => /\ x = LF /\ Len(b) >= 3 /\ b[Len(b)] = CR
                       /\ b[Len(b) - 1] = LF /\ b[Len(b) - 2] = CR
<1> DEFINE l == Len(b)
<1>1. l \in Nat /\ Len(raw) = l + 1 /\ raw[l + 1] = x /\ \A j \in 1..l : raw[j] = b[j]
  BY DEF IsNext
<1>2. b # <<>> <=> l > 0
  OBVIOUS
<1>3. i \in 1..Len(raw) /\ n \in {2, 4} /\ Ends(raw, i, n) /\ i + n = Len(raw) + 1
  BY DEF EndsLast
<1> HIDE DEF l
<1>4. CASE n = 2
  <2>1. i = l /\ l >= 1 /\ raw[l] = b[l]
    BY <1>1, <1>3, <1>4
  <2>2. raw[i] \in {CR, LF} /\ raw[i + 1] = raw[i]
    BY <1>3, <1>4 DEF Ends
  <2> QED BY <1>1, <1>2, <1>4, <2>1, <2>2 DEF l
<1>5. CASE n = 4
  <2>1. i = l - 2 /\ l >= 3 /\ raw[l] = b[l] /\ raw[l - 1] = b[l - 1] /\ raw[l - 2] = b[l - 2]
    BY <1>1, <1>3, <1>5
  <2>2. raw[i] = CR /\ raw[i + 1] = LF /\ raw[i + 2] = CR /\ raw[i + 3] = LF
    BY <1>3, <1>5 DEF Ends
  <2>3. i + 1 = l - 1 /\ i + 2 = l /\ i + 3 = l + 1
    BY <1>1, <2>1
  <2> QED BY <1>1, <1>2, <1>5, <2>1, <2>2, <2>3, SMTT(60) DEF l
<1> QED BY <1>3, <1>4, <1>5

(* A byte that ends no line (drain, splitSSELines). *)
LEMMA SameOrdinary ==
    ASSUME NEW B, LF \in B, NEW s, NEW b, NEW w, NEW cur, NEW out, Same(s, b, w, cur, out, B),
           NEW x \in B, x \notin {CR, LF}, NEW more, IsNext(s, x, more), NEW raw, IsNext(b, x, raw)
    PROVE  Same(more, raw, Append(w, x), Append(cur, x), out, B)
<1>1. Tapped(s, b, out, B) /\ Reading(s, w, cur, out, B) /\ Ended(b) = Ended(w) /\ Rest(b) = cur
  BY Zenon DEF Same
<1>2. s \in Seq(B) /\ b \in Seq(B) /\ w \in Seq(B) /\ cur \in Seq(B)
  BY SameFields
<1>3. \A i, n : ~ EndsLast(raw, i, n)
  BY <1>2, LastBytes
<1>4. Tapped(more, raw, out, B)
  BY <1>1, <1>3, TappedNext, Zenon DEF TapsOn
<1> DEFINE v == Append(w, x)
<1>5. IsNext(w, x, v)
  BY DEF IsNext
<1>6. Reading(more, v, Append(cur, x), out, B)
  BY <1>1, ReadingNext, Zenon DEF ReadsOn
<1> HIDE DEF v
<1>7. Ended(raw) = Ended(b) /\ Rest(raw) = Append(Rest(b), x) /\ Ended(v) = Ended(w)
  <2>1. ByteReads(b, x, raw) /\ ByteReads(w, x, v)
    BY <1>2, <1>5, ByteRead, Zenon
  <2> QED BY <2>1, Zenon DEF ByteReads
<1>8. Same(more, raw, v, Append(cur, x), out, B)
  BY <1>1, <1>4, <1>6, <1>7, Zenon DEF Same
<1> QED BY <1>8 DEF v

(* A line end: what is under way then, and what was dispatched. *)
LineReads(b, cur, out, more, B) ==
    \E w2, o :
        /\ w2 \in Seq(B) /\ Reading(more, w2, <<>>, o, B)
        /\ cur # <<>> => o = out /\ Ended(w2) = Fields(b)
        /\ cur = <<>> => o = dispatch(out, b) /\ w2 = <<>>
        /\ cur = <<>> /\ Fields(b) = NoFields => o = out /\ Ended(w2) = Fields(b)

(* It is so (Lines, Gathered). *)
LEMMA ReadingLine ==
    ASSUME NEW B, LF \in B, NEW s, NEW b, NEW w, NEW cur, NEW out, Same(s, b, w, cur, out, B),
           NEW x \in B, x \in {CR, LF}, ~ Skipped(s, x), NEW more, IsNext(s, x, more)
    PROVE  LineReads(b, cur, out, more, B)
<1>1. Reading(s, w, cur, out, B)
  BY Zenon DEF Same
<1>2. w \in Seq(B) /\ NoCR(w) /\ Fields(b) = Fields(w) /\ dispatch(out, b) = dispatch(out, w)
  BY SameFields
<1>3. CASE cur # <<>>
  <2> DEFINE w2 == Append(w, LF)
  <2>1. Reading(more, w2, <<>>, out, B)
    <3>1. ReadsOn(s, w, cur, out, x, more, B)
      BY <1>1, ReadingNext, Zenon
    <3> QED BY <1>3, <3>1 DEF ReadsOn
  <2>2. Ended(w2) = Fields(w) /\ w2 \in Seq(B)
    BY <1>2, LineEnded, Zenon
  <2> HIDE DEF w2
  <2> QED BY <1>2, <1>3, <2>1, <2>2, Zenon DEF LineReads
<1>4. CASE cur = <<>>
  <2> DEFINE o == dispatch(out, w)
             e == <<>>
  <2>1. Reading(more, e, <<>>, o, B)
    <3>1. ReadsOn(s, w, cur, out, x, more, B)
      BY <1>1, ReadingNext, Zenon
    <3> QED BY <1>4, <3>1, Zenon DEF ReadsOn
  <2>2. e \in Seq(B) /\ Ended(e) = NoFields
    BY NothingRead
  <2>3. Fields(b) = NoFields => o = out
    BY <1>2 DEF dispatch
  <2> HIDE DEF o
  <2>4. o = dispatch(out, b)
    BY <1>2 DEF o
  <2> QED BY <1>4, <2>1, <2>2, <2>3, <2>4, Zenon DEF LineReads
<1> QED BY <1>3, <1>4

(* A line end that completes no frame: none is dispatched by the reading
   either, as there is a line under way or no field yet. *)
LEMMA LineQuiet ==
    ASSUME NEW B, LF \in B, NEW s, NEW b, NEW w, NEW cur, NEW out, Same(s, b, w, cur, out, B),
           NEW x \in B, x \in {CR, LF}, ~ Skipped(s, x), ~ Skipped(b, x),
           NEW more, IsNext(s, x, more), NEW raw, IsNext(b, x, raw),
           \A i, n : ~ EndsLast(raw, i, n), cur # <<>> \/ Fields(b) = NoFields
    PROVE  \E w2 : Same(more, raw, w2, <<>>, out, B)
<1>1. Tapped(s, b, out, B)
  BY Zenon DEF Same
<1>2. b \in Seq(B)
  BY SameFields
<1>3. PICK w2, o :
          /\ w2 \in Seq(B) /\ Reading(more, w2, <<>>, o, B)
          /\ cur # <<>> => o = out /\ Ended(w2) = Fields(b)
          /\ cur = <<>> => o = dispatch(out, b) /\ w2 = <<>>
          /\ cur = <<>> /\ Fields(b) = NoFields => o = out /\ Ended(w2) = Fields(b)
  <2>1. LineReads(b, cur, out, more, B)
    BY ReadingLine, Zenon
  <2> QED BY <2>1, Zenon DEF LineReads
<1>4. Reading(more, w2, <<>>, out, B) /\ Ended(w2) = Fields(b)
  BY <1>3, Zenon
<1>5. TapsOn(out, more, raw, B)
  BY <1>1, TappedNext, Zenon
<1>6. Tapped(more, raw, out, B)
  BY <1>5, Zenon DEF TapsOn
<1>7. ByteReads(b, x, raw)
  BY <1>2, ByteRead, Zenon
<1>8. Ended(raw) = Fields(b) /\ Rest(raw) = <<>>
  BY <1>7, Zenon DEF ByteReads
<1>9. Same(more, raw, w2, <<>>, out, B)
  BY <1>4, <1>6, <1>8, Zenon DEF Same
<1> QED BY <1>9, Zenon

(* A blank line that completes a frame: the same fields are dispatched. *)
LEMMA LineCuts ==
    ASSUME NEW B, LF \in B, NEW s, NEW b, NEW w, NEW cur, NEW out, Same(s, b, w, cur, out, B),
           NEW x \in B, x \in {CR, LF}, ~ Skipped(s, x), cur = <<>>,
           NEW more, IsNext(s, x, more), NEW raw, IsNext(b, x, raw),
           NEW i, NEW n, EndsLast(raw, i, n), Fields(SubSeq(raw, 1, i - 1)) = Fields(b)
    PROVE  \E o : Same(more, <<>>, <<>>, <<>>, o, B)
<1>1. Tapped(s, b, out, B)
  BY Zenon DEF Same
<1>2. PICK w2, o :
          /\ w2 \in Seq(B) /\ Reading(more, w2, <<>>, o, B)
          /\ cur # <<>> => o = out /\ Ended(w2) = Fields(b)
          /\ cur = <<>> => o = dispatch(out, b) /\ w2 = <<>>
          /\ cur = <<>> /\ Fields(b) = NoFields => o = out /\ Ended(w2) = Fields(b)
  <2>1. LineReads(b, cur, out, more, B)
    BY ReadingLine, Zenon
  <2> QED BY <2>1, Zenon DEF LineReads
<1>3. Reading(more, <<>>, <<>>, o, B) /\ o = dispatch(out, b)
  BY <1>2, Zenon
<1>4. TapsOn(out, more, raw, B)
  BY <1>1, TappedNext, Zenon
<1>5. Tapped(more, <<>>, dispatch(out, SubSeq(raw, 1, i - 1)), B)
  BY <1>4, Zenon DEF TapsOn
<1>6. dispatch(out, SubSeq(raw, 1, i - 1)) = dispatch(out, b)
  BY Zenon DEF dispatch
<1>7. Rest(<<>>) = <<>>
  BY NothingRead
<1>8. Same(more, <<>>, <<>>, <<>>, o, B)
  BY <1>3, <1>5, <1>6, <1>7, Zenon DEF Same
<1> QED BY <1>8, Zenon

(* The beginning of a longer sequence. *)
LEMMA FrontOf ==
    ASSUME NEW B, NEW front \in Seq(B), NEW raw \in Seq(B), NEW i, i = Len(front) + 1,
           Len(front) <= Len(raw), \A j \in 1..Len(front) : raw[j] = front[j]
    PROVE  SubSeq(raw, 1, i - 1) = front
<1> DEFINE m == 1
           k == Len(front)
           p == SubSeq(raw, m, k)
<1>1. m \in Nat \ {0} /\ k \in Int /\ k \in Nat /\ k <= Len(raw) /\ i - 1 = k
  OBVIOUS
<1>2. k - m + 1 = k /\ (IF m <= k THEN k - m + 1 ELSE 0) = k /\ \A j \in 1..k : m + j - 1 = j
  BY <1>1
<1> HIDE DEF m
<1>3. IsPart(p, raw, m, k, B)
  BY <1>1, PartOf
<1>4. p \in Seq(B) /\ Len(p) = k /\ \A j \in 1..k : p[j] = raw[j]
  <2> HIDE DEF k, p
  <2> QED BY <1>2, <1>3 DEF IsPart
<1> HIDE DEF p
<1>5. p = front
  BY <1>4, SeqEqual
<1> QED BY <1>1, <1>5 DEF p, m

(* Of the two line ends only c occurs in s. *)
Only(s, c) == \A i \in 1..Len(s) : s[i] \in {CR, LF} => s[i] = c

(* One byte more. *)
LEMMA OnlyNext ==
    ASSUME NEW B, NEW s \in Seq(B), NEW x \in B, NEW c, NEW more, IsNext(s, x, more)
    PROVE  Only(more, c) <=> Only(s, c) /\ (x \in {CR, LF} => x = c)
<1> DEFINE k == Len(s)
<1>1. k \in Nat /\ Len(more) = k + 1 /\ more[k + 1] = x /\ \A i \in 1..k : more[i] = s[i]
  BY DEF IsNext
<1> HIDE DEF k
<1>2. k + 1 \in 1..(k + 1) /\ \A i \in 1..(k + 1) : i = k + 1 \/ i \in 1..k
  BY <1>1
<1>3. \A i \in 1..k : i \in 1..(k + 1)
  BY <1>1
<1>4. Only(more, c) => Only(s, c) /\ (x \in {CR, LF} => x = c)
  BY <1>1, <1>2, <1>3 DEF Only, k
<1>5. Only(s, c) /\ (x \in {CR, LF} => x = c) => Only(more, c)
  BY <1>1, <1>2, <1>3 DEF Only, k
<1> QED BY <1>4, <1>5

(* Where lines end with one byte, a second one in a row completes a frame
   (findFrameBoundary). *)
LEMMA SecondCuts ==
    ASSUME NEW B, NEW b \in Seq(B), NEW c \in B, c \in {CR, LF}, Only(b, c), b # <<>>,
           Rest(b) = <<>>, NEW raw, IsNext(b, c, raw)
    PROVE  \E i, n : EndsLast(raw, i, n) /\ Fields(SubSeq(raw, 1, i - 1)) = Fields(b)
<1>1. b[Len(b)] \in {CR, LF}
  BY RestEmpty
<1>2. b[Len(b)] = c
  <2>1. Len(b) \in 1..Len(b)
    OBVIOUS
  <2> QED BY <1>1, <2>1 DEF Only
<1>3. PICK front \in Seq(B), d \in B : b = Append(front, d) /\ d = b[Len(b)]
  BY LastByte
<1>4. b = Append(front, c) /\ Len(front) \in Nat /\ Len(b) = Len(front) + 1
      /\ \A j \in 1..Len(front) : b[j] = front[j]
  BY <1>2, <1>3
<1>5. IsNext(front, c, b)
  BY <1>4 DEF IsNext
<1>6. /\ raw \in Seq(B) /\ Len(raw) = Len(b) + 1 /\ raw[Len(b) + 1] = c
      /\ \A j \in 1..Len(b) : raw[j] = b[j]
  BY DEF IsNext
<1> DEFINE k == Len(b)
<1>7. k \in Nat /\ k > 0 /\ k = Len(front) + 1 /\ Len(front) <= Len(raw) /\ k \in 1..Len(b)
  BY <1>4, <1>6
<1>8. EndsLast(raw, k, 2)
  <2>1. raw[k] = c /\ raw[k + 1] = c
    BY <1>2, <1>6, <1>7
  <2>2. k + 1 <= Len(raw) /\ k \in 1..Len(raw) /\ k + 2 = Len(raw) + 1
    BY <1>6, <1>7
  <2> HIDE DEF k
  <2> QED BY <2>1, <2>2 DEF EndsLast, Ends
<1>9. SubSeq(raw, 1, k - 1) = front
  <2>1. \A j \in 1..Len(front) : raw[j] = front[j]
    BY <1>4, <1>6
  <2> HIDE DEF k
  <2> QED BY <1>6, <1>7, <2>1, FrontOf
<1>10. ~ Skipped(front, c)
  <2>1. ASSUME front # <<>>, front[Len(front)] = CR, c = LF
        PROVE  FALSE
    <3>1. Len(front) \in 1..Len(front) /\ Len(front) \in 1..Len(b)
      BY <1>4, <2>1
    <3>2. b[Len(front)] = CR
      BY <1>4, <2>1, <3>1
    <3>3. CR = c
      BY <3>1, <3>2 DEF Only
    <3> QED BY <2>1, <3>3 DEF CR, LF
  <2> QED BY <2>1 DEF Skipped
<1>11. Fields(b) = Fields(front)
  <2>1. ByteReads(front, c, b)
    BY <1>5, ByteRead, Zenon
  <2>2. Ended(b) = Fields(front)
    BY <1>10, <2>1, Zenon DEF ByteReads
  <2>3. Fields(b) = Field(Ended(b), Rest(b))
    BY FieldsByLine
  <2>4. Field(Fields(front), <<>>) = Fields(front)
    BY DEF Field
  <2> QED BY <2>2, <2>3, <2>4, Zenon
<1>12. EndsLast(raw, k, 2) /\ Fields(SubSeq(raw, 1, k - 1)) = Fields(b)
  BY <1>8, <1>9, <1>11, Zenon
<1> HIDE DEF k
<1> QED BY <1>12, Zenon

(* Where c alone ends lines, the tap and the reading agree, and only c ends lines
   in the buffer. *)
Agree(s, c, B) == \E b, w, cur, out : Same(s, b, w, cur, out, B) /\ Only(b, c)

(* One byte more (drain). *)
LEMMA AgreeNext ==
    ASSUME NEW B, LF \in B, NEW c \in B, c \in {CR, LF}, NEW s \in Seq(B), NEW x \in B,
           NEW more, IsNext(s, x, more), Only(more, c), Agree(s, c, B)
    PROVE  Agree(more, c, B)
<1>1. PICK b, w, cur, out : Same(s, b, w, cur, out, B) /\ Only(b, c)
  BY Zenon DEF Agree
<1>2. b \in Seq(B) /\ Rest(b) = cur
  <2>1. b \in Seq(B)
    BY <1>1, SameFields
  <2> QED BY <1>1, <2>1, Zenon DEF Same
<1> DEFINE raw == Append(b, x)
<1>3. IsNext(b, x, raw)
  BY DEF IsNext
<1> HIDE DEF raw
<1>4. Only(s, c) /\ (x \in {CR, LF} => x = c)
  BY OnlyNext, Zenon
<1>5. Only(raw, c)
  <2>1. Only(raw, c) <=> Only(b, c) /\ (x \in {CR, LF} => x = c)
    BY <1>2, <1>3, OnlyNext, Zenon
  <2> QED BY <1>1, <1>4, <2>1
<1>6. CASE x \notin {CR, LF}
  <2>1. Same(more, raw, Append(w, x), Append(cur, x), out, B)
    BY <1>1, <1>3, <1>6, SameOrdinary, Zenon
  <2> QED BY <1>5, <2>1, Zenon DEF Agree
<1>7. CASE x \in {CR, LF}
  <2>1. x = c
    BY <1>4, <1>7
  <2>2. ASSUME NEW q \in Seq(B), Only(q, c)
        PROVE  ~ Skipped(q, x)
    <3>1. ASSUME q # <<>>, q[Len(q)] = CR, x = LF
          PROVE  FALSE
      <4>1. Len(q) \in 1..Len(q)
        BY <3>1
      <4>2. CR = c
        BY <2>2, <3>1, <4>1 DEF Only
      <4> QED BY <2>1, <3>1, <4>2 DEF CR, LF
    <3> QED BY <3>1 DEF Skipped
  <2>3. ~ Skipped(s, x) /\ ~ Skipped(b, x)
    BY <1>1, <1>2, <1>4, <2>2
  <2>4. CASE cur # <<>> \/ b = <<>>
    <3>1. cur # <<>> \/ Fields(b) = NoFields
      BY <2>4, NothingRead
    <3>2. ASSUME NEW i, NEW n, EndsLast(raw, i, n)
          PROVE  FALSE
      <4>1. b # <<>> /\ b[Len(b)] \in {CR, LF}
        BY <1>2, <1>3, <3>2, LastBytes
      <4>2. Rest(b) = <<>>
        BY <1>2, <4>1, RestEmpty
      <4> QED BY <1>2, <2>4, <4>1, <4>2
    <3>3. \A i, n : ~ EndsLast(raw, i, n)
      BY <3>2
    <3>4. PICK w2 : Same(more, raw, w2, <<>>, out, B)
      BY <1>1, <1>3, <1>7, <2>3, <3>1, <3>3, LineQuiet, Zenon
    <3> QED BY <1>5, <3>4, Zenon DEF Agree
  <2>5. CASE cur = <<>> /\ b # <<>>
    <3>1. PICK i, n : EndsLast(raw, i, n) /\ Fields(SubSeq(raw, 1, i - 1)) = Fields(b)
      BY <1>1, <1>2, <1>3, <2>1, <2>5, SecondCuts
    <3>2. PICK o : Same(more, <<>>, <<>>, <<>>, o, B)
      BY <1>1, <1>3, <1>7, <2>3, <2>5, <3>1, LineCuts, Zenon
    <3>3. Only(<<>>, c)
      BY DEF Only
    <3> QED BY <3>2, <3>3, Zenon DEF Agree
  <2> QED BY <2>4, <2>5
<1> QED BY <1>6, <1>7

(* So they agree on every stream of such lines. *)
LEMMA AgreeAlways ==
    ASSUME NEW B, LF \in B, NEW c \in B, c \in {CR, LF}
    PROVE  \A s \in Seq(B) : Only(s, c) => Agree(s, c, B)
<1> DEFINE P == {s \in Seq(B) : Only(s, c) => Agree(s, c, B)}
<1>1. <<>> \in P
  <2>1. Same(<<>>, <<>>, <<>>, <<>>, <<>>, B)
    BY SameStart
  <2>2. Only(<<>>, c)
    BY DEF Only
  <2>3. Agree(<<>>, c, B)
    BY <2>1, <2>2, Zenon DEF Agree
  <2>4. <<>> \in Seq(B)
    OBVIOUS
  <2> QED BY <2>3, <2>4
<1>2. ASSUME NEW s \in Seq(B), NEW x \in B, s \in P
      PROVE  Append(s, x) \in P
  <2> DEFINE more == Append(s, x)
  <2>1. IsNext(s, x, more) /\ more \in Seq(B)
    BY DEF IsNext
  <2> HIDE DEF more
  <2>2. ASSUME Only(more, c)
        PROVE  Agree(more, c, B)
    <3>1. Only(s, c)
      BY <2>1, <2>2, OnlyNext, ZenonT(60)
    <3>2. Agree(s, c, B)
      BY <1>2, <3>1
    <3> QED BY <2>1, <2>2, <3>2, AgreeNext, Zenon
  <2>3. more \in P
    BY <2>1, <2>2
  <2> HIDE DEF P
  <2> QED BY <2>3 DEF more
<1> HIDE DEF P
<1>3. \A s \in Seq(B) : s \in P
  BY <1>1, <1>2, AppendInduction
<1> QED BY <1>3 DEF P

(* CR and LF come in pairs, but for an LF at the start. *)
Paired(s) == \A i \in 2..Len(s) : s[i] = LF <=> s[i - 1] = CR

(* No pair is under way. *)
NotCR(s) == s = <<>> \/ s[Len(s)] # CR

(* One byte more. *)
LEMMA PairedNext ==
    ASSUME NEW B, NEW s \in Seq(B), NEW x \in B, NEW more, IsNext(s, x, more)
    PROVE  /\ more \in Seq(B) /\ more # <<>> /\ more[Len(more)] = x
           /\ Paired(more) <=> Paired(s) /\ (s # <<>> => (x = LF <=> s[Len(s)] = CR))
<1> DEFINE k == Len(s)
<1>1. /\ k \in Nat /\ more \in Seq(B) /\ Len(more) = k + 1 /\ more[k + 1] = x
      /\ \A i \in 1..k : more[i] = s[i]
  BY DEF IsNext
<1>2. s # <<>> <=> k > 0
  OBVIOUS
<1> HIDE DEF k
<1>3. more # <<>> /\ more[Len(more)] = x
  BY <1>1
<1>4. /\ \A i \in 2..k : i \in 2..(k + 1) /\ i \in 1..k /\ i - 1 \in 1..k
      /\ \A i \in 2..(k + 1) : i \in 2..k \/ (i = k + 1 /\ k > 0)
      /\ k > 0 => k + 1 \in 2..(k + 1) /\ k \in 1..k /\ (k + 1) - 1 = k
  BY <1>1
<1>5. Paired(more) => Paired(s) /\ (k > 0 => (x = LF <=> s[k] = CR))
  BY <1>1, <1>4 DEF Paired, k
<1>6. Paired(s) /\ (k > 0 => (x = LF <=> s[k] = CR)) => Paired(more)
  BY <1>1, <1>4 DEF Paired, k
<1> QED BY <1>1, <1>2, <1>3, <1>5, <1>6 DEF k

(* The tap and the reading agree between pairs. *)
AgreePairs(s, B) == \E b, w, cur, out : Same(s, b, w, cur, out, B) /\ Paired(b) /\ NotCR(b)

(* A pair of a blank line completes a frame when the line before it has ended
   (findFrameBoundary). *)
LEMMA PairCuts ==
    ASSUME NEW B, NEW b \in Seq(B), CR \in B, LF \in B,
           Paired(b), NotCR(b), Rest(b) = <<>>, Len(b) >= 2,
           NEW mid, IsNext(b, CR, mid), NEW raw, IsNext(mid, LF, raw)
    PROVE  \E i, n : EndsLast(raw, i, n) /\ Fields(SubSeq(raw, 1, i - 1)) = Fields(b)
<1> DEFINE k == Len(b)
<1>1. k \in Nat /\ k >= 2 /\ b # <<>> /\ k \in 1..Len(b) /\ k \in 2..Len(b) /\ CR # LF
  BY DEF CR, LF
<1>2. b[k] = LF
  <2>1. b[k] \in {CR, LF}
    BY <1>1, RestEmpty
  <2> QED BY <1>1, <2>1 DEF NotCR
<1>3. b[k - 1] = CR
  BY <1>1, <1>2 DEF Paired
<1>4. PICK f \in Seq(B), d \in B : b = Append(f, d) /\ d = b[Len(b)]
  BY <1>1, LastByte
<1>5. IsNext(f, LF, b) /\ Len(f) = k - 1 /\ f # <<>> /\ \A j \in 1..(k - 1) : f[j] = b[j]
  BY <1>1, <1>2, <1>4 DEF IsNext
<1>6. f[Len(f)] = CR
  BY <1>1, <1>3, <1>5
<1>7. PICK front \in Seq(B), e \in B : f = Append(front, e) /\ e = f[Len(f)]
  BY <1>5, LastByte, Zenon
<1>8. IsNext(front, CR, f) /\ Len(front) = k - 2 /\ \A j \in 1..(k - 2) : front[j] = f[j]
  BY <1>1, <1>5, <1>6, <1>7 DEF IsNext
<1>9. Fields(b) = Fields(front)
  <2>1. ByteReads(front, CR, f) /\ ByteReads(f, LF, b)
    BY <1>5, <1>8, ByteRead, Zenon
  <2>2. ~ Skipped(front, CR) /\ Skipped(f, LF)
    BY <1>1, <1>5, <1>6 DEF Skipped
  <2>3. Ended(f) = Fields(front) /\ Ended(b) = Ended(f)
    BY <2>1, <2>2 DEF ByteReads
  <2>4. Fields(b) = Field(Ended(b), Rest(b))
    BY FieldsByLine, SMTT(60)
  <2>5. Field(Fields(front), <<>>) = Fields(front)
    BY DEF Field
  <2> QED BY <2>3, <2>4, <2>5, Zenon
<1>10. mid \in Seq(B) /\ Len(mid) = k + 1 /\ mid[k + 1] = CR /\ \A j \in 1..k : mid[j] = b[j]
  BY <1>1 DEF IsNext
<1>11. /\ raw \in Seq(B) /\ Len(raw) = k + 2 /\ raw[k + 2] = LF
       /\ \A j \in 1..(k + 1) : raw[j] = mid[j]
  <2>1. raw \in Seq(B) /\ Len(raw) = Len(mid) + 1 /\ raw[Len(mid) + 1] = LF
        /\ \A j \in 1..Len(mid) : raw[j] = mid[j]
    BY <1>10 DEF IsNext
  <2> HIDE DEF k
  <2> QED BY <1>1, <1>10, <2>1
<1> DEFINE i == k - 1
<1> HIDE DEF k
<1>12. /\ i \in 1..Len(raw) /\ i + 4 = Len(raw) + 1 /\ i + 3 <= Len(raw) /\ i = Len(front) + 1
       /\ i + 1 = k /\ i + 2 = k + 1 /\ i + 3 = k + 2 /\ Len(front) <= Len(raw)
  BY <1>1, <1>8, <1>11
<1>13. \A j \in 1..k : raw[j] = b[j]
  BY <1>1, <1>10, <1>11
<1>14. raw[i] = CR /\ raw[i + 1] = LF /\ raw[i + 2] = CR /\ raw[i + 3] = LF
  <2>1. i \in 1..k /\ k \in 1..k /\ k + 1 \in 1..(k + 1)
    BY <1>1
  <2>2. raw[i] = b[i] /\ raw[k] = b[k] /\ raw[k + 1] = mid[k + 1]
    BY <1>11, <1>13, <2>1, SMTT(60)
  <2> QED BY <1>2, <1>3, <1>10, <1>11, <1>12, <2>2, SMTT(60)
<1>15. EndsLast(raw, i, 4)
  <2> HIDE DEF i
  <2> QED BY <1>12, <1>14 DEF EndsLast, Ends
<1>16. SubSeq(raw, 1, i - 1) = front
  <2>1. \A j \in 1..Len(front) : raw[j] = front[j]
    <3>1. \A j \in 1..Len(front) : j \in 1..(k - 2) /\ j \in 1..(k - 1) /\ j \in 1..k
      BY <1>1, <1>8
    <3> QED BY <1>5, <1>8, <1>13, <3>1
  <2> HIDE DEF i
  <2> QED BY <1>11, <1>12, <2>1, FrontOf
<1>17. EndsLast(raw, i, 4) /\ Fields(SubSeq(raw, 1, i - 1)) = Fields(b)
  BY <1>9, <1>15, <1>16, Zenon
<1> HIDE DEF i
<1> QED BY <1>17, Zenon

(* A byte between pairs that begins none (drain). *)
LEMMA PairsOrdinary ==
    ASSUME NEW B, LF \in B, NEW s \in Seq(B), NEW x \in B, x \notin {CR, LF},
           NEW more, IsNext(s, x, more), AgreePairs(s, B)
    PROVE  AgreePairs(more, B)
<1>1. PICK b, w, cur, out : Same(s, b, w, cur, out, B) /\ Paired(b) /\ NotCR(b)
  BY Zenon DEF AgreePairs
<1>2. b \in Seq(B)
  BY <1>1, SameFields
<1> DEFINE raw == Append(b, x)
<1>3. IsNext(b, x, raw)
  BY DEF IsNext
<1> HIDE DEF raw
<1>4. Same(more, raw, Append(w, x), Append(cur, x), out, B)
  BY <1>1, <1>3, SameOrdinary, Zenon
<1>5. /\ raw # <<>> /\ raw[Len(raw)] = x
      /\ Paired(raw) <=> Paired(b) /\ (b # <<>> => (x = LF <=> b[Len(b)] = CR))
  BY <1>2, <1>3, PairedNext
<1>6. Paired(raw) /\ NotCR(raw)
  BY <1>1, <1>5, Zenon DEF NotCR
<1> QED BY <1>4, <1>6, Zenon DEF AgreePairs

(* A pair (drain). *)
LEMMA PairsPair ==
    ASSUME NEW B, LF \in B, CR \in B, NEW s \in Seq(B), NotCR(s), NEW half, IsNext(s, CR, half),
           NEW more, IsNext(half, LF, more), AgreePairs(s, B)
    PROVE  AgreePairs(more, B)
<1>1. PICK b, w, cur, out : Same(s, b, w, cur, out, B) /\ Paired(b) /\ NotCR(b)
  BY Zenon DEF AgreePairs
<1>2. b \in Seq(B) /\ Rest(b) = cur /\ Tapped(s, b, out, B)
  <2>1. b \in Seq(B)
    BY <1>1, SameFields
  <2> QED BY <1>1, <2>1, Zenon DEF Same
<1> DEFINE mid == Append(b, CR)
           raw == Append(mid, LF)
<1>3. IsNext(b, CR, mid) /\ IsNext(mid, LF, raw)
  BY DEF IsNext
<1> HIDE DEF mid, raw
<1>4. CR # LF
  BY DEF CR, LF
<1>5. /\ mid \in Seq(B) /\ mid # <<>> /\ mid[Len(mid)] = CR
      /\ Paired(mid) <=> Paired(b) /\ (b # <<>> => (CR = LF <=> b[Len(b)] = CR))
  BY <1>2, <1>3, PairedNext, Zenon
<1>6. /\ raw \in Seq(B) /\ raw # <<>> /\ raw[Len(raw)] = LF
      /\ Paired(raw) <=> Paired(mid) /\ (mid # <<>> => (LF = LF <=> mid[Len(mid)] = CR))
  BY <1>3, <1>5, PairedNext, Zenon
<1>7. Paired(raw) /\ NotCR(raw)
  <2>1. b # <<>> => b[Len(b)] # CR
    BY <1>1, Zenon DEF NotCR
  <2>2. Paired(mid)
    BY <1>1, <1>4, <1>5, <2>1, Zenon
  <2> QED BY <1>4, <1>5, <1>6, <2>2, Zenon DEF NotCR
<1>8. ~ Skipped(s, CR) /\ ~ Skipped(b, CR) /\ Skipped(mid, LF)
  BY <1>4, <1>5, Zenon DEF Skipped
<1>9. half \in Seq(B) /\ Skipped(half, LF)
  <2>1. half \in Seq(B) /\ half # <<>> /\ half[Len(half)] = CR
    BY PairedNext
  <2> QED BY <2>1, Zenon DEF Skipped
<1>10. Ended(raw) = Fields(b) /\ Rest(raw) = <<>>
  <2>1. ByteReads(b, CR, mid) /\ ByteReads(mid, LF, raw)
    BY <1>2, <1>3, <1>5, ByteRead, Zenon
  <2> QED BY <1>8, <2>1, Zenon DEF ByteReads
<1>11. ASSUME NEW i, NEW n
       PROVE  ~ EndsLast(mid, i, n)
  <2>1. EndsLast(mid, i, n) => b # <<>> /\ (n = 2 => b[Len(b)] = CR) /\ (n = 4 => CR = LF)
    BY <1>2, <1>3, LastBytes
  <2>2. EndsLast(mid, i, n) => n \in {2, 4}
    BY Zenon DEF EndsLast
  <2> QED BY <1>1, <1>4, <2>1, <2>2 DEF NotCR
<1>12. Tapped(half, mid, out, B)
  <2>1. TapsOn(out, half, mid, B)
    BY <1>2, <1>3, TappedNext, Zenon
  <2> QED BY <1>11, <2>1, Zenon DEF TapsOn
<1>13. TapsOn(out, more, raw, B)
  BY <1>3, <1>12, TappedNext, Zenon
<1>14. PICK w2, o :
          /\ w2 \in Seq(B) /\ Reading(half, w2, <<>>, o, B)
          /\ cur # <<>> => o = out /\ Ended(w2) = Fields(b)
          /\ cur = <<>> => o = dispatch(out, b) /\ w2 = <<>>
          /\ cur = <<>> /\ Fields(b) = NoFields => o = out /\ Ended(w2) = Fields(b)
  <2>1. CR \in {CR, LF}
    OBVIOUS
  <2>2. LineReads(b, cur, out, half, B)
    BY <1>1, <1>8, <2>1, ReadingLine, Zenon
  <2> QED BY <2>2, Zenon DEF LineReads
<1>15. Reading(more, w2, <<>>, o, B)
  <2> DEFINE e == <<>>
  <2>1. Reading(half, w2, e, o, B)
    BY <1>14
  <2> HIDE DEF e
  <2>2. ReadsOn(half, w2, e, o, LF, more, B)
    BY <2>1, ReadingNext, Zenon
  <2>3. Reading(more, w2, e, o, B)
    BY <1>9, <2>2, Zenon DEF ReadsOn
  <2> QED BY <2>3 DEF e
<1>16. ASSUME NEW i, NEW n, EndsLast(raw, i, n)
       PROVE  cur = <<>> /\ Len(b) >= 2
  <2>1. /\ n = 2 => mid[Len(mid)] = LF
        /\ n = 4 => Len(mid) >= 3 /\ mid[Len(mid) - 1] = LF
    BY <1>3, <1>5, <1>16, LastBytes
  <2>2. n \in {2, 4}
    BY <1>16, Zenon DEF EndsLast
  <2>3. Len(mid) >= 3 /\ mid[Len(mid) - 1] = LF
    BY <1>4, <1>5, <2>1, <2>2, SMTT(60)
  <2>4. Len(mid) = Len(b) + 1 /\ Len(b) \in Nat /\ \A j \in 1..Len(b) : mid[j] = b[j]
    BY <1>2 DEF mid
  <2>5. Len(b) >= 2 /\ Len(mid) - 1 = Len(b) /\ Len(b) \in 1..Len(b)
    BY <2>3, <2>4
  <2>6. b[Len(b)] = LF
    BY <2>3, <2>4, <2>5
  <2>7. Rest(b) = <<>>
    BY <1>2, <2>6, RestEmpty
  <2> QED BY <1>2, <2>5, <2>7
<1>17. CASE cur = <<>> /\ Len(b) >= 2
  <2>1. PICK i, n : EndsLast(raw, i, n) /\ Fields(SubSeq(raw, 1, i - 1)) = Fields(b)
    BY <1>1, <1>2, <1>3, <1>17, PairCuts
  <2>2. Tapped(more, <<>>, dispatch(out, SubSeq(raw, 1, i - 1)), B)
    BY <1>13, <2>1, Zenon DEF TapsOn
  <2>3. dispatch(out, SubSeq(raw, 1, i - 1)) = o
    BY <1>14, <1>17, <2>1, Zenon DEF dispatch
  <2>4. Reading(more, <<>>, <<>>, o, B)
    BY <1>14, <1>15, <1>17, Zenon
  <2>5. Rest(<<>>) = <<>>
    BY NothingRead
  <2>6. Same(more, <<>>, <<>>, <<>>, o, B)
    BY <2>2, <2>3, <2>4, <2>5, Zenon DEF Same
  <2>7. Paired(<<>>) /\ NotCR(<<>>)
    BY DEF Paired, NotCR
  <2> QED BY <2>6, <2>7, Zenon DEF AgreePairs
<1>18. CASE ~ (cur = <<>> /\ Len(b) >= 2)
  <2>1. Tapped(more, raw, out, B)
    <3>1. \A i, n : ~ EndsLast(raw, i, n)
      BY <1>16, <1>18, Zenon
    <3> QED BY <1>13, <3>1, Zenon DEF TapsOn
  <2>2. cur = <<>> => Fields(b) = NoFields
    <3> SUFFICES ASSUME cur = <<>>
                 PROVE  Fields(b) = NoFields
      OBVIOUS
    <3>1. CASE b = <<>>
      BY <3>1, NothingRead
    <3>2. CASE b # <<>>
      <4>1. Len(b) = 1 /\ b[1] = LF
        <5>1. b[Len(b)] \in {CR, LF}
          BY <1>2, <3>2, RestEmpty
        <5>2. Len(b) = 1
          <6> DEFINE k == Len(b)
          <6>1. k \in Nat /\ k > 0
            BY <1>2, <3>2
          <6>2. ~ (k >= 2)
            BY <1>18, Zenon
          <6> HIDE DEF k
          <6>3. k = 1
            BY <6>1, <6>2
          <6> QED BY <6>3 DEF k
        <5> QED BY <1>1, <3>2, <5>1, <5>2 DEF NotCR
      <4> DEFINE none == <<>>
      <4>2. IsNext(none, LF, b) /\ none \in Seq(B)
        BY <1>2, <4>1 DEF IsNext
      <4>3. ~ Skipped(none, LF)
        BY DEF Skipped
      <4>4. Fields(none) = NoFields
        BY NothingRead
      <4> HIDE DEF none
      <4>5. ByteReads(none, LF, b)
        BY <4>2, ByteRead, Zenon
      <4>6. Ended(b) = NoFields
        BY <4>3, <4>4, <4>5 DEF ByteReads
      <4>7. Fields(b) = Field(Ended(b), Rest(b))
        BY <1>2, FieldsByLine
      <4>8. Field(NoFields, <<>>) = NoFields
        BY DEF Field
      <4> QED BY <1>2, <4>6, <4>7, <4>8
    <3> QED BY <3>1, <3>2
  <2>3. o = out /\ Ended(w2) = Fields(b)
    BY <1>14, <2>2, Zenon
  <2>4. Same(more, raw, w2, <<>>, out, B)
    BY <1>10, <1>15, <2>1, <2>3, Zenon DEF Same
  <2> QED BY <1>7, <2>4, Zenon DEF AgreePairs
<1> QED BY <1>17, <1>18

(* They agree on what is before a pair under way, and on the rest where none is. *)
PairsUpto(s, B) ==
    IF NotCR(s) THEN AgreePairs(s, B)
    ELSE \E t \in Seq(B) : IsNext(t, CR, s) /\ NotCR(t) /\ AgreePairs(t, B)

(* So they agree on every stream of pairs. *)
LEMMA PairsAlways ==
    ASSUME NEW B, LF \in B, CR \in B
    PROVE  \A s \in Seq(B) : Paired(s) => PairsUpto(s, B)
<1> DEFINE P == {s \in Seq(B) : Paired(s) => PairsUpto(s, B)}
<1>1. AgreePairs(<<>>, B) /\ NotCR(<<>>) /\ <<>> \in Seq(B) /\ Paired(<<>>)
  <2>1. Same(<<>>, <<>>, <<>>, <<>>, <<>>, B)
    BY SameStart
  <2>2. Paired(<<>>) /\ NotCR(<<>>)
    BY DEF Paired, NotCR
  <2>3. <<>> \in Seq(B)
    OBVIOUS
  <2> QED BY <2>1, <2>2, <2>3, Zenon DEF AgreePairs
<1>2. <<>> \in P
  BY <1>1, Zenon DEF PairsUpto
<1>3. ASSUME NEW s \in Seq(B), NEW x \in B, s \in P
      PROVE  Append(s, x) \in P
  <2> DEFINE more == Append(s, x)
  <2>1. IsNext(s, x, more)
    BY DEF IsNext
  <2> HIDE DEF more
  <2>2. /\ more \in Seq(B) /\ more # <<>> /\ more[Len(more)] = x
        /\ Paired(more) <=> Paired(s) /\ (s # <<>> => (x = LF <=> s[Len(s)] = CR))
    BY <2>1, PairedNext
  <2>3. ASSUME Paired(more)
        PROVE  PairsUpto(more, B)
    <3>1. PairsUpto(s, B) /\ (s # <<>> => (x = LF <=> s[Len(s)] = CR))
      BY <1>3, <2>2, <2>3
    <3>2. NotCR(more) <=> x # CR
      BY <2>2, Zenon DEF NotCR
    <3>3. CR # LF
      BY DEF CR, LF
    <3>4. CASE NotCR(s) /\ x = CR
      BY <2>1, <3>1, <3>2, <3>4, Zenon DEF PairsUpto
    <3>5. CASE NotCR(s) /\ x = LF
      <4>1. s = <<>>
        BY <3>1, <3>5, Zenon DEF NotCR
      <4> DEFINE e == <<>>
      <4>2. Same(e, e, e, e, e, B) /\ IsNext(e, LF, more) /\ e \in Seq(B) /\ ~ Skipped(e, LF)
        BY <2>1, <3>5, <4>1, SameStart DEF Skipped
      <4>3. Fields(e) = NoFields
        BY NothingRead
      <4> HIDE DEF e
      <4>4. ASSUME NEW i, NEW n
            PROVE  ~ EndsLast(more, i, n)
        BY <4>2, LastBytes, Zenon DEF e
      <4>5. LF \in {CR, LF}
        OBVIOUS
      <4>6. PICK w2 : Same(more, more, w2, <<>>, e, B)
        BY <4>2, <4>3, <4>4, <4>5, LineQuiet, Zenon
      <4>7. Paired(more) /\ NotCR(more)
        BY <2>3, <3>2, <3>3, <3>5
      <4> QED BY <4>6, <4>7, Zenon DEF AgreePairs, PairsUpto
    <3>6. CASE NotCR(s) /\ x \notin {CR, LF}
      <4>1. AgreePairs(s, B)
        BY <3>1, <3>6, Zenon DEF PairsUpto
      <4>2. AgreePairs(more, B)
        BY <2>1, <3>6, <4>1, PairsOrdinary, Zenon
      <4>3. NotCR(more)
        BY <3>2, <3>6
      <4> QED BY <4>2, <4>3, Zenon DEF PairsUpto
    <3>7. CASE ~ NotCR(s)
      <4>1. x = LF
        BY <3>1, <3>7, Zenon DEF NotCR
      <4>2. PICK t \in Seq(B) : IsNext(t, CR, s) /\ NotCR(t) /\ AgreePairs(t, B)
        BY <3>1, <3>7, Zenon DEF PairsUpto
      <4>3. IsNext(s, LF, more)
        BY <2>1, <4>1, Zenon
      <4>4. AgreePairs(more, B)
        BY <4>2, <4>3, PairsPair, Zenon
      <4>5. NotCR(more)
        BY <3>2, <3>3, <4>1
      <4> QED BY <4>4, <4>5, Zenon DEF PairsUpto
    <3> QED BY <3>4, <3>5, <3>6, <3>7
  <2>4. more \in P
    BY <2>2, <2>3
  <2> HIDE DEF P
  <2> QED BY <2>4 DEF more
<1> HIDE DEF P
<1>4. \A s \in Seq(B) : s \in P
  BY <1>2, <1>3, AppendInduction
<1> QED BY <1>4 DEF P

(* A body whose lines all end in the same way is read by the tap, up to its end,
   as an EventSource reads it (findFrameBoundary, splitSSELines, drain). *)
LEMMA ReadAsGathered ==
    ASSUME NEW B, NEW s \in Seq(B),
           Only(s, LF) \/ Only(s, CR) \/ (Paired(s) /\ NotCR(s))
    PROVE  AtEnd(s, <<>>).out = Gathered(Lines(s))
<1> DEFINE C == B \cup {CR, LF}
<1>1. s \in Seq(C) /\ CR \in C /\ LF \in C
  OBVIOUS
<1> HIDE DEF C
<1>2. \E b, w, cur, out : Same(s, b, w, cur, out, C)
  <2>1. CASE Only(s, LF)
    <3>1. LF \in {CR, LF}
      OBVIOUS
    <3>2. Agree(s, LF, C)
      BY <1>1, <2>1, <3>1, AgreeAlways, Zenon
    <3> QED BY <3>2, Zenon DEF Agree
  <2>2. CASE Only(s, CR)
    <3>1. CR \in {CR, LF}
      OBVIOUS
    <3>2. Agree(s, CR, C)
      BY <1>1, <2>2, <3>1, AgreeAlways, Zenon
    <3> QED BY <3>2, Zenon DEF Agree
  <2>3. CASE Paired(s) /\ NotCR(s)
    <3>1. PairsUpto(s, C)
      BY <1>1, <2>3, PairsAlways, Zenon
    <3>2. AgreePairs(s, C)
      BY <2>3, <3>1, Zenon DEF PairsUpto
    <3> QED BY <3>2, Zenon DEF AgreePairs
  <2> QED BY <2>1, <2>2, <2>3
<1>3. PICK b, w, cur, out : Same(s, b, w, cur, out, C)
  BY <1>2
<1> QED BY <1>1, <1>3, SameEnd, Zenon

(* The three ways to end every line of a stream alike. *)
LEMMA UniformWays ==
    ASSUME NEW B, stream \in Seq(B), Uniform
    PROVE  Only(stream, LF) \/ Only(stream, CR) \/ (Paired(stream) /\ NotCR(stream))
<1> DEFINE k == Len(stream)
<1>1. k \in Nat /\ DOMAIN stream = 1..k /\ (stream # <<>> <=> k > 0)
  OBVIOUS
<1> HIDE DEF k
<1>2. CASE \A i \in DOMAIN stream : stream[i] # CR
  BY <1>1, <1>2 DEF Only, k
<1>3. CASE \A i \in DOMAIN stream : stream[i] # LF
  BY <1>1, <1>3 DEF Only, k
<1>4. CASE \A i \in 1..(k + 1) : (i <= k /\ stream[i] = CR) <=> (i < k /\ stream[i + 1] = LF)
  <2>1. ASSUME NEW i \in 2..k
        PROVE  stream[i] = LF <=> stream[i - 1] = CR
    <3> DEFINE j == i - 1
    <3>1. j \in 1..(k + 1) /\ j <= k /\ j < k /\ j + 1 = i
      BY <1>1
    <3> HIDE DEF j
    <3>2. stream[j] = CR <=> stream[j + 1] = LF
      BY <1>4, <3>1
    <3> QED BY <3>1, <3>2 DEF j
  <2>2. k > 0 => stream[k] # CR
    <3>1. k > 0 => k \in 1..(k + 1) /\ k <= k /\ ~ (k < k)
      BY <1>1
    <3> QED BY <1>4, <3>1
  <2> QED BY <1>1, <2>1, <2>2 DEF Paired, NotCR, k
<1> QED BY <1>2, <1>3, <1>4 DEF Uniform, k
-----------------------------------------------------------------------------
(***************************************************************************)
(* The tap of a call                                                       *)
(***************************************************************************)
(* Before the first overflow nothing has been dropped. *)
NoLoss == overflows \in Nat /\ (overflows = 0 => base = 0 /\ past = <<>>)

(* What the tap of a streamed answer knows, whatever the rest of the call is at. *)
StreamInv == call \in Calls /\ (call.kind = "stream" => TapInv(Byte) /\ NoLoss)

(* The tap opens on the body of the call (newSSETee). *)
LEMMA StreamInit == Init => StreamInv
<1> SUFFICES ASSUME Init
             PROVE  StreamInv
  OBVIOUS
<1>1. call \in Calls /\ newSSETee(call.body)
  BY DEF Init
<1>2. call.body \in Seq(Byte)
  BY <1>1, ExchangeAssumption
<1>3. TapInv(Byte)
  BY <1>1, <1>2, TapInit
<1>4. NoLoss
  BY <1>1 DEF newSSETee, NoLoss
<1> QED BY <1>1, <1>3, <1>4 DEF StreamInv

(* Steps that do not touch the tap, and those of an answer that has none. *)
LEMMA StreamKept ==
    ASSUME StreamInv, call' = call, UNCHANGED tap \/ call.kind # "stream"
    PROVE  StreamInv'
<1>1. CASE call.kind # "stream"
  BY <1>1, Zenon DEF StreamInv
<1>2. CASE call.kind = "stream" /\ UNCHANGED tap
  <2>1. TapInv(Byte) /\ NoLoss
    BY <1>2 DEF StreamInv
  <2>2. /\ stream' = stream /\ pos' = pos /\ buf' = buf /\ events' = events /\ closes' = closes
        /\ once' = once /\ open' = open /\ base' = base /\ past' = past
        /\ overflows' = overflows
    BY <1>2 DEF tap
  <2>3. SinceOverflow' = SinceOverflow
    BY <2>2 DEF SinceOverflow
  <2>4. TapInv(Byte)'
    BY <2>1, <2>2, <2>3, Zenon DEF TapInv
  <2>5. NoLoss'
    BY <2>1, <2>2, Zenon DEF NoLoss
  <2> QED BY <2>4, <2>5, Zenon DEF StreamInv
<1> QED BY <1>1, <1>2

(* A Read that drops the buffer counts the overflow; one that does not leaves
   the marks of the last overflow alone (sseTee.Read). *)
LEMMA LossCounted ==
    ASSUME NoLoss, NEW n \in Nat, Read(n)
    PROVE  NoLoss'
<1> DEFINE b == buf \o SubSeq(stream, pos + 1, pos + n)
<1>1. overflows \in Nat /\ (overflows = 0 => base = 0 /\ past = <<>>)
  BY DEF NoLoss
<1>2. CASE Len(b) > maxEventBytes
  <2>1. overflows' = overflows + 1
    BY <1>2, Zenon DEF Read
  <2>2. overflows' \in Nat /\ overflows' # 0
    BY <1>1, <2>1
  <2> QED BY <2>2 DEF NoLoss
<1>3. CASE ~ (Len(b) > maxEventBytes)
  <2>1. overflows' = overflows /\ base' = base /\ past' = past
    BY <1>3, Zenon DEF Read
  <2> QED BY <1>1, <2>1, Zenon DEF NoLoss
<1> QED BY <1>2, <1>3, Zenon

(* Every step of a call keeps it. *)
LEMMA StreamStep == StreamInv /\ [Next]_vars => StreamInv'
<1> SUFFICES ASSUME StreamInv, [Next]_vars
             PROVE  StreamInv'
  OBVIOUS
<1>1. CASE PassThrough \/ BodyUnread \/ Send \/ Unanswered \/ modify \/ Return
  <2>1. call' = call /\ UNCHANGED tap
    BY <1>1, Zenon DEF PassThrough, BodyUnread, Send, Unanswered, modify, Return
  <2> QED BY <2>1, StreamKept
<1>2. ASSUME NEW n \in 1..Len(stream), StreamRead(n)
      PROVE  StreamInv'
  <2>1. call' = call /\ call.kind = "stream" /\ Read(n) /\ n \in Nat
    BY <1>2 DEF StreamRead, Streaming
  <2>2. TapInv(Byte) /\ NoLoss
    BY <2>1 DEF StreamInv
  <2>3. TapInv(Byte)'
    BY <2>1, <2>2, TapRead
  <2>4. NoLoss'
    BY <2>1, <2>2, LossCounted
  <2> QED BY <2>1, <2>3, <2>4, Zenon DEF StreamInv
<1>3. CASE StreamErr \/ StreamClose
  <2>1. call' = call /\ call.kind = "stream" /\ (ReadErr \/ Close)
    BY <1>3, Zenon DEF StreamErr, StreamClose, Streaming
  <2>2. TapInv(Byte) /\ NoLoss
    BY <2>1 DEF StreamInv
  <2>3. TapInv(Byte)'
    BY <2>1, <2>2, TapReadErr, TapClose
  <2>4. overflows' = overflows /\ base' = base /\ past' = past
    BY <2>1, Zenon DEF ReadErr, Close
  <2>5. NoLoss'
    BY <2>2, <2>4, Zenon DEF NoLoss
  <2> QED BY <2>1, <2>3, <2>5, Zenon DEF StreamInv
<1>4. CASE (\E n \in 1..Len(stream) : BodyRead(n)) \/ BodyEOF \/ BodyClose
  <2>1. call' = call /\ call.kind # "stream"
    BY <1>4, Zenon DEF BodyRead, BodyEOF, BodyClose, Whole
  <2> QED BY <2>1, StreamKept
<1>5. CASE UNCHANGED vars
  <2>1. call' = call /\ UNCHANGED tap
    BY <1>5 DEF vars
  <2> QED BY <2>1, StreamKept
<1> QED BY <1>1, <1>2, <1>3, <1>4, <1>5, SMTT(60) DEF Next

(* For every stream whose lines all end in the same way, every limit and every
   way to cut the stream into reads: a stream that is read to its end without an
   overflow gives the events of the EventSource rules (AgreesWithEventSource;
   findFrameBoundary, splitSSELines, dispatch, drain). *)
THEOREM ReadAsEventSource == Spec => []AgreesWithEventSource
<1>1. Spec => []StreamInv
  BY StreamInit, StreamStep, PTL DEF Spec
<1>2. StreamInv => AgreesWithEventSource
  <2> SUFFICES ASSUME StreamInv, call.kind = "stream", once, open, pos = Len(stream),
                      overflows = 0, Uniform
               PROVE  events = Gathered(Lines(stream))
    BY DEF AgreesWithEventSource
  <2>1. TapInv(Byte) /\ NoLoss
    BY DEF StreamInv
  <2>2. stream \in Seq(Byte) /\ events = AtEnd(SinceOverflow, past).out
    BY <2>1 DEF TapInv
  <2>3. base = 0 /\ past = <<>>
    BY <2>1 DEF NoLoss
  <2>4. SinceOverflow = stream
    <3>1. SinceOverflow = SubSeq(stream, 1, Len(stream))
      BY <2>3 DEF SinceOverflow
    <3> QED BY <2>2, <3>1
  <2>5. AtEnd(stream, <<>>).out = Gathered(Lines(stream))
    <3>1. Only(stream, LF) \/ Only(stream, CR) \/ (Paired(stream) /\ NotCR(stream))
      BY <2>2, UniformWays
    <3> QED BY <2>2, <3>1, ReadAsGathered
  <2> QED BY <2>2, <2>3, <2>4, <2>5
<1> QED BY <1>1, <1>2, PTL
=============================================================================
