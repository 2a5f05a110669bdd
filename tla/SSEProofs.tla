------------------------------ MODULE SSEProofs ------------------------------
(***************************************************************************)
(* What the tap of SSE does, for every stream, every limit and every way   *)
(* the stream is cut into reads.  The loops of its parser are recursive    *)
(* functions; what they compute is shown by induction over an interval     *)
(* (IntervalInduction).                                                    *)
(*                                                                         *)
(*   lemmas on sequences, least elements and loops                         *)
(*   splitting, trimming, fields; frame boundaries and what appending does *)
(*   to them; draining in parts and at once                                *)
(*   TapInv, the invariant of the tap, and each of its steps               *)
(***************************************************************************)
EXTENDS SSE, WellFoundedInduction, TLAPS

(* Sequences: equality by elements, concatenation, parts. *)
LEMMA SeqEqual ==
    ASSUME NEW S, NEW s \in Seq(S), NEW t \in Seq(S), Len(s) = Len(t),
           \A i \in 1..Len(s) : s[i] = t[i]
    PROVE  s = t
OBVIOUS

(* The indices of a sequence. *)
LEMMA LenProperties ==
    ASSUME NEW S, NEW s \in Seq(S)
    PROVE  Len(s) \in Nat /\ DOMAIN s = 1..Len(s)
OBVIOUS

(* The elements of a concatenation. *)
LEMMA ConcatProperties ==
    ASSUME NEW S, NEW s \in Seq(S), NEW t \in Seq(S)
    PROVE  /\ s \o t \in Seq(S)
           /\ Len(s \o t) = Len(s) + Len(t)
           /\ \A i \in 1..(Len(s) + Len(t)) :
                  (s \o t)[i] = IF i <= Len(s) THEN s[i] ELSE t[i - Len(s)]
OBVIOUS

(* A function on 1..n is a sequence. *)
LEMMA IsSeq ==
    ASSUME NEW S, NEW n \in Nat, NEW f \in [1..n -> S]
    PROVE  f \in Seq(S)
OBVIOUS

(* A non-empty set of naturals has a least element. *)
LEMMA LeastExists ==
  ASSUME NEW S \in SUBSET Nat, S # {}
  PROVE  \E i \in S : \A j \in S : i <= j
  <1> DEFINE R == OpToRel(<, Nat)
  <1>1. IsWellFoundedOn(R, Nat)
    BY NatLessThanWellFounded, Zenon
  <1>2. \A i, j \in Nat : <<j, i>> \in R <=> j < i
    BY DEF OpToRel
  <1> HIDE DEF R
  <1>3. PICK i \in S : \A j \in S : ~ (<<j, i>> \in R)
    BY <1>1, WFMin, ZenonT(60)
  <1>4. \A j \in S : ~ (j < i)
    BY <1>2, <1>3, Zenon
  <1>5. \A j \in S : i <= j
    BY <1>4
  <1> QED
    BY <1>5

(* Induction over the iterations 0..n of a loop. *)
LEMMA IntervalInduction ==
    ASSUME NEW n \in Nat, NEW P \in SUBSET (0..n), 0 \in P,
           \A i \in 1..n : i - 1 \in P => i \in P
    PROVE  \A i \in 0..n : i \in P
<1> DEFINE C == (0..n) \ P
<1> SUFFICES ASSUME C # {}
             PROVE  FALSE
  OBVIOUS
<1>1. C \in SUBSET Nat
  OBVIOUS
<1>2. PICK i \in C : \A j \in C : i <= j
  BY <1>1, LeastExists, ZenonT(60)
<1>3. i \in 1..n /\ i - 1 \in 0..n
  BY <1>2
<1>4. i - 1 \in P
  BY <1>2, <1>3
<1> QED BY <1>2, <1>3, <1>4

(* f holds the states of a loop that starts in s0: f[i] after iteration i. *)
IsRun(f, n, s0, step) == f[0] = s0 /\ \A i \in 1..n : f[i] = step[i][f[i - 1]]

(* A loop of n iterations that takes the state s to step[i][s] in iteration i
   has a run: the recursive functions that model loops are well defined. *)
LEMMA LoopRuns ==
    ASSUME NEW n \in Nat, NEW S, NEW s0 \in S, NEW step \in [1..n -> [S -> S]]
    PROVE  \E f \in [0..n -> S] : IsRun(f, n, s0, step)
<1> DEFINE Ran(k, f) == f[0] = s0 /\ \A i \in 1..k : f[i] = step[i][f[i - 1]]
           P == {k \in 0..n : \E f \in [0..k -> S] : Ran(k, f)}
<1>1. 0 \in P
  <2> DEFINE f == [i \in 0..0 |-> s0]
  <2>1. f \in [0..0 -> S] /\ Ran(0, f)
    OBVIOUS
  <2>2. 0 \in 0..n
    OBVIOUS
  <2> QED BY <2>1, <2>2, ZenonT(60)
<1>2. ASSUME NEW k \in 1..n, k - 1 \in P
      PROVE  k \in P
  <2>1. PICK f \in [0..(k - 1) -> S] : Ran(k - 1, f)
    BY <1>2
  <2> DEFINE g == [i \in 0..k |-> IF i = k THEN step[k][f[k - 1]] ELSE f[i]]
  <2>2. k - 1 \in 0..(k - 1) /\ f[k - 1] \in S /\ step[k][f[k - 1]] \in S
    BY <2>1
  <2>3. g \in [0..k -> S]
    BY <2>1, <2>2
  <2>4. g[0] = s0
    BY <2>1
  <2>5. \A i \in 1..k : g[i] = step[i][g[i - 1]]
    <3> SUFFICES ASSUME NEW i \in 1..k
                 PROVE  g[i] = step[i][g[i - 1]]
      BY Zenon
    <3>1. i - 1 \in 0..(k - 1) /\ g[i - 1] = f[i - 1]
      OBVIOUS
    <3>2. CASE i = k
      BY <3>1, <3>2
    <3>3. CASE i # k
      <4>1. i \in 1..(k - 1) /\ g[i] = f[i]
        BY <3>3
      <4> QED BY <3>1, <4>1, <2>1
    <3> QED BY <3>2, <3>3
  <2>6. k \in 0..n
    OBVIOUS
  <2> HIDE DEF g
  <2> QED BY <2>3, <2>4, <2>5, <2>6
<1>3. P \in SUBSET (0..n)
  OBVIOUS
<1> HIDE DEF P
<1>4. n \in P
  <2>1. \A i \in 0..n : i \in P
    BY <1>1, <1>2, <1>3, IntervalInduction, Zenon
  <2> QED BY <2>1
<1> QED BY <1>4 DEF P, IsRun


(* A non-empty set of the numbers 0..n has a greatest element. *)
LEMMA GreatestExists ==
    ASSUME NEW n \in Nat, NEW S \in SUBSET (0..n), S # {}
    PROVE  \E i \in S : \A j \in S : j <= i
<1> DEFINE T == {n - i : i \in S}
<1>1. T \in SUBSET Nat
  OBVIOUS
<1>2. T # {}
  BY Zenon
<1>3. PICK t \in T : \A j \in T : t <= j
  BY <1>1, <1>2, LeastExists, Zenon
<1>4. PICK i \in S : t = n - i
  BY <1>3
<1>5. \A j \in S : j <= i
  BY <1>3, <1>4
<1> QED BY <1>5

-----------------------------------------------------------------------------
(* A frame terminator of n bytes stands at byte i of raw *)
Ends(raw, i, n) ==
    \/ /\ n = 4 /\ i + 3 <= Len(raw)
       /\ raw[i] = CR /\ raw[i + 1] = LF /\ raw[i + 2] = CR /\ raw[i + 3] = LF
    \/ n = 2 /\ i + 1 <= Len(raw) /\ raw[i] = LF /\ raw[i + 1] = LF
    \/ n = 2 /\ i + 1 <= Len(raw) /\ raw[i] = CR /\ raw[i + 1] = CR

(* A frame ends before place i of raw, with a terminator of n bytes. *)
Boundary(raw, i, n) ==
    /\ i \in 1..Len(raw) /\ n \in {2, 4} /\ Ends(raw, i, n)
    /\ \A j \in 1..(i - 1), m \in {2, 4} : ~ Ends(raw, j, m)

(* No terminator occurs in raw. *)
NoBoundary(raw) == \A i \in 1..Len(raw), n \in {2, 4} : ~ Ends(raw, i, n)

(* The three searches look for the terminators (findFrameBoundary). *)
LEMMA TerminatorAt ==
    ASSUME NEW B, NEW raw \in Seq(B), NEW i \in 1..Len(raw)
    PROVE  /\ (i <= Len(raw) - 3 /\ SubSeq(raw, i, i + 3) = <<CR, LF, CR, LF>>)
                  <=> (/\ i + 3 <= Len(raw)
                       /\ raw[i] = CR /\ raw[i + 1] = LF /\ raw[i + 2] = CR /\ raw[i + 3] = LF)
           /\ (i <= Len(raw) - 1 /\ SubSeq(raw, i, i + 1) = <<LF, LF>>)
                  <=> (i + 1 <= Len(raw) /\ raw[i] = LF /\ raw[i + 1] = LF)
           /\ (i <= Len(raw) - 1 /\ SubSeq(raw, i, i + 1) = <<CR, CR>>)
                  <=> (i + 1 <= Len(raw) /\ raw[i] = CR /\ raw[i + 1] = CR)
<1>1. ASSUME i + 1 <= Len(raw)
      PROVE  /\ SubSeq(raw, i, i + 1) = <<LF, LF>> <=> raw[i] = LF /\ raw[i + 1] = LF
             /\ SubSeq(raw, i, i + 1) = <<CR, CR>> <=> raw[i] = CR /\ raw[i + 1] = CR
  <2> DEFINE t == SubSeq(raw, i, i + 1)
  <2>1. t \in Seq(B) /\ Len(t) = 2 /\ t[1] = raw[i] /\ t[2] = raw[i + 1]
    BY <1>1
  <2> HIDE DEF t
  <2>2. t = <<raw[i], raw[i + 1]>>
    BY <2>1
  <2> QED BY <2>2 DEF t
<1>2. ASSUME i + 3 <= Len(raw)
      PROVE  SubSeq(raw, i, i + 3) = <<CR, LF, CR, LF>>
                 <=> raw[i] = CR /\ raw[i + 1] = LF /\ raw[i + 2] = CR /\ raw[i + 3] = LF
  <2> DEFINE t == SubSeq(raw, i, i + 3)
  <2>1. /\ t \in Seq(B) /\ Len(t) = 4
        /\ t[1] = raw[i] /\ t[2] = raw[i + 1] /\ t[3] = raw[i + 2] /\ t[4] = raw[i + 3]
    BY <1>2
  <2> HIDE DEF t
  <2>2. t = <<raw[i], raw[i + 1], raw[i + 2], raw[i + 3]>>
    BY <2>1
  <2> QED BY <2>2 DEF t
<1> QED BY <1>1, <1>2

(* Where a terminator stands: the places that bytes.Index finds *)
Places(raw, sep) ==
    {i \in 1..(Len(raw) - Len(sep) + 1) : SubSeq(raw, i, i + Len(sep) - 1) = sep}

(* bytes.Index returns the first place. *)
LEMMA IndexIsFirst ==
    ASSUME NEW raw, NEW sep, Len(raw) \in Nat, Len(sep) \in Nat
    PROVE  \/ Index(raw, sep) = 0 /\ Places(raw, sep) = {}
           \/ /\ Index(raw, sep) \in Places(raw, sep)
              /\ \A j \in Places(raw, sep) : Index(raw, sep) <= j
<1> DEFINE at == Places(raw, sep)
<1>1. at \in SUBSET Nat
  BY DEF Places
<1>2. Index(raw, sep) = IF at = {} THEN 0 ELSE CHOOSE i \in at : \A j \in at : i <= j
  BY DEF Index, Places
<1> HIDE DEF at
<1>3. CASE at # {}
  <2>1. \E i \in at : \A j \in at : i <= j
    BY <1>1, <1>3, LeastExists, Zenon
  <2>2. /\ (CHOOSE i \in at : \A j \in at : i <= j) \in at
        /\ \A j \in at : (CHOOSE i \in at : \A j_1 \in at : i <= j_1) <= j
    BY <2>1, Zenon
  <2> QED BY <1>2, <1>3, <2>2 DEF at
<1> QED BY <1>2, <1>3 DEF at

(* The places of the three terminators (findFrameBoundary). *)
LEMMA PlacesAreEnds ==
    ASSUME NEW B, NEW raw \in Seq(B)
    PROVE  /\ \A k \in 1..3 : Places(raw, Terminators[k]) \subseteq 1..Len(raw)
           /\ \A k \in 1..3 : Len(Terminators[k]) \in {2, 4}
           /\ \A k \in 1..3 : \A i \in Places(raw, Terminators[k]) :
                  Ends(raw, i, Len(Terminators[k]))
           /\ \A i \in 1..Len(raw), n \in {2, 4} :
                  Ends(raw, i, n) => \E k \in 1..3 : /\ n = Len(Terminators[k])
                                                     /\ i \in Places(raw, Terminators[k])
<1>1. /\ Terminators[1] = <<CR, LF, CR, LF>> /\ Len(Terminators[1]) = 4
      /\ Terminators[2] = <<LF, LF>> /\ Len(Terminators[2]) = 2
      /\ Terminators[3] = <<CR, CR>> /\ Len(Terminators[3]) = 2
  BY DEF Terminators
<1>2. /\ Places(raw, Terminators[1]) =
             {i \in 1..Len(raw) : i <= Len(raw) - 3 /\ SubSeq(raw, i, i + 3) = <<CR, LF, CR, LF>>}
      /\ Places(raw, Terminators[2]) =
             {i \in 1..Len(raw) : i <= Len(raw) - 1 /\ SubSeq(raw, i, i + 1) = <<LF, LF>>}
      /\ Places(raw, Terminators[3]) =
             {i \in 1..Len(raw) : i <= Len(raw) - 1 /\ SubSeq(raw, i, i + 1) = <<CR, CR>>}
  <2>1. \A i \in Int : i + 4 - 1 = i + 3 /\ i + 2 - 1 = i + 1
    OBVIOUS
  <2>2. /\ \A i : i \in 1..(Len(raw) - 4 + 1) <=> i \in 1..Len(raw) /\ i <= Len(raw) - 3
        /\ \A i : i \in 1..(Len(raw) - 2 + 1) <=> i \in 1..Len(raw) /\ i <= Len(raw) - 1
    OBVIOUS
  <2>3. Places(raw, Terminators[1]) = {i \in 1..(Len(raw) - 4 + 1) :
            SubSeq(raw, i, i + 4 - 1) = <<CR, LF, CR, LF>>}
    BY <1>1, Zenon DEF Places
  <2>4. Places(raw, Terminators[2]) = {i \in 1..(Len(raw) - 2 + 1) :
            SubSeq(raw, i, i + 2 - 1) = <<LF, LF>>}
    BY <1>1, Zenon DEF Places
  <2>5. Places(raw, Terminators[3]) = {i \in 1..(Len(raw) - 2 + 1) :
            SubSeq(raw, i, i + 2 - 1) = <<CR, CR>>}
    BY <1>1, Zenon DEF Places
  <2>6. \A i \in 1..Len(raw) : i \in Int
    OBVIOUS
  <2>7. Places(raw, Terminators[1]) =
             {i \in 1..Len(raw) : i <= Len(raw) - 3 /\ SubSeq(raw, i, i + 3) = <<CR, LF, CR, LF>>}
    BY <2>1, <2>2, <2>3, <2>6, ZenonT(60)
  <2>8. Places(raw, Terminators[2]) =
             {i \in 1..Len(raw) : i <= Len(raw) - 1 /\ SubSeq(raw, i, i + 1) = <<LF, LF>>}
    BY <2>1, <2>2, <2>4, <2>6, ZenonT(60)
  <2>9. Places(raw, Terminators[3]) =
             {i \in 1..Len(raw) : i <= Len(raw) - 1 /\ SubSeq(raw, i, i + 1) = <<CR, CR>>}
    BY <2>1, <2>2, <2>5, <2>6, ZenonT(60)
  <2> QED BY <2>7, <2>8, <2>9
<1>3. \A i \in 1..Len(raw) :
          /\ i \in Places(raw, Terminators[1]) <=>
                 (/\ i + 3 <= Len(raw)
                  /\ raw[i] = CR /\ raw[i + 1] = LF /\ raw[i + 2] = CR /\ raw[i + 3] = LF)
          /\ i \in Places(raw, Terminators[2]) <=>
                 (i + 1 <= Len(raw) /\ raw[i] = LF /\ raw[i + 1] = LF)
          /\ i \in Places(raw, Terminators[3]) <=>
                 (i + 1 <= Len(raw) /\ raw[i] = CR /\ raw[i + 1] = CR)
  BY <1>2, TerminatorAt, ZenonT(60)
<1>4. \A k \in 1..3 : k = 1 \/ k = 2 \/ k = 3
  OBVIOUS
<1>5. \A k \in 1..3 : Places(raw, Terminators[k]) \subseteq 1..Len(raw)
  BY <1>2, <1>4, ZenonT(60)
<1>6. \A k \in 1..3 : Len(Terminators[k]) \in {2, 4}
  BY <1>1, <1>4, Zenon
<1>7. \A k \in 1..3 : \A i \in Places(raw, Terminators[k]) : Ends(raw, i, Len(Terminators[k]))
  BY <1>1, <1>3, <1>4, <1>5, ZenonT(60) DEF Ends
<1>8. 1 \in 1..3 /\ 2 \in 1..3 /\ 3 \in 1..3 /\ 2 # 4
  OBVIOUS
<1>9. ASSUME NEW i \in 1..Len(raw), NEW n \in {2, 4}, Ends(raw, i, n)
      PROVE  \E k \in 1..3 : n = Len(Terminators[k]) /\ i \in Places(raw, Terminators[k])
  BY <1>1, <1>3, <1>8, <1>9, ZenonT(60) DEF Ends
<1> QED BY <1>5, <1>6, <1>7, <1>9, ZenonT(60)

(* findFrameBoundary finds the first terminator of a buffer, if it has one. *)
LEMMA BoundaryFound ==
    ASSUME NEW B, NEW raw \in Seq(B)
    PROVE  \/ findFrameBoundary(raw).idx = 0 /\ NoBoundary(raw)
           \/ Boundary(raw, findFrameBoundary(raw).idx, findFrameBoundary(raw).sep)
<1> DEFINE I(k) == Index(raw, Terminators[k])
           P(k) == Places(raw, Terminators[k])
           found == {k \in 1..3 : I(k) > 0}
           first == CHOOSE i \in found : \A j \in found : I(i) <= I(j)
<1>1. DOMAIN Terminators = 1..3
  BY DEF Terminators
<1>2. findFrameBoundary(raw) = IF found = {} THEN [idx |-> 0, sep |-> 0]
                               ELSE [idx |-> I(first), sep |-> Len(Terminators[first])]
  BY <1>1 DEF findFrameBoundary
<1>3. \A k \in 1..3 : Len(Terminators[k]) \in Nat
  BY PlacesAreEnds
<1>4. \A k \in 1..3 : \/ I(k) = 0 /\ P(k) = {}
                      \/ I(k) \in P(k) /\ \A j \in P(k) : I(k) <= j
  BY <1>3, IndexIsFirst, LenProperties
<1>5. \A k \in 1..3 : P(k) \subseteq 1..Len(raw)
  BY PlacesAreEnds
<1> HIDE DEF I, P
<1>6. CASE found = {}
  <2>1. \A k \in 1..3 : P(k) = {}
    BY <1>4, <1>5, <1>6
  <2>2. NoBoundary(raw)
    BY <2>1, PlacesAreEnds DEF NoBoundary, P
  <2> QED BY <1>2, <1>6, <2>2
<1>7. CASE found # {}
  <2> DEFINE T == {I(k) : k \in found}
  <2>1. T \in SUBSET Nat /\ T # {}
    BY <1>4, <1>5, <1>7
  <2>2. PICK t \in T : \A u \in T : t <= u
    BY <2>1, LeastExists, Zenon
  <2>3. \E i \in found : \A j \in found : I(i) <= I(j)
    BY <2>2
  <2>4. first \in found /\ \A j \in found : I(first) <= I(j)
    BY <2>3, ZenonT(60)
  <2> HIDE DEF first
  <2>5. first \in 1..3 /\ I(first) \in P(first) /\ I(first) \in 1..Len(raw)
    BY <2>4, <1>4, <1>5
  <2>6. Ends(raw, I(first), Len(Terminators[first])) /\ Len(Terminators[first]) \in {2, 4}
    BY <2>5, PlacesAreEnds DEF P
  <2>7. ASSUME NEW j \in 1..(I(first) - 1), NEW m \in {2, 4}, Ends(raw, j, m)
        PROVE  FALSE
    <3>1. j \in 1..Len(raw) /\ j < I(first)
      BY <2>5
    <3>2. PICK k \in 1..3 : j \in P(k)
      BY <2>7, <3>1, PlacesAreEnds DEF P
    <3>3. I(k) \in P(k) /\ I(k) <= j
      BY <3>2, <1>4
    <3>4. k \in found
      BY <3>3, <1>5
    <3>5. I(first) <= I(k)
      BY <2>4, <3>4
    <3>6. I(k) \in 1..Len(raw)
      BY <3>3, <1>5
    <3> QED BY <3>1, <3>3, <3>5, <3>6, <2>5
  <2>8. Boundary(raw, I(first), Len(Terminators[first]))
    BY <2>5, <2>6, <2>7, ZenonT(60) DEF Boundary
  <2> QED BY <1>2, <1>7, <2>8
<1> QED BY <1>6, <1>7

(* No two terminators stand at the same place. *)
LEMMA EndsOnce ==
    ASSUME NEW raw, NEW i, NEW n, NEW m, Ends(raw, i, n), Ends(raw, i, m)
    PROVE  n = m
<1>1. CR # LF
  BY DEF CR, LF
<1> QED BY <1>1 DEF Ends

(* There is one first terminator. *)
LEMMA BoundaryOnce ==
    ASSUME NEW B, NEW raw \in Seq(B), NEW i, NEW n, Boundary(raw, i, n)
    PROVE  findFrameBoundary(raw).idx = i /\ findFrameBoundary(raw).sep = n
<1> DEFINE at == findFrameBoundary(raw)
<1>1. i \in 1..Len(raw) /\ n \in {2, 4} /\ Ends(raw, i, n)
  BY DEF Boundary
<1>2. ~ NoBoundary(raw)
  BY <1>1 DEF NoBoundary
<1>3. Boundary(raw, at.idx, at.sep)
  BY <1>2, BoundaryFound
<1> HIDE DEF at
<1>4. at.idx \in 1..Len(raw) /\ at.sep \in {2, 4} /\ Ends(raw, at.idx, at.sep)
  BY <1>3 DEF Boundary
<1>5. ~ (at.idx < i) /\ ~ (i < at.idx)
  <2>1. at.idx < i => at.idx \in 1..(i - 1)
    BY <1>1, <1>4
  <2>2. i < at.idx => i \in 1..(at.idx - 1)
    BY <1>1, <1>4
  <2> QED BY <1>1, <1>3, <1>4, <2>1, <2>2 DEF Boundary
<1>6. at.idx = i
  BY <1>1, <1>4, <1>5
<1>7. at.sep = n
  BY <1>1, <1>4, <1>6, EndsOnce, Zenon
<1> QED BY <1>6, <1>7 DEF at

(* Bytes that arrive later do not move the first terminator: one that begins
   before it would need the bytes that it has (findFrameBoundary). *)
LEMMA BoundaryStays ==
    ASSUME NEW B, NEW raw \in Seq(B), NEW more \in Seq(B), NEW i, NEW n, Boundary(raw, i, n)
    PROVE  Boundary(raw \o more, i, n)
<1> DEFINE all == raw \o more
<1>1. all \in Seq(B) /\ Len(all) = Len(raw) + Len(more) /\ Len(raw) \in Nat /\ Len(more) \in Nat
  OBVIOUS
<1>2. \A j \in 1..Len(raw) : all[j] = raw[j]
  OBVIOUS
<1> HIDE DEF all
<1>3. i \in 1..Len(raw) /\ n \in {2, 4} /\ Ends(raw, i, n)
  BY DEF Boundary
<1>4. Ends(all, i, n)
  <2>1. CASE n = 2
    <3>1. i + 1 \in 1..Len(raw) /\ i + 1 <= Len(all)
      BY <1>1, <1>3, <2>1 DEF Ends
    <3> QED BY <1>2, <1>3, <2>1, <3>1 DEF Ends
  <2>2. CASE n = 4
    <3>1. /\ i + 1 \in 1..Len(raw) /\ i + 2 \in 1..Len(raw) /\ i + 3 \in 1..Len(raw)
          /\ i + 3 <= Len(all)
      BY <1>1, <1>3, <2>2 DEF Ends
    <3> QED BY <1>2, <1>3, <2>2, <3>1 DEF Ends
  <2> QED BY <1>3, <2>1, <2>2
<1>5. ASSUME NEW j \in 1..(i - 1), NEW m \in {2, 4}, Ends(all, j, m)
      PROVE  FALSE
  <2>1. ~ Ends(raw, j, m)
    BY DEF Boundary
  <2>2. j \in Nat /\ i \in Nat /\ 1 <= j /\ j + 1 <= i /\ i + 1 <= Len(raw)
    BY <1>1, <1>3 DEF Ends
  <2>3. CASE j + 3 <= Len(raw)
    <3>1. /\ all[j] = raw[j] /\ all[j + 1] = raw[j + 1]
          /\ all[j + 2] = raw[j + 2] /\ all[j + 3] = raw[j + 3]
      <4>1. /\ j \in 1..Len(raw) /\ j + 1 \in 1..Len(raw)
            /\ j + 2 \in 1..Len(raw) /\ j + 3 \in 1..Len(raw)
        BY <1>1, <2>2, <2>3
      <4> QED BY <1>2, <4>1
    <3>2. j + 1 <= Len(raw)
      BY <1>1, <2>2
    <3> QED BY <1>5, <2>1, <2>3, <3>1, <3>2 DEF Ends
  <2>4. CASE ~ (j + 3 <= Len(raw))
    <3>1. i = j + 1 /\ Len(raw) = j + 2
      BY <1>1, <2>2, <2>4
    <3>2. all[j] = raw[j] /\ all[j + 1] = raw[j + 1] /\ all[j + 2] = raw[j + 2]
      <4>1. j \in 1..Len(raw) /\ j + 1 \in 1..Len(raw) /\ j + 2 \in 1..Len(raw)
        BY <1>1, <2>2, <3>1
      <4> QED BY <1>2, <4>1
    <3>3. (raw[j + 1] = LF /\ raw[j + 2] = LF) \/ (raw[j + 1] = CR /\ raw[j + 2] = CR)
      BY <1>1, <1>3, <2>2, <3>1 DEF Ends
    <3>4. m = 4 /\ raw[j + 1] = LF /\ raw[j + 2] = CR
      BY <1>5, <2>1, <2>2, <3>1, <3>2, <1>1 DEF Ends
    <3> QED BY <3>3, <3>4 DEF CR, LF
  <2> QED BY <2>3, <2>4
<1>6. i \in 1..Len(all)
  BY <1>1, <1>3
<1> QED BY <1>3, <1>4, <1>5, <1>6, ZenonT(60) DEF Boundary, all

(* Parts of a sequence, ends included, are sequences of the same symbols. *)
LEMMA SubSeqIn ==
    ASSUME NEW B, NEW s \in Seq(B), NEW m \in Nat \ {0}, NEW n \in Int, n <= Len(s)
    PROVE  /\ SubSeq(s, m, n) \in Seq(B)
           /\ Len(SubSeq(s, m, n)) = IF m <= n THEN n - m + 1 ELSE 0
           /\ \A i \in 1..(n - m + 1) : SubSeq(s, m, n)[i] = s[m + i - 1]
<1>1. \A i \in m..n : s[i] \in B
  OBVIOUS
<1> QED BY <1>1

(* The lines of a frame are made of its bytes (splitSSELines). *)
LEMMA LinesOfFrame ==
    ASSUME NEW B, NEW msg \in Seq(B)
    PROVE  splitSSELines(msg) \in Seq(Seq(B))
<1> DEFINE n == Len(msg)
           S == [lines : Seq(Seq(B)), start : 1..(n + 1)]
           s0 == [lines |-> <<>>, start |-> 1]
           Loop(f) == [i \in 0..n |-> IF i = 0 THEN s0 ELSE SplitAt(msg, i, f[i - 1])]
           at == CHOOSE f : f = Loop(f)
<1>1. splitSSELines(msg) =
          IF at[n].start <= n THEN Append(at[n].lines, SubSeq(msg, at[n].start, n))
          ELSE at[n].lines
  BY DEF splitSSELines
<1>2. n \in Nat /\ s0 \in S /\ \A i \in 1..n : \A s \in S : SplitAt(msg, i, s) \in S
  <2>1. n \in Nat /\ s0 \in S
    OBVIOUS
  <2>2. ASSUME NEW i \in 1..n, NEW s \in S
        PROVE  SplitAt(msg, i, s) \in S
    <3>1. SubSeq(msg, s.start, i - 1) \in Seq(B)
      BY <2>1, SubSeqIn
    <3>2. Append(s.lines, SubSeq(msg, s.start, i - 1)) \in Seq(Seq(B))
      BY <3>1
    <3>3. i + 1 \in 1..(n + 1)
      BY <2>1
    <3> HIDE DEF n
    <3>4. /\ [s EXCEPT !.start = i + 1] \in S
          /\ [lines |-> Append(s.lines, SubSeq(msg, s.start, i - 1)), start |-> i + 1] \in S
      BY <3>2, <3>3, Zenon
    <3> QED BY <3>4, ZenonT(60) DEF SplitAt
  <2> QED BY <2>1, <2>2
<1>3. /\ \A i \in 0..n : at[i] = IF i = 0 THEN s0 ELSE SplitAt(msg, i, at[i - 1])
      /\ \A i \in 0..n : at[i] \in S
  <2> DEFINE step == [i \in 1..n |-> [s \in S |-> SplitAt(msg, i, s)]]
  <2>1. step \in [1..n -> [S -> S]]
    BY <1>2
  <2>2. \A i \in 1..n : \A s \in S : step[i][s] = SplitAt(msg, i, s)
    OBVIOUS
  <2> HIDE DEF n, S, s0, step
  <2>3. PICK f \in [0..n -> S] : IsRun(f, n, s0, step)
    BY <2>1, <1>2, LoopRuns, Zenon
  <2>4. \A i \in 0..n : i = 0 \/ (i \in 1..n /\ i - 1 \in 0..n)
    BY <1>2
  <2>5. ASSUME NEW i \in 0..n
        PROVE  f[i] = IF i = 0 THEN s0 ELSE SplitAt(msg, i, f[i - 1])
    <3>1. CASE i = 0
      BY <2>3, <3>1 DEF IsRun
    <3>2. CASE i # 0
      <4>1. i \in 1..n /\ i - 1 \in 0..n
        BY <2>4, <3>2
      <4>2. f[i - 1] \in S
        BY <4>1
      <4>3. f[i] = step[i][f[i - 1]]
        BY <2>3, <4>1 DEF IsRun
      <4> QED BY <2>2, <3>2, <4>1, <4>2, <4>3
    <3> QED BY <3>1, <3>2
  <2>6. f = Loop(f)
    BY <2>5
  <2>7. at = Loop(at)
    <3> HIDE DEF Loop
    <3> QED BY <2>6 DEF at
  <2> HIDE DEF at
  <2>8. \A i \in 0..n : at[i] = IF i = 0 THEN s0 ELSE SplitAt(msg, i, at[i - 1])
    <3>1. \A i \in 0..n : Loop(at)[i] = IF i = 0 THEN s0 ELSE SplitAt(msg, i, at[i - 1])
      OBVIOUS
    <3> HIDE DEF Loop
    <3> QED BY <2>7, <3>1
  <2>9. \A i \in 0..n : at[i] \in S
    <3> DEFINE P == {i \in 0..n : at[i] \in S}
    <3>1. P \in SUBSET (0..n)
      OBVIOUS
    <3>2. 0 \in P
      BY <1>2, <2>8
    <3>3. \A i \in 1..n : i - 1 \in P => i \in P
      <4> SUFFICES ASSUME NEW i \in 1..n, at[i - 1] \in S
                   PROVE  at[i] \in S
        BY <1>2
      <4>1. SplitAt(msg, i, at[i - 1]) \in S
        BY <1>2
      <4>2. i \in 0..n /\ i # 0
        BY <1>2
      <4> QED BY <2>8, <4>1, <4>2
    <3>4. \A i \in P : at[i] \in S
      OBVIOUS
    <3> HIDE DEF P
    <3> QED BY <1>2, <3>1, <3>2, <3>3, <3>4, IntervalInduction, Zenon
  <2> QED BY <2>8, <2>9
<1> HIDE DEF at
<1>4. at[n] \in S
  <2>1. n \in 0..n
    BY <1>2
  <2> HIDE DEF n, S
  <2> QED BY <1>3, <2>1
<1>5. at[n].lines \in Seq(Seq(B)) /\ SubSeq(msg, at[n].start, n) \in Seq(B)
  BY <1>2, <1>4, SubSeqIn
<1> QED BY <1>1, <1>5

(* So is a line without its white space (bytes.TrimSpace). *)
LEMMA TrimmedIn ==
    ASSUME NEW B, NEW s \in Seq(B)
    PROVE  TrimSpace(s) \in Seq(B)
<1> DEFINE kept == {i \in DOMAIN s : s[i] # SP}
           lo == CHOOSE i \in kept : \A j \in kept : i <= j
           hi == CHOOSE i \in kept : \A j \in kept : j <= i
<1>1. TrimSpace(s) = IF kept = {} THEN <<>> ELSE SubSeq(s, lo, hi)
  BY DEF TrimSpace
<1>2. kept \in SUBSET (1..Len(s)) /\ kept \in SUBSET Nat /\ kept \in SUBSET (0..Len(s))
      /\ Len(s) \in Nat
  OBVIOUS
<1> HIDE DEF kept
<1>3. CASE kept # {}
  <2>1. lo \in kept
    <3>1. \E i \in kept : \A j \in kept : i <= j
      BY <1>2, <1>3, LeastExists, Zenon
    <3> QED BY <3>1, Zenon
  <2>2. hi \in kept
    <3>1. \E i \in kept : \A j \in kept : j <= i
      BY <1>2, <1>3, GreatestExists, Zenon
    <3> QED BY <3>1, Zenon
  <2> HIDE DEF lo, hi
  <2>3. lo \in Nat \ {0} /\ hi \in Int /\ hi <= Len(s)
    BY <1>2, <2>1, <2>2
  <2>4. SubSeq(s, lo, hi) \in Seq(B)
    BY <2>3, SubSeqIn
  <2> QED BY <1>1, <1>3, <2>4
<1> QED BY <1>1, <1>3

(* What dispatch hands on of a frame over B. *)
FieldsOf(B) == [event : Seq(B), data : Seq(B)]

(* The fields of a frame are made of its bytes (dispatch). *)
LEMMA FieldsOfFrame ==
    ASSUME NEW B, NEW msg \in Seq(B)
    PROVE  Fields(msg) \in FieldsOf(B)
<1> DEFINE lines == splitSSELines(msg)
           n == Len(lines)
           S == FieldsOf(B)
           s0 == NoFields
           Loop(f) == [i \in 0..n |-> IF i = 0 THEN s0 ELSE Field(f[i - 1], lines[i])]
           upto == CHOOSE f : f = Loop(f)
<1>1. Fields(msg) = upto[n]
  BY DEF Fields
<1>2. lines \in Seq(Seq(B))
  BY LinesOfFrame
<1> HIDE DEF lines
<1>3. n \in Nat /\ s0 \in S /\ \A i \in 1..n : \A s \in S : Field(s, lines[i]) \in S
  <2>1. n \in Nat /\ s0 \in S
    BY <1>2 DEF NoFields, FieldsOf
  <2>2. ASSUME NEW i \in 1..n, NEW s \in S
        PROVE  Field(s, lines[i]) \in S
    <3>1. lines[i] \in Seq(B)
      BY <1>2
    <3>2. ASSUME lines[i] # <<>>
          PROVE  TrimSpace(Tail(lines[i])) \in Seq(B)
      <4>1. Tail(lines[i]) \in Seq(B)
        BY <3>1, <3>2
      <4> QED BY <4>1, TrimmedIn, Zenon
    <3>3. s.event \in Seq(B) /\ s.data \in Seq(B)
      BY DEF FieldsOf
    <3>4. ASSUME lines[i] # <<>>
          PROVE  /\ [s EXCEPT !.event = TrimSpace(Tail(lines[i]))] \in S
                 /\ [s EXCEPT !.data = @ \o TrimSpace(Tail(lines[i]))] \in S
      <4>1. TrimSpace(Tail(lines[i])) \in Seq(B) /\ s.data \o TrimSpace(Tail(lines[i])) \in Seq(B)
        BY <3>2, <3>3, <3>4
      <4> DEFINE t == TrimSpace(Tail(lines[i]))
                 d == s.data \o t
      <4> HIDE DEF t, d
      <4>2. t \in Seq(B) /\ d \in Seq(B)
        BY <4>1 DEF t, d
      <4>3. [s EXCEPT !.event = t] \in S /\ [s EXCEPT !.data = d] \in S
        BY <4>2 DEF FieldsOf
      <4> QED BY <4>3 DEF t, d
    <3> QED BY <3>4, ZenonT(60) DEF Field
  <2> QED BY <2>1, <2>2
<1>4. /\ \A i \in 0..n : upto[i] = IF i = 0 THEN s0 ELSE Field(upto[i - 1], lines[i])
      /\ \A i \in 0..n : upto[i] \in S
  <2> DEFINE step == [i \in 1..n |-> [s \in S |-> Field(s, lines[i])]]
  <2>1. step \in [1..n -> [S -> S]]
    BY <1>3
  <2>2. \A i \in 1..n : \A s \in S : step[i][s] = Field(s, lines[i])
    OBVIOUS
  <2> HIDE DEF n, S, s0, step
  <2>3. PICK f \in [0..n -> S] : IsRun(f, n, s0, step)
    BY <2>1, <1>3, LoopRuns, Zenon
  <2>4. \A i \in 0..n : i = 0 \/ (i \in 1..n /\ i - 1 \in 0..n)
    BY <1>3
  <2>5. ASSUME NEW i \in 0..n
        PROVE  f[i] = IF i = 0 THEN s0 ELSE Field(f[i - 1], lines[i])
    <3>1. CASE i = 0
      BY <2>3, <3>1 DEF IsRun
    <3>2. CASE i # 0
      <4>1. i \in 1..n /\ i - 1 \in 0..n
        BY <2>4, <3>2
      <4>2. f[i - 1] \in S
        BY <4>1
      <4>3. f[i] = step[i][f[i - 1]]
        BY <2>3, <4>1 DEF IsRun
      <4> QED BY <2>2, <3>2, <4>1, <4>2, <4>3
    <3> QED BY <3>1, <3>2
  <2>6. f = Loop(f)
    BY <2>5
  <2>7. upto = Loop(upto)
    <3> HIDE DEF Loop
    <3> QED BY <2>6 DEF upto
  <2> HIDE DEF upto
  <2>8. \A i \in 0..n : upto[i] = IF i = 0 THEN s0 ELSE Field(upto[i - 1], lines[i])
    <3>1. \A i \in 0..n : Loop(upto)[i] = IF i = 0 THEN s0 ELSE Field(upto[i - 1], lines[i])
      OBVIOUS
    <3> HIDE DEF Loop
    <3> QED BY <2>7, <3>1
  <2>9. \A i \in 0..n : upto[i] \in S
    <3> DEFINE P == {i \in 0..n : upto[i] \in S}
    <3>1. P \in SUBSET (0..n)
      OBVIOUS
    <3>2. 0 \in P
      BY <1>3, <2>8
    <3>3. \A i \in 1..n : i - 1 \in P => i \in P
      <4> SUFFICES ASSUME NEW i \in 1..n, upto[i - 1] \in S
                   PROVE  upto[i] \in S
        BY <1>3
      <4>1. Field(upto[i - 1], lines[i]) \in S
        BY <1>3
      <4>2. i \in 0..n /\ i # 0
        BY <1>3
      <4> QED BY <2>8, <4>1, <4>2
    <3>4. \A i \in P : upto[i] \in S
      OBVIOUS
    <3> HIDE DEF P
    <3> QED BY <1>3, <3>1, <3>2, <3>3, <3>4, IntervalInduction, Zenon
  <2> QED BY <2>8, <2>9
<1> HIDE DEF upto
<1>5. n \in 0..n
  BY <1>3
<1> HIDE DEF n, S
<1>6. upto[n] \in S
  BY <1>4, <1>5
<1> QED BY <1>1, <1>6 DEF S

-----------------------------------------------------------------------------
(* What a round of drain works on: the buffer and the calls of onEvent so far. *)
StateOf(B) == [buf : Seq(B), out : Seq(FieldsOf(B))]

(* Such a state; a name, so that lemmas can be matched against it. *)
Pair(b, out) == [buf |-> b, out |-> out]

(* There is no complete frame left in the buffer. *)
Settled(s) == findFrameBoundary(s.buf).idx = 0

(* onEvent is called with fields of the stream's bytes (dispatch). *)
LEMMA DispatchIn ==
    ASSUME NEW B, NEW out \in Seq(FieldsOf(B)), NEW msg \in Seq(B)
    PROVE  dispatch(out, msg) \in Seq(FieldsOf(B))
<1>1. Fields(msg) \in FieldsOf(B)
  BY FieldsOfFrame
<1> QED BY <1>1 DEF dispatch

(* A round of drain's loop takes at least two bytes off the buffer, or nothing
   when no frame is complete (drain). *)
LEMMA CutIn ==
    ASSUME NEW B, NEW s \in StateOf(B)
    PROVE  /\ Cut(s) \in StateOf(B)
           /\ Settled(s) => Cut(s) = s
           /\ ~ Settled(s) => Len(Cut(s).buf) + 2 <= Len(s.buf)
<1> DEFINE at == findFrameBoundary(s.buf)
           rest == SubSeq(s.buf, at.idx + at.sep, Len(s.buf))
           calls == dispatch(s.out, SubSeq(s.buf, 1, at.idx - 1))
<1>1. s.buf \in Seq(B) /\ s.out \in Seq(FieldsOf(B)) /\ Len(s.buf) \in Nat
  BY DEF StateOf
<1>2. Cut(s) = IF at.idx = 0 THEN s ELSE [buf |-> rest, out |-> calls]
  BY DEF Cut
<1>3. Settled(s) <=> at.idx = 0
  BY DEF Settled
<1>4. CASE at.idx # 0
  <2>1. Boundary(s.buf, at.idx, at.sep)
    BY <1>1, <1>4, BoundaryFound
  <2>2. at.idx \in 1..Len(s.buf) /\ at.sep \in {2, 4} /\ at.idx + at.sep - 1 <= Len(s.buf)
    <3> HIDE DEF at
    <3> QED BY <1>1, <2>1 DEF Boundary, Ends
  <2> HIDE DEF at
  <2>3. rest \in Seq(B) /\ Len(rest) + 2 <= Len(s.buf)
    <3>1. at.idx + at.sep \in Nat \ {0} /\ Len(s.buf) \in Int /\ Len(s.buf) <= Len(s.buf)
      BY <1>1, <2>2
    <3> DEFINE b == s.buf
               m == at.idx + at.sep
    <3>2. b \in Seq(B) /\ m \in Nat \ {0} /\ Len(b) \in Int /\ Len(b) <= Len(b)
      BY <1>1, <3>1
    <3>3. rest = SubSeq(b, m, Len(b))
      OBVIOUS
    <3> HIDE DEF b, m, rest
    <3>4. rest \in Seq(B) /\ Len(rest) = IF m <= Len(b) THEN Len(b) - m + 1 ELSE 0
      BY <3>2, <3>3, SubSeqIn
    <3> DEFINE x == Len(b)
               y == Len(rest)
    <3>5. /\ m \in Nat /\ m >= 3 /\ x \in Nat /\ x >= m - 1
          /\ y = IF m <= x THEN x - m + 1 ELSE 0
      BY <1>1, <2>2, <3>4 DEF b, m
    <3> HIDE DEF x, y
    <3>6. y + 2 <= x
      BY <3>5
    <3> QED BY <3>4, <3>6 DEF b, x, y
  <2>4. calls \in Seq(FieldsOf(B))
    <3>1. SubSeq(s.buf, 1, at.idx - 1) \in Seq(B)
      BY <1>1, <2>2, SubSeqIn
    <3> QED BY <1>1, <3>1, DispatchIn, Zenon
  <2> HIDE DEF rest, calls
  <2>5. [buf |-> rest, out |-> calls] \in StateOf(B)
    BY <2>3, <2>4 DEF StateOf
  <2>6. Cut(s).buf = rest /\ Cut(s) \in StateOf(B)
    BY <1>2, <1>4, <2>5
  <2> QED BY <1>3, <1>4, <2>3, <2>6
<1>5. CASE at.idx = 0
  BY <1>2, <1>3, <1>5
<1> QED BY <1>4, <1>5

(* f holds the states of n rounds of drain. *)
Rounds(f, n, B) == f \in [0..n -> StateOf(B)] /\ \A i \in 1..n : f[i] = Cut(f[i - 1])

(* Once a round finds no complete frame, neither does any later one. *)
LEMMA SettledStays ==
    ASSUME NEW B, NEW n \in Nat, NEW f, Rounds(f, n, B), NEW k \in 0..n, Settled(f[k])
    PROVE  \A i \in k..n : f[i] = f[k]
<1> DEFINE P == {i \in 0..n : i >= k => f[i] = f[k]}
<1>1. P \in SUBSET (0..n)
  OBVIOUS
<1>2. 0 \in P
  OBVIOUS
<1>3. ASSUME NEW i \in 1..n, i - 1 \in P
      PROVE  i \in P
  <2>1. CASE i <= k
    BY <2>1
  <2>2. CASE i > k
    <3>1. f[i - 1] = f[k]
      BY <1>3, <2>2
    <3>2. f[i] = Cut(f[k])
      BY <3>1 DEF Rounds
    <3>3. f[k] \in StateOf(B)
      BY DEF Rounds
    <3>4. f[i] = f[k]
      BY <3>2, <3>3, CutIn
    <3> QED BY <3>4
  <2> QED BY <2>1, <2>2
<1>4. \A i \in P : i >= k => f[i] = f[k]
  OBVIOUS
<1> HIDE DEF P
<1>5. \A i \in 0..n : i \in P
  BY <1>1, <1>2, <1>3, IntervalInduction, Zenon
<1>6. \A i \in k..n : i \in 0..n /\ i >= k
  OBVIOUS
<1> QED BY <1>4, <1>5, <1>6

(* As many rounds as there are bytes leave no complete frame. *)
LEMMA RoundsSettle ==
    ASSUME NEW B, NEW n \in Nat, NEW f, Rounds(f, n, B), Len(f[0].buf) <= n
    PROVE  Settled(f[n])
<1> DEFINE L(i) == Len(f[i].buf)
           P == {i \in 0..n : Settled(f[i]) \/ L(i) + i <= L(0)}
<1>1. \A i \in 0..n : f[i] \in StateOf(B) /\ f[i].buf \in Seq(B) /\ L(i) \in Nat
  BY DEF Rounds, StateOf
<1>2. P \in SUBSET (0..n)
  OBVIOUS
<1>3. 0 \in P
  BY <1>1
<1>4. ASSUME NEW i \in 1..n, i - 1 \in P
      PROVE  i \in P
  <2>1. i - 1 \in 0..n /\ i \in 0..n /\ 0 \in 0..n
    OBVIOUS
  <2>2. f[i] = Cut(f[i - 1])
    BY DEF Rounds
  <2>3. CASE Settled(f[i - 1])
    BY <1>1, <2>1, <2>2, <2>3, CutIn
  <2>4. CASE ~ Settled(f[i - 1])
    <3>1. L(i) + 2 <= L(i - 1)
      BY <1>1, <2>1, <2>2, <2>4, CutIn
    <3>2. L(i - 1) + (i - 1) <= L(0)
      BY <1>4, <2>4
    <3>3. L(i) \in Nat /\ L(i - 1) \in Nat /\ L(0) \in Nat
      BY <1>1, <2>1
    <3> HIDE DEF L
    <3>4. L(i) + i <= L(0)
      BY <3>1, <3>2, <3>3
    <3> QED BY <2>1, <3>4
  <2> QED BY <2>3, <2>4
<1>5. \A i \in P : Settled(f[i]) \/ L(i) + i <= L(0)
  OBVIOUS
<1> HIDE DEF P
<1>6. \A i \in 0..n : i \in P
  BY <1>2, <1>3, <1>4, IntervalInduction, Zenon
<1>7. n \in 0..n
  OBVIOUS
<1>8. CASE L(n) + n <= L(0)
  <2>1. L(n) \in Nat /\ L(0) \in Nat /\ L(0) <= n
    BY <1>1, <1>7
  <2>2. L(n) = 0
    <3> HIDE DEF L
    <3> QED BY <1>8, <2>1
  <2>3. Len(f[n].buf) = 0 /\ f[n].buf \in Seq(B)
    BY <2>2, <1>1, <1>7
  <2>4. ~ Boundary(f[n].buf, findFrameBoundary(f[n].buf).idx, findFrameBoundary(f[n].buf).sep)
    BY <2>3 DEF Boundary
  <2> QED BY <2>3, <2>4, BoundaryFound DEF Settled
<1> QED BY <1>5, <1>6, <1>7, <1>8

(* drain's loop has run as many rounds as there are bytes. *)
LEMMA DrainedRuns ==
    ASSUME NEW B, NEW b \in Seq(B), NEW out \in Seq(FieldsOf(B))
    PROVE  \E f : /\ Rounds(f, Len(b), B) /\ f[0] = [buf |-> b, out |-> out]
                  /\ Drained(b, out) = f[Len(b)]
<1> DEFINE n == Len(b)
           S == StateOf(B)
           s0 == [buf |-> b, out |-> out]
           Loop(f) == [i \in 0..n |-> IF i = 0 THEN s0 ELSE Cut(f[i - 1])]
           round == CHOOSE f : f = Loop(f)
<1>1. Drained(b, out) = round[n]
  BY DEF Drained
<1>2. n \in Nat /\ s0 \in S /\ \A s \in S : Cut(s) \in S
  <2>1. n \in Nat /\ s0 \in S
    BY DEF StateOf
  <2>2. \A s \in S : Cut(s) \in S
    BY CutIn
  <2> QED BY <2>1, <2>2
<1>3. /\ \A i \in 0..n : round[i] = IF i = 0 THEN s0 ELSE Cut(round[i - 1])
      /\ \A i \in 0..n : round[i] \in S
      /\ round = Loop(round)
  <2> DEFINE step == [i \in 1..n |-> [s \in S |-> Cut(s)]]
  <2>1. step \in [1..n -> [S -> S]]
    BY <1>2
  <2>2. \A i \in 1..n : \A s \in S : step[i][s] = Cut(s)
    OBVIOUS
  <2> HIDE DEF n, S, s0, step
  <2>3. PICK f \in [0..n -> S] : IsRun(f, n, s0, step)
    BY <2>1, <1>2, LoopRuns, Zenon
  <2>4. \A i \in 0..n : i = 0 \/ (i \in 1..n /\ i - 1 \in 0..n)
    BY <1>2
  <2>5. ASSUME NEW i \in 0..n
        PROVE  f[i] = IF i = 0 THEN s0 ELSE Cut(f[i - 1])
    <3>1. CASE i = 0
      BY <2>3, <3>1 DEF IsRun
    <3>2. CASE i # 0
      <4>1. i \in 1..n /\ i - 1 \in 0..n
        BY <2>4, <3>2
      <4>2. f[i - 1] \in S
        BY <4>1
      <4>3. f[i] = step[i][f[i - 1]]
        BY <2>3, <4>1 DEF IsRun
      <4> QED BY <2>2, <3>2, <4>1, <4>2, <4>3
    <3> QED BY <3>1, <3>2
  <2>6. f = Loop(f)
    BY <2>5
  <2>7. round = Loop(round)
    <3> HIDE DEF Loop
    <3> QED BY <2>6 DEF round
  <2> HIDE DEF round
  <2>8. \A i \in 0..n : round[i] = IF i = 0 THEN s0 ELSE Cut(round[i - 1])
    <3>1. \A i \in 0..n : Loop(round)[i] = IF i = 0 THEN s0 ELSE Cut(round[i - 1])
      OBVIOUS
    <3> HIDE DEF Loop
    <3> QED BY <2>7, <3>1
  <2>9. \A i \in 0..n : round[i] \in S
    <3> DEFINE P == {i \in 0..n : round[i] \in S}
    <3>1. P \in SUBSET (0..n)
      OBVIOUS
    <3>2. 0 \in P
      BY <1>2, <2>8
    <3>3. \A i \in 1..n : i - 1 \in P => i \in P
      <4> SUFFICES ASSUME NEW i \in 1..n, round[i - 1] \in S
                   PROVE  round[i] \in S
        BY <1>2
      <4>1. Cut(round[i - 1]) \in S
        BY <1>2
      <4>2. i \in 0..n /\ i # 0
        BY <1>2
      <4> QED BY <2>8, <4>1, <4>2
    <3>4. \A i \in P : round[i] \in S
      OBVIOUS
    <3> HIDE DEF P
    <3> QED BY <1>2, <3>1, <3>2, <3>3, <3>4, IntervalInduction, Zenon
  <2> QED BY <2>7, <2>8, <2>9
<1>4. round \in [0..n -> S]
  <2>1. \E f : round = [i \in 0..n |-> f[i]]
    <3> DEFINE g == [i \in 0..n |-> IF i = 0 THEN s0 ELSE Cut(round[i - 1])]
    <3>1. round = g
      BY <1>3, Zenon
    <3>2. g = [i \in 0..n |-> g[i]]
      OBVIOUS
    <3> HIDE DEF g, round, n
    <3> QED BY <3>1, <3>2, Zenon
  <2> HIDE DEF round, n, S
  <2> QED BY <1>3, <2>1
<1> HIDE DEF round
<1>5. \A i \in 1..n : round[i] = Cut(round[i - 1])
  <2>1. \A i \in 1..n : i \in 0..n /\ i # 0
    BY <1>2
  <2> HIDE DEF n, S, Loop, s0
  <2> QED BY <1>3, <2>1
<1>6. round[0] = s0
  <2>1. 0 \in 0..n
    BY <1>2
  <2> HIDE DEF n, S, Loop, s0
  <2> QED BY <1>3, <2>1
<1>7. Rounds(round, n, B)
  BY <1>4, <1>5 DEF Rounds
<1> HIDE DEF n, Loop
<1> QED BY <1>1, <1>6, <1>7 DEF n

(* What is left holds no complete frame, and is no longer than the buffer was. *)
LEMMA DrainedIn ==
    ASSUME NEW B, NEW b \in Seq(B), NEW out \in Seq(FieldsOf(B))
    PROVE  Drained(b, out) \in StateOf(B) /\ Settled(Drained(b, out))
<1>1. PICK f : /\ Rounds(f, Len(b), B) /\ f[0] = [buf |-> b, out |-> out]
               /\ Drained(b, out) = f[Len(b)]
  BY DrainedRuns
<1>2. Len(b) \in Nat /\ Len(b) \in 0..Len(b)
  OBVIOUS
<1>3. f[Len(b)] \in StateOf(B)
  BY <1>1, <1>2 DEF Rounds
<1>4. Len(f[0].buf) <= Len(b)
  BY <1>1, <1>2
<1>5. Settled(f[Len(b)])
  BY <1>1, <1>2, <1>4, RoundsSettle
<1> QED BY <1>1, <1>3, <1>5

(* A buffer without a complete frame is left as it is (drain). *)
LEMMA DrainedDone ==
    ASSUME NEW B, NEW b \in Seq(B), NEW out \in Seq(FieldsOf(B)),
           Settled(Pair(b, out))
    PROVE  Drained(b, out) = [buf |-> b, out |-> out]
<1>1. PICK f : /\ Rounds(f, Len(b), B) /\ f[0] = [buf |-> b, out |-> out]
               /\ Drained(b, out) = f[Len(b)]
  BY DrainedRuns
<1>2. Len(b) \in Nat /\ 0 \in 0..Len(b) /\ Len(b) \in 0..Len(b)
  OBVIOUS
<1>3. Settled(f[0]) /\ Rounds(f, Len(b), B)
  BY <1>1 DEF Pair
<1> DEFINE n == Len(b)
<1> HIDE DEF n
<1>4. \A i \in 0..n : f[i] = f[0]
  <2>1. n \in Nat /\ 0 \in 0..n /\ Rounds(f, n, B)
    BY <1>2, <1>3 DEF n
  <2>2. Settled(f[0])
    BY <1>3
  <2> QED BY <2>1, <2>2, SettledStays
<1> QED BY <1>1, <1>2, <1>4 DEF n

(* Two runs of the loop from the same state agree as far as both go. *)
LEMMA RoundsAgree ==
    ASSUME NEW B, NEW n \in Nat, NEW m \in Nat, m <= n, NEW f, NEW g,
           Rounds(f, n, B), Rounds(g, m, B), f[0] = g[0]
    PROVE  f[m] = g[m]
<1> DEFINE P == {i \in 0..m : f[i] = g[i]}
<1>1. P \in SUBSET (0..m) /\ 0 \in P
  OBVIOUS
<1>2. ASSUME NEW i \in 1..m, i - 1 \in P
      PROVE  i \in P
  <2>1. i \in 1..n /\ i \in 0..m
    OBVIOUS
  <2>2. f[i] = Cut(f[i - 1]) /\ g[i] = Cut(g[i - 1])
    BY <2>1 DEF Rounds
  <2>3. f[i - 1] = g[i - 1]
    BY <1>2
  <2> QED BY <2>1, <2>2, <2>3
<1>3. \A i \in P : f[i] = g[i]
  OBVIOUS
<1> HIDE DEF P
<1>4. \A i \in 0..m : i \in P
  BY <1>1, <1>2, IntervalInduction, Zenon
<1>5. m \in 0..m
  OBVIOUS
<1> QED BY <1>3, <1>4, <1>5

(* The first frame is cut off, and the loop goes on with the rest (drain). *)
LEMMA DrainedNext ==
    ASSUME NEW B, NEW b \in Seq(B), NEW out \in Seq(FieldsOf(B)),
           ~ Settled(Pair(b, out))
    PROVE  Drained(b, out) = Drained(Cut(Pair(b, out)).buf, Cut(Pair(b, out)).out)
<1> DEFINE s0 == Pair(b, out)
           s == Cut(s0)
           n == Len(b)
           m == Len(s.buf)
<1>1. s0 \in StateOf(B) /\ s0.buf = b
  BY DEF StateOf, Pair
<1>2. s \in StateOf(B) /\ m + 2 <= n
  BY <1>1, CutIn
<1>3. s.buf \in Seq(B) /\ s.out \in Seq(FieldsOf(B)) /\ s = [buf |-> s.buf, out |-> s.out]
  BY <1>2 DEF StateOf
<1>4. n \in Nat /\ m \in Nat
  BY <1>3
<1>5. PICK f : Rounds(f, n, B) /\ f[0] = s0 /\ Drained(b, out) = f[n]
  BY DrainedRuns DEF Pair
<1>6. PICK g : Rounds(g, m, B) /\ g[0] = s /\ Drained(s.buf, s.out) = g[m]
  BY <1>3, DrainedRuns
<1> HIDE DEF s, n, m, s0
<1> DEFINE h == [i \in 0..(n - 1) |-> f[i + 1]]
<1>7. Rounds(h, n - 1, B) /\ h[0] = s
  <2>1. f \in [0..n -> StateOf(B)] /\ \A i \in 1..n : f[i] = Cut(f[i - 1])
    BY <1>5 DEF Rounds
  <2>2. h \in [0..(n - 1) -> StateOf(B)]
    BY <1>2, <1>4, <2>1
  <2>3. ASSUME NEW i \in 1..(n - 1)
        PROVE  h[i] = Cut(h[i - 1])
    <3>1. i + 1 \in 1..n /\ i \in 0..(n - 1) /\ i - 1 \in 0..(n - 1) /\ (i - 1) + 1 = i /\ (i + 1) - 1 = i
      BY <1>2, <1>4
    <3>2. h[i] = f[i + 1] /\ h[i - 1] = f[i]
      BY <3>1
    <3>3. f[i + 1] = Cut(f[(i + 1) - 1])
      BY <2>1, <3>1
    <3> QED BY <3>1, <3>2, <3>3
  <2>4. h[0] = f[1] /\ f[1] = Cut(f[0])
    <3>1. 0 \in 0..(n - 1) /\ 1 \in 1..n /\ 0 + 1 = 1 /\ 1 - 1 = 0
      BY <1>2, <1>4
    <3>2. f[1] = Cut(f[1 - 1])
      BY <2>1, <3>1
    <3> QED BY <3>1, <3>2
  <2> HIDE DEF h
  <2> QED BY <1>5, <2>2, <2>3, <2>4 DEF Rounds, s
<1>8. n - 1 \in Nat /\ m <= n - 1 /\ m \in 0..(n - 1) /\ n - 1 \in m..(n - 1)
  BY <1>2, <1>4
<1>9. h[n - 1] = f[n]
  BY <1>2, <1>4
<1> HIDE DEF h
<1>10. h[m] = g[m]
  BY <1>4, <1>6, <1>7, <1>8, RoundsAgree
<1>11. Settled(g[m])
  <2>1. Len(g[0].buf) <= m
    BY <1>4, <1>6 DEF m
  <2> QED BY <1>4, <1>6, <2>1, RoundsSettle
<1>12. h[n - 1] = h[m]
  BY <1>7, <1>8, <1>10, <1>11, SettledStays, ZenonT(60)
<1> QED BY <1>5, <1>6, <1>9, <1>10, <1>12 DEF s, s0

-----------------------------------------------------------------------------
(* Parts of a sequence and of a longer one *)
LEMMA PartsOfConcat ==
    ASSUME NEW B, NEW b \in Seq(B), NEW c \in Seq(B), NEW m \in 1..(Len(b) + 1)
    PROVE  /\ SubSeq(b \o c, 1, m - 1) = SubSeq(b, 1, m - 1)
           /\ SubSeq(b \o c, m, Len(b \o c)) = SubSeq(b, m, Len(b)) \o c
<1> DEFINE all == b \o c
<1>1. all \in Seq(B) /\ Len(all) = Len(b) + Len(c) /\ Len(b) \in Nat /\ Len(c) \in Nat
  OBVIOUS
<1>2. \A i \in 1..(Len(b) + Len(c)) : all[i] = IF i <= Len(b) THEN b[i] ELSE c[i - Len(b)]
  OBVIOUS
<1> HIDE DEF all
<1>3. SubSeq(all, 1, m - 1) = SubSeq(b, 1, m - 1)
  <2> DEFINE s == SubSeq(all, 1, m - 1)
             t == SubSeq(b, 1, m - 1)
  <2>1. s \in Seq(B) /\ Len(s) = m - 1 /\ \A i \in 1..(m - 1) : s[i] = all[i]
    BY <1>1
  <2>2. t \in Seq(B) /\ Len(t) = m - 1 /\ \A i \in 1..(m - 1) : t[i] = b[i]
    BY <1>1
  <2>3. \A i \in 1..(m - 1) : all[i] = b[i]
    BY <1>1, <1>2
  <2> HIDE DEF s, t
  <2>4. Len(s) = Len(t) /\ \A i \in 1..Len(s) : s[i] = t[i]
    BY <2>1, <2>2, <2>3
  <2>5. s = t
    BY <2>1, <2>2, <2>4, SeqEqual
  <2> QED BY <2>5 DEF s, t
<1>4. SubSeq(all, m, Len(all)) = SubSeq(b, m, Len(b)) \o c
  <2> DEFINE s == SubSeq(all, m, Len(all))
             r == SubSeq(b, m, Len(b))
             t == r \o c
             k == Len(b) - m + 1
  <2>1. s \in Seq(B) /\ Len(s) = k + Len(c) /\ \A i \in 1..(k + Len(c)) : s[i] = all[m + i - 1]
    <3> DEFINE n == Len(all)
    <3>1. m \in Nat \ {0} /\ n \in Int /\ n <= Len(all)
      BY <1>1
    <3>2. n - m + 1 = k + Len(c) /\ (IF m <= n THEN n - m + 1 ELSE 0) = k + Len(c)
      BY <1>1
    <3> HIDE DEF n
    <3>3. /\ SubSeq(all, m, n) \in Seq(B)
          /\ Len(SubSeq(all, m, n)) = IF m <= n THEN n - m + 1 ELSE 0
          /\ \A i \in 1..(n - m + 1) : SubSeq(all, m, n)[i] = all[m + i - 1]
      BY <1>1, <3>1, SubSeqIn
    <3> QED BY <3>2, <3>3 DEF n
  <2>2. r \in Seq(B) /\ Len(r) = k /\ \A i \in 1..k : r[i] = b[m + i - 1]
    BY <1>1
  <2>3. /\ t \in Seq(B) /\ Len(t) = k + Len(c)
        /\ \A i \in 1..(k + Len(c)) : t[i] = IF i <= k THEN r[i] ELSE c[i - k]
    <3> HIDE DEF r, k
    <3>1. /\ r \o c \in Seq(B) /\ Len(r \o c) = Len(r) + Len(c)
          /\ \A i \in 1..(Len(r) + Len(c)) : (r \o c)[i] = IF i <= Len(r) THEN r[i] ELSE c[i - Len(r)]
      BY <2>2, ConcatProperties, Zenon
    <3> QED BY <2>2, <3>1
  <2>4. k \in Nat /\ k = Len(b) - m + 1 /\ m \in Nat
    BY <1>1
  <2> HIDE DEF s, r, t, k
  <2>5. ASSUME NEW i \in 1..(k + Len(c))
        PROVE  s[i] = t[i]
    <3>1. m + i - 1 \in 1..(Len(b) + Len(c))
      BY <1>1, <2>4
    <3>2. CASE i <= k
      <4>1. m + i - 1 <= Len(b) /\ i \in 1..k
        BY <1>1, <2>4, <3>2
      <4> QED BY <1>2, <2>1, <2>2, <2>3, <3>1, <3>2, <4>1, Zenon
    <3>3. CASE ~ (i <= k)
      <4>1. ~ (m + i - 1 <= Len(b)) /\ (m + i - 1) - Len(b) = i - k
        BY <1>1, <2>4, <3>3
      <4> QED BY <1>2, <2>1, <2>3, <3>1, <3>3, <4>1, Zenon
    <3> QED BY <3>2, <3>3
  <2>6. Len(s) = Len(t) /\ \A i \in 1..Len(s) : s[i] = t[i]
    BY <2>1, <2>3, <2>5
  <2>7. s = t
    BY <2>1, <2>3, <2>6, SeqEqual
  <2> QED BY <2>7 DEF s, r, t
<1> QED BY <1>3, <1>4 DEF all

(* The first frame of a buffer is the first frame of every longer one. *)
LEMMA CutStays ==
    ASSUME NEW B, NEW b \in Seq(B), NEW c \in Seq(B), NEW out \in Seq(FieldsOf(B)),
           ~ Settled(Pair(b, out))
    PROVE  /\ ~ Settled(Pair(b \o c, out))
           /\ Cut(Pair(b \o c, out)).buf = Cut(Pair(b, out)).buf \o c
           /\ Cut(Pair(b \o c, out)).out = Cut(Pair(b, out)).out
<1> DEFINE s == Cut(Pair(b, out))
           at == findFrameBoundary(b)
           all == b \o c
           to == findFrameBoundary(all)
<1>1. Boundary(b, at.idx, at.sep)
  BY BoundaryFound DEF Settled, Pair
<1>2. Boundary(all, at.idx, at.sep) /\ all \in Seq(B)
  BY <1>1, BoundaryStays
<1>3. to.idx = at.idx /\ to.sep = at.sep
  <2> HIDE DEF at, all
  <2> QED BY <1>2, BoundaryOnce
<1>4. at.idx \in 1..Len(b) /\ at.idx + at.sep \in 1..(Len(b) + 1) /\ at.idx # 0
  <2> DEFINE i == at.idx
             n == at.sep
  <2>1. Boundary(b, i, n) /\ Len(b) \in Nat
    BY <1>1
  <2> HIDE DEF i, n
  <2>2. i \in 1..Len(b) /\ n \in {2, 4} /\ i + n - 1 <= Len(b)
    BY <2>1 DEF Boundary, Ends
  <2>3. i \in 1..Len(b) /\ i + n \in 1..(Len(b) + 1) /\ i # 0
    BY <2>1, <2>2
  <2> QED BY <2>3 DEF i, n
<1>5. Cut(Pair(b, out)) =
          [buf |-> SubSeq(b, at.idx + at.sep, Len(b)), out |-> dispatch(out, SubSeq(b, 1, at.idx - 1))]
  <2> HIDE DEF at
  <2> QED BY <1>4 DEF Cut, Pair, at
<1>6. Cut(Pair(all, out)) =
          [buf |-> SubSeq(all, at.idx + at.sep, Len(all)),
           out |-> dispatch(out, SubSeq(all, 1, at.idx - 1))]
  <2>1. Cut(Pair(all, out)) =
            IF to.idx = 0 THEN [buf |-> all, out |-> out]
            ELSE [buf |-> SubSeq(all, to.idx + to.sep, Len(all)),
                  out |-> dispatch(out, SubSeq(all, 1, to.idx - 1))]
    BY DEF Cut, Pair
  <2> HIDE DEF all, at, to
  <2> QED BY <1>3, <1>4, <2>1
<1>7. SubSeq(all, at.idx + at.sep, Len(all)) = SubSeq(b, at.idx + at.sep, Len(b)) \o c
  <2> DEFINE m == at.idx + at.sep
  <2> HIDE DEF m
  <2>1. m \in 1..(Len(b) + 1)
    BY <1>4 DEF m
  <2>2. SubSeq(all, m, Len(all)) = SubSeq(b, m, Len(b)) \o c
    BY <2>1, PartsOfConcat
  <2> QED BY <2>2, Zenon DEF m
<1>8. SubSeq(all, 1, at.idx - 1) = SubSeq(b, 1, at.idx - 1)
  <2> DEFINE m == at.idx
  <2> HIDE DEF m
  <2>1. m \in 1..(Len(b) + 1)
    BY <1>4 DEF m
  <2>2. SubSeq(all, 1, m - 1) = SubSeq(b, 1, m - 1)
    BY <2>1, PartsOfConcat
  <2> QED BY <2>2, Zenon DEF m
<1>9. ~ Settled(Pair(all, out))
  <2> HIDE DEF at, all
  <2> QED BY <1>3, <1>4 DEF Settled, Pair, to
<1>10. s.buf = SubSeq(b, at.idx + at.sep, Len(b)) /\ s.out = dispatch(out, SubSeq(b, 1, at.idx - 1))
  <2> DEFINE x == SubSeq(b, at.idx + at.sep, Len(b))
             y == dispatch(out, SubSeq(b, 1, at.idx - 1))
  <2>1. s = [buf |-> x, out |-> y]
    BY <1>5, Zenon
  <2> HIDE DEF x, y, s
  <2>2. s.buf = x /\ s.out = y
    BY <2>1
  <2> QED BY <2>2 DEF x, y
<1> HIDE DEF at, to, s, all
<1>11. Cut(Pair(all, out)).buf = s.buf \o c /\ Cut(Pair(all, out)).out = s.out
  <2> DEFINE x == SubSeq(all, at.idx + at.sep, Len(all))
             y == dispatch(out, SubSeq(all, 1, at.idx - 1))
  <2>1. x = s.buf \o c /\ y = s.out /\ Cut(Pair(all, out)) = [buf |-> x, out |-> y]
    BY <1>6, <1>7, <1>8, <1>10, Zenon
  <2> HIDE DEF x, y
  <2>2. Cut(Pair(all, out)).buf = x /\ Cut(Pair(all, out)).out = y
    BY <2>1
  <2> QED BY <2>1, <2>2, Zenon
<1> QED BY <1>9, <1>11, Zenon DEF all, s

(* Draining what has come and then what comes after it is draining it all: a
   frame is found whole or not yet (drain, findFrameBoundary). *)
LEMMA DrainedInParts ==
    ASSUME NEW B, NEW c \in Seq(B)
    PROVE  \A b \in Seq(B), out \in Seq(FieldsOf(B)) :
               Drained(b \o c, out) = Drained(Drained(b, out).buf \o c, Drained(b, out).out)
<1> DEFINE Good(b, out) ==
               Drained(b \o c, out) = Drained(Drained(b, out).buf \o c, Drained(b, out).out)
           Q(k) == \A b \in Seq(B), out \in Seq(FieldsOf(B)) : Len(b) <= k => Good(b, out)
<1>1. ASSUME NEW b \in Seq(B), NEW out \in Seq(FieldsOf(B)), Settled(Pair(b, out))
      PROVE  Good(b, out)
  <2>1. Drained(b, out) = [buf |-> b, out |-> out]
    BY <1>1, DrainedDone
  <2> QED BY <2>1
<1>2. ASSUME NEW b \in Seq(B), NEW out \in Seq(FieldsOf(B)), ~ Settled(Pair(b, out)),
             NEW k \in Nat, Len(b) <= k, Q(k - 1)
      PROVE  Good(b, out)
  <2> DEFINE s == Cut(Pair(b, out))
  <2>1. Pair(b, out) \in StateOf(B) /\ Pair(b, out).buf = b
    BY DEF StateOf, Pair
  <2>2. s \in StateOf(B) /\ Len(s.buf) + 2 <= Len(b)
    BY <1>2, <2>1, CutIn
  <2>3. s.buf \in Seq(B) /\ s.out \in Seq(FieldsOf(B)) /\ s.buf \o c \in Seq(B)
    BY <2>2 DEF StateOf
  <2>4. Drained(b, out) = Drained(s.buf, s.out)
    BY <1>2, DrainedNext
  <2>5. Drained(b \o c, out) = Drained(s.buf \o c, s.out)
    <3>1. b \o c \in Seq(B) /\ ~ Settled(Pair(b, out))
      BY <1>2
    <3> HIDE DEF Good, Q
    <3>2. /\ ~ Settled(Pair(b \o c, out))
          /\ Cut(Pair(b \o c, out)).buf = s.buf \o c /\ Cut(Pair(b \o c, out)).out = s.out
      BY <3>1, CutStays, Zenon
    <3>3. Drained(b \o c, out) = Drained(Cut(Pair(b \o c, out)).buf, Cut(Pair(b \o c, out)).out)
      BY <3>1, <3>2, DrainedNext, Zenon
    <3> QED BY <3>2, <3>3, Zenon
  <2> HIDE DEF s
  <2>7. Len(s.buf) <= k - 1
    BY <1>2, <2>2, <2>3
  <2>8. Good(s.buf, s.out)
    BY <1>2, <2>3, <2>7
  <2> QED BY <2>4, <2>5, <2>8
<1> HIDE DEF Good
<1>3. SUFFICES ASSUME NEW n \in Nat
               PROVE  Q(n)
  <2>1. \A b \in Seq(B) : Len(b) \in Nat
    OBVIOUS
  <2> QED BY <1>3, <2>1 DEF Good
<1> DEFINE P == {k \in 0..n : Q(k)}
<1>4. Q(0)
  <2> SUFFICES ASSUME NEW b \in Seq(B), NEW out \in Seq(FieldsOf(B)), Len(b) <= 0
               PROVE  Good(b, out)
    OBVIOUS
  <2>1. ~ Boundary(b, findFrameBoundary(b).idx, findFrameBoundary(b).sep)
    BY DEF Boundary
  <2>2. Settled(Pair(b, out))
    BY <2>1, BoundaryFound DEF Settled, Pair
  <2> QED BY <1>1, <2>2
<1>5. ASSUME NEW k \in 1..n, Q(k - 1)
      PROVE  Q(k)
  <2> SUFFICES ASSUME NEW b \in Seq(B), NEW out \in Seq(FieldsOf(B)), Len(b) <= k
               PROVE  Good(b, out)
    OBVIOUS
  <2>1. k \in Nat
    OBVIOUS
  <2> HIDE DEF Q
  <2> QED BY <1>1, <1>2, <1>5, <2>1
<1> HIDE DEF Q
<1>6. P \in SUBSET (0..n) /\ 0 \in P
  BY <1>4
<1>7. \A k \in 1..n : k - 1 \in P => k \in P
  BY <1>5
<1>8. \A k \in P : Q(k)
  OBVIOUS
<1> HIDE DEF P
<1>9. \A k \in 0..n : k \in P
  BY <1>6, <1>7, IntervalInduction, Zenon
<1>10. n \in 0..n
  OBVIOUS
<1> QED BY <1>8, <1>9, <1>10

(* drain never makes the buffer longer. *)
LEMMA DrainedShrinks ==
    ASSUME NEW B, NEW b \in Seq(B), NEW out \in Seq(FieldsOf(B))
    PROVE  Len(Drained(b, out).buf) <= Len(b)
<1> DEFINE n == Len(b)
<1>1. PICK f : /\ Rounds(f, n, B) /\ f[0] = [buf |-> b, out |-> out]
               /\ Drained(b, out) = f[n]
  BY DrainedRuns
<1>2. n \in Nat /\ 0 \in 0..n /\ n \in 0..n
  OBVIOUS
<1> DEFINE L(i) == Len(f[i].buf)
           P == {i \in 0..n : L(i) <= n}
<1>3. L(0) = n
  BY <1>1
<1> HIDE DEF n
<1>4. \A i \in 0..n : f[i] \in StateOf(B) /\ f[i].buf \in Seq(B) /\ L(i) \in Nat
  BY <1>1 DEF Rounds, StateOf
<1>5. P \in SUBSET (0..n) /\ 0 \in P
  BY <1>2, <1>3
<1>6. ASSUME NEW i \in 1..n, i - 1 \in P
      PROVE  i \in P
  <2>1. i - 1 \in 0..n /\ i \in 0..n /\ L(i - 1) <= n
    BY <1>2, <1>6
  <2>2. f[i] = Cut(f[i - 1])
    BY <1>1 DEF Rounds
  <2>3. CASE Settled(f[i - 1])
    BY <1>4, <2>1, <2>2, <2>3, CutIn
  <2>4. CASE ~ Settled(f[i - 1])
    <3>1. L(i) + 2 <= L(i - 1)
      BY <1>4, <2>1, <2>2, <2>4, CutIn
    <3>2. L(i) \in Nat /\ L(i - 1) \in Nat
      BY <1>4, <2>1
    <3> HIDE DEF L
    <3>3. L(i) <= n
      BY <1>2, <2>1, <3>1, <3>2
    <3> QED BY <2>1, <3>3
  <2> QED BY <2>3, <2>4
<1>7. \A i \in P : L(i) <= n
  OBVIOUS
<1> HIDE DEF P
<1>8. \A i \in 0..n : i \in P
  BY <1>2, <1>5, <1>6, IntervalInduction, Zenon
<1>9. L(n) <= n
  BY <1>2, <1>7, <1>8
<1> QED BY <1>1, <1>9 DEF n

-----------------------------------------------------------------------------
(***************************************************************************)
(* The tap: what it has handed on is what the bytes since the last         *)
(* overflow make, and what it keeps is what they leave                     *)
(***************************************************************************)
Before(b, out) == drain(b, out, FALSE)
AtEnd(b, out) == drain(b, out, TRUE)

(* The tap over a body of symbols in B.  Before the end: the frames of what
   was read since the last overflow are handed on, and the buffer holds what they
   leave.  After it: the last, unterminated frame is handed on as well. *)
TapInv(B) ==
    /\ stream \in Seq(B) /\ pos \in 0..Len(stream) /\ base \in 0..pos
    /\ buf \in Seq(B) /\ Len(buf) <= maxEventBytes
    /\ events \in Seq(FieldsOf(B)) /\ past \in Seq(FieldsOf(B))
    /\ once \in BOOLEAN /\ open \in BOOLEAN /\ closes = IF once THEN 1 ELSE 0
    /\ ~ once => open /\ Drained(SinceOverflow, past) = Pair(buf, events)
    /\ once /\ open => /\ buf = <<>>
                       /\ events = AtEnd(SinceOverflow, past).out

(* There is nothing to take from an empty buffer (drain). *)
LEMMA DrainedEmpty ==
    ASSUME NEW B, NEW out \in Seq(FieldsOf(B))
    PROVE  Drained(<<>>, out) = [buf |-> <<>>, out |-> out]
<1>1. <<>> \in Seq(B) /\ Len(<<>>) = 0
  OBVIOUS
<1>2. Settled(Pair(<<>>, out))
  <2>1. ~ Boundary(<<>>, findFrameBoundary(<<>>).idx, findFrameBoundary(<<>>).sep)
    BY DEF Boundary
  <2>2. findFrameBoundary(<<>>).idx = 0
    BY <1>1, <2>1, BoundaryFound, Zenon
  <2> QED BY <2>2 DEF Settled, Pair
<1> QED BY <1>1, <1>2, DrainedDone, Zenon

(* What has been read is part of the stream. *)
LEMMA SinceOverflowIn ==
    ASSUME NEW B, TapInv(B)
    PROVE  SinceOverflow \in Seq(B)
<1>1. stream \in Seq(B) /\ base + 1 \in Nat \ {0} /\ pos \in Int /\ pos <= Len(stream)
  BY DEF TapInv
<1> QED BY <1>1, SubSeqIn DEF SinceOverflow

(* The end of the stream adds the frame that is left, if any (drain). *)
LEMMA DrainAtEnd ==
    ASSUME NEW B, NEW b \in Seq(B), NEW out \in Seq(FieldsOf(B)), NEW s, Drained(b, out) = s
    PROVE  /\ Before(b, out) = s
           /\ AtEnd(b, out).buf = <<>>
           /\ AtEnd(b, out).out = IF s.buf = <<>> THEN s.out ELSE dispatch(s.out, s.buf)
           /\ AtEnd(b, out).out \in Seq(FieldsOf(B))
<1>1. s \in StateOf(B)
  BY DrainedIn
<1>2. s.buf \in Seq(B) /\ s.out \in Seq(FieldsOf(B))
  BY <1>1 DEF StateOf
<1>3. dispatch(s.out, s.buf) \in Seq(FieldsOf(B))
  BY <1>2, DispatchIn
<1>4. Before(b, out) = s
  BY DEF drain, Before
<1>5. AtEnd(b, out) = IF s.buf # <<>> THEN [buf |-> <<>>, out |-> dispatch(s.out, s.buf)] ELSE s
  BY DEF drain, AtEnd
<1>6. CASE s.buf = <<>>
  BY <1>2, <1>4, <1>5, <1>6
<1>7. CASE s.buf # <<>>
  <2> DEFINE d == dispatch(s.out, s.buf)
             e == AtEnd(b, out)
  <2>1. d \in Seq(FieldsOf(B))
    BY <1>3
  <2> HIDE DEF d
  <2>2. e = [buf |-> <<>>, out |-> d]
    BY <1>5, <1>7 DEF d
  <2> HIDE DEF e
  <2>3. e.buf = <<>> /\ e.out = d
    BY <2>2
  <2> QED BY <1>4, <1>7, <2>1, <2>3 DEF d, e
<1> QED BY <1>6, <1>7

(* An opened tap has handed on nothing yet (newSSETee). *)
LEMMA TapInit ==
    ASSUME NEW B, NEW body \in Seq(B), newSSETee(body)
    PROVE  TapInv(B)
<1>1. /\ stream = body /\ pos = 0 /\ buf = <<>> /\ events = <<>> /\ closes = 0 /\ once = FALSE
      /\ open = TRUE /\ base = 0 /\ past = <<>>
  BY DEF newSSETee
<1>2. SinceOverflow = <<>>
  BY <1>1 DEF SinceOverflow
<1>3. <<>> \in Seq(B) /\ <<>> \in Seq(FieldsOf(B)) /\ Len(<<>>) = 0
  OBVIOUS
<1>4. Drained(<<>>, <<>>) = [buf |-> <<>>, out |-> <<>>]
  BY <1>3, DrainedEmpty, Zenon
<1>6. Drained(SinceOverflow, past) = Pair(buf, events)
  BY <1>1, <1>2, <1>4 DEF Pair
<1>7. Len(buf) <= maxEventBytes
  BY <1>1, <1>3, SSEAssumption
<1>8. stream \in Seq(B) /\ pos \in 0..Len(stream) /\ base \in 0..pos
  BY <1>1
<1>9. closes = IF once THEN 1 ELSE 0
  BY <1>1
<1>10. buf \in Seq(B) /\ events \in Seq(FieldsOf(B)) /\ past \in Seq(FieldsOf(B))
  BY <1>1, <1>3
<1> QED BY <1>1, <1>6, <1>7, <1>8, <1>9, <1>10, Zenon DEF TapInv

-----------------------------------------------------------------------------
(* t starts with s: calls of onEvent are never taken back. *)
Extends(s, t) == Len(s) <= Len(t) /\ \A i \in 1..Len(s) : t[i] = s[i]

(* A prefix of a prefix is a prefix. *)
LEMMA ExtendsTransitive ==
    ASSUME NEW A, NEW r \in Seq(A), NEW s \in Seq(A), NEW t \in Seq(A),
           Extends(r, s), Extends(s, t)
    PROVE  Extends(r, t)
<1>1. Len(r) \in Nat /\ Len(s) \in Nat /\ Len(t) \in Nat
  OBVIOUS
<1> QED BY <1>1 DEF Extends

(* A frame adds at most one call of onEvent (dispatch). *)
LEMMA DispatchExtends ==
    ASSUME NEW B, NEW out \in Seq(FieldsOf(B)), NEW msg \in Seq(B)
    PROVE  Extends(out, dispatch(out, msg))
<1>1. Fields(msg) \in FieldsOf(B)
  BY FieldsOfFrame
<1>2. Extends(out, Append(out, Fields(msg))) /\ Extends(out, out)
  <2> DEFINE f == Fields(msg)
  <2>1. f \in FieldsOf(B)
    BY <1>1
  <2> HIDE DEF f
  <2>2. Extends(out, Append(out, f)) /\ Extends(out, out)
    BY <2>1 DEF Extends
  <2> QED BY <2>2 DEF f
<1> QED BY <1>2 DEF dispatch

(* A round of drain adds to the calls of onEvent. *)
LEMMA CutExtends ==
    ASSUME NEW B, NEW s \in StateOf(B)
    PROVE  Extends(s.out, Cut(s).out)
<1> DEFINE at == findFrameBoundary(s.buf)
           rest == SubSeq(s.buf, at.idx + at.sep, Len(s.buf))
           msg == SubSeq(s.buf, 1, at.idx - 1)
           calls == dispatch(s.out, msg)
<1>1. s.buf \in Seq(B) /\ s.out \in Seq(FieldsOf(B)) /\ Len(s.buf) \in Nat
  BY DEF StateOf
<1>2. Cut(s) = IF at.idx = 0 THEN s ELSE [buf |-> rest, out |-> calls]
  BY DEF Cut
<1>3. CASE at.idx # 0
  <2>1. Boundary(s.buf, at.idx, at.sep)
    BY <1>1, <1>3, BoundaryFound
  <2>2. at.idx \in 1..Len(s.buf)
    <3> HIDE DEF at
    <3> QED BY <1>1, <2>1 DEF Boundary, Ends
  <2> HIDE DEF at
  <2>3. msg \in Seq(B)
    BY <1>1, <2>2, SubSeqIn
  <2> HIDE DEF msg, rest
  <2>4. Extends(s.out, calls)
    BY <1>1, <2>3, DispatchExtends
  <2> HIDE DEF calls
  <2>5. Cut(s).out = calls
    BY <1>2, <1>3
  <2> QED BY <2>4, <2>5
<1>4. CASE at.idx = 0
  <2>1. Cut(s) = s
    BY <1>2, <1>4
  <2>2. Extends(s.out, s.out)
    BY <1>1 DEF Extends
  <2> QED BY <2>1, <2>2
<1> QED BY <1>3, <1>4

(* No call of onEvent is taken back (drain). *)
LEMMA DrainedExtends ==
    ASSUME NEW B, NEW b \in Seq(B), NEW out \in Seq(FieldsOf(B))
    PROVE  Extends(out, Drained(b, out).out)
<1> DEFINE n == Len(b)
<1>1. PICK f : /\ Rounds(f, n, B) /\ f[0] = [buf |-> b, out |-> out]
               /\ Drained(b, out) = f[n]
  BY DrainedRuns
<1>2. n \in Nat /\ 0 \in 0..n /\ n \in 0..n
  OBVIOUS
<1> DEFINE P == {i \in 0..n : Extends(out, f[i].out)}
<1>3. Extends(out, f[0].out)
  BY <1>1 DEF Extends
<1> HIDE DEF n
<1>4. \A i \in 0..n : f[i] \in StateOf(B) /\ f[i].out \in Seq(FieldsOf(B))
  BY <1>1 DEF Rounds, StateOf
<1>5. P \in SUBSET (0..n) /\ 0 \in P
  BY <1>2, <1>3
<1>6. ASSUME NEW i \in 1..n, i - 1 \in P
      PROVE  i \in P
  <2>1. i - 1 \in 0..n /\ i \in 0..n /\ Extends(out, f[i - 1].out)
    BY <1>2, <1>6
  <2>2. f[i] = Cut(f[i - 1])
    BY <1>1 DEF Rounds
  <2>3. Extends(f[i - 1].out, f[i].out)
    BY <1>4, <2>1, <2>2, CutExtends
  <2>4. Extends(out, f[i].out)
    BY <1>4, <2>1, <2>3, ExtendsTransitive
  <2> QED BY <2>1, <2>4
<1>7. \A i \in P : Extends(out, f[i].out)
  OBVIOUS
<1> HIDE DEF P
<1>8. \A i \in 0..n : i \in P
  BY <1>2, <1>5, <1>6, IntervalInduction, Zenon
<1> QED BY <1>1, <1>2, <1>7, <1>8

-----------------------------------------------------------------------------
(* What a Read adds to the bytes since the last overflow. *)
LEMMA ReadAdds ==
    ASSUME NEW A, NEW s \in Seq(A), NEW p \in Nat, NEW q \in Nat, NEW n \in Nat,
           p <= q, q + n <= Len(s)
    PROVE  SubSeq(s, p + 1, q + n) = SubSeq(s, p + 1, q) \o SubSeq(s, q + 1, q + n)
<1> DEFINE l == SubSeq(s, p + 1, q + n)
           a == SubSeq(s, p + 1, q)
           c == SubSeq(s, q + 1, q + n)
           t == a \o c
           k == q - p
<1>1. l \in Seq(A) /\ Len(l) = k + n /\ \A i \in 1..(k + n) : l[i] = s[p + i]
  OBVIOUS
<1>2. a \in Seq(A) /\ Len(a) = k /\ \A i \in 1..k : a[i] = s[p + i]
  OBVIOUS
<1>3. c \in Seq(A) /\ Len(c) = n /\ \A i \in 1..n : c[i] = s[q + i]
  OBVIOUS
<1>4. /\ t \in Seq(A) /\ Len(t) = k + n
      /\ \A i \in 1..(k + n) : t[i] = IF i <= k THEN a[i] ELSE c[i - k]
  <2> HIDE DEF a, c, k
  <2>1. /\ a \o c \in Seq(A) /\ Len(a \o c) = Len(a) + Len(c)
        /\ \A i \in 1..(Len(a) + Len(c)) : (a \o c)[i] = IF i <= Len(a) THEN a[i] ELSE c[i - Len(a)]
    BY <1>2, <1>3, ConcatProperties, ZenonT(60)
  <2> QED BY <1>2, <1>3, <2>1
<1>5. k \in Nat /\ k = q - p
  OBVIOUS
<1> HIDE DEF l, a, c, t, k
<1>6. ASSUME NEW i \in 1..(k + n)
      PROVE  l[i] = t[i]
  <2>1. CASE i <= k
    <3>1. i \in 1..k
      BY <1>5, <2>1
    <3>2. t[i] = a[i] /\ a[i] = s[p + i] /\ l[i] = s[p + i]
      BY <1>1, <1>2, <1>4, <2>1, <3>1
    <3> QED BY <3>2
  <2>2. CASE ~ (i <= k)
    <3>1. i - k \in 1..n /\ q + (i - k) = p + i
      BY <1>5, <2>2
    <3> QED BY <1>1, <1>3, <1>4, <2>2, <3>1
  <2> QED BY <2>1, <2>2
<1>7. Len(l) = Len(t) /\ \A i \in 1..Len(l) : l[i] = t[i]
  BY <1>1, <1>4, <1>6
<1>8. l = t
  BY <1>1, <1>4, <1>7, SeqEqual
<1> QED BY <1>8 DEF l, a, c, t

(* A Read keeps the tap's promise: what a sequence of reads has handed on is
   what one read of all of it would have (sseTee.Read). *)
LEMMA TapRead ==
    ASSUME NEW B, TapInv(B), NEW n \in Nat, Read(n)
    PROVE  TapInv(B)' /\ Extends(events, events') /\ events' \in Seq(FieldsOf(B))
<1> DEFINE c == SubSeq(stream, pos + 1, pos + n)
           b == buf \o c
           s == Drained(b, events)
<1>1. /\ stream \in Seq(B) /\ pos \in 0..Len(stream) /\ base \in 0..pos
      /\ buf \in Seq(B) /\ Len(buf) <= maxEventBytes
      /\ events \in Seq(FieldsOf(B)) /\ past \in Seq(FieldsOf(B))
      /\ Len(stream) \in Nat
  BY DEF TapInv
<1>2. ~ once /\ open /\ closes = 0 /\ Drained(SinceOverflow, past) = Pair(buf, events)
  <2>1. ~ once
    BY DEF Read
  <2> QED BY <2>1 DEF TapInv
<1>3. pos + n <= Len(stream) /\ pos' = pos + n
  BY DEF Read
<1>4. stream' = stream /\ closes' = closes /\ once' = once /\ open' = open
  BY DEF Read
<1>5. c \in Seq(B) /\ b \in Seq(B)
  BY <1>1, <1>3
<1>6. pos' \in 0..Len(stream')
  BY <1>1, <1>3, <1>4
<1>7. once' \in BOOLEAN /\ open' \in BOOLEAN /\ ~ once' /\ open' /\ closes' = IF once' THEN 1 ELSE 0
  BY <1>2, <1>4 DEF TapInv
<1>8. CASE Len(b) > maxEventBytes
  <2>1. buf' = <<>> /\ base' = pos + n /\ past' = events /\ events' = events
    BY <1>8, Zenon DEF Read
  <2>2. SinceOverflow' = <<>>
    <3>1. SinceOverflow' = SubSeq(stream, (pos + n) + 1, pos + n)
      BY <1>3, <1>4, <2>1 DEF SinceOverflow
    <3> QED BY <1>1, <3>1
  <2>3. Drained(<<>>, events) = Pair(<<>>, events)
    BY <1>1, DrainedEmpty DEF Pair
  <2>4. Drained(SinceOverflow', past') = Pair(buf', events')
    BY <2>1, <2>2, <2>3
  <2>5. base' \in 0..pos'
    BY <1>1, <1>3, <2>1
  <2>6. buf' \in Seq(B) /\ Len(buf') <= maxEventBytes
    BY <2>1, SSEAssumption
  <2>7. Extends(events, events')
    BY <1>1, <2>1 DEF Extends
  <2> QED BY <1>1, <1>4, <1>6, <1>7, <2>1, <2>4, <2>5, <2>6, <2>7, Zenon DEF TapInv
<1>9. CASE ~ (Len(b) > maxEventBytes)
  <2> HIDE DEF b
  <2>1. Before(b, events) = s /\ s \in StateOf(B) /\ Extends(events, s.out) /\ Len(s.buf) <= Len(b)
    BY <1>1, <1>5, DrainAtEnd, DrainedIn, DrainedExtends, DrainedShrinks
  <2>2. buf' = Before(b, events).buf /\ events' = Before(b, events).out /\ base' = base /\ past' = past
    BY <1>9, Zenon DEF Read, b, Before
  <2> HIDE DEF s
  <2>3. buf' = s.buf /\ events' = s.out /\ s.buf \in Seq(B) /\ s.out \in Seq(FieldsOf(B))
    BY <2>1, <2>2 DEF StateOf
  <2>4. s = Pair(s.buf, s.out)
    BY <2>1 DEF StateOf, Pair
  <2>5. SinceOverflow' = SinceOverflow \o c
    <3>1. SinceOverflow' = SubSeq(stream, base + 1, pos + n)
      BY <1>3, <1>4, <2>2 DEF SinceOverflow
    <3>2. base \in Nat /\ pos \in Nat /\ base <= pos
      BY <1>1
    <3>3. SubSeq(stream, base + 1, pos + n) = SubSeq(stream, base + 1, pos) \o SubSeq(stream, pos + 1, pos + n)
      BY <1>1, <1>3, <3>2, ReadAdds
    <3> QED BY <3>1, <3>3, Zenon DEF SinceOverflow
  <2>6. Drained(SinceOverflow \o c, past) = Drained(buf \o c, events)
    <3>1. SinceOverflow \in Seq(B)
      BY SinceOverflowIn
    <3> HIDE DEF c
    <3>2. \A x \in Seq(B), y \in Seq(FieldsOf(B)) :
              Drained(x \o c, y) = Drained(Drained(x, y).buf \o c, Drained(x, y).out)
      BY <1>5, DrainedInParts
    <3>3. Drained(SinceOverflow \o c, past)
              = Drained(Drained(SinceOverflow, past).buf \o c, Drained(SinceOverflow, past).out)
      BY <1>1, <3>1, <3>2, Zenon
    <3>4. Drained(SinceOverflow, past).buf = buf /\ Drained(SinceOverflow, past).out = events
      BY <1>2 DEF Pair
    <3> QED BY <3>3, <3>4
  <2>7. Drained(SinceOverflow', past') = Pair(buf', events')
    BY <2>2, <2>3, <2>4, <2>5, <2>6 DEF s, b
  <2>8. Len(buf') <= maxEventBytes
    <3> DEFINE x == Len(b)
               y == Len(s.buf)
    <3>1. x \in Nat /\ y \in Nat /\ y <= x /\ ~ (x > maxEventBytes) /\ maxEventBytes \in Nat
      BY <1>5, <1>9, <2>1, <2>3, SSEAssumption
    <3> HIDE DEF x, y
    <3>2. y <= maxEventBytes
      BY <3>1
    <3> QED BY <2>3, <3>2 DEF y
  <2>9. base' \in 0..pos'
    BY <1>1, <1>3, <2>2
  <2>10. Extends(events, events') /\ buf' \in Seq(B) /\ events' \in Seq(FieldsOf(B)) /\ past' \in Seq(FieldsOf(B))
    BY <1>1, <2>1, <2>2, <2>3
  <2> QED BY <1>1, <1>4, <1>6, <1>7, <2>7, <2>8, <2>9, <2>10, Zenon DEF TapInv
<1> QED BY <1>8, <1>9, Zenon

(* At the end of the stream the frame that is left is handed on, once however
   often the reader asks again (sseTee.Read). *)
LEMMA TapReadErr ==
    ASSUME NEW B, TapInv(B), ReadErr
    PROVE  /\ TapInv(B)' /\ Extends(events, events') /\ events' \in Seq(FieldsOf(B))
           /\ once => events' = events
<1> DEFINE s == Drained(buf, events)
           all == SinceOverflow
<1>1. /\ stream \in Seq(B) /\ pos \in 0..Len(stream) /\ base \in 0..pos
      /\ buf \in Seq(B) /\ Len(buf) <= maxEventBytes
      /\ events \in Seq(FieldsOf(B)) /\ past \in Seq(FieldsOf(B))
      /\ once \in BOOLEAN /\ open \in BOOLEAN /\ closes = IF once THEN 1 ELSE 0
      /\ open
  BY DEF TapInv, ReadErr
<1>2. /\ pos' = pos /\ stream' = stream /\ open' = open /\ base' = base /\ past' = past
      /\ buf' = AtEnd(buf, events).buf /\ events' = AtEnd(buf, events).out
      /\ once' = TRUE /\ closes' = IF once THEN closes ELSE closes + 1
  BY DEF ReadErr, CloseOnce, AtEnd
<1>3. SinceOverflow' = all
  BY <1>2 DEF SinceOverflow
<1>4. all \in Seq(B)
  BY SinceOverflowIn
<1> HIDE DEF all
<1>5. s = Pair(buf, events)
  <2>1. CASE once
    BY <1>1, <2>1, DrainedEmpty DEF TapInv, Pair
  <2>2. CASE ~ once
    <3>1. Drained(all, past) = Pair(buf, events)
      BY <2>2 DEF TapInv, all
    <3>2. Settled(Pair(buf, events))
      BY <1>1, <1>4, <3>1, DrainedIn
    <3> QED BY <1>1, <3>2, DrainedDone DEF Pair
  <2> QED BY <2>1, <2>2
<1>6. s.buf = buf /\ s.out = events
  BY <1>5 DEF Pair
<1> DEFINE e == IF buf = <<>> THEN events ELSE dispatch(events, buf)
<1>7. buf' = <<>> /\ events' = e /\ events' \in Seq(FieldsOf(B))
  BY <1>1, <1>2, <1>6, DrainAtEnd
<1>8. events' = AtEnd(all, past).out
  <2>1. CASE once
    <3>1. buf = <<>> /\ events = AtEnd(all, past).out
      BY <1>1, <2>1 DEF TapInv, all
    <3> QED BY <1>7, <3>1
  <2>2. CASE ~ once
    <3>1. Drained(all, past) = s
      BY <1>5, <2>2 DEF TapInv, all
    <3> HIDE DEF s
    <3>2. AtEnd(all, past).out = IF s.buf = <<>> THEN s.out ELSE dispatch(s.out, s.buf)
      BY <1>1, <1>4, <3>1, DrainAtEnd
    <3> QED BY <1>6, <1>7, <3>2
  <2> QED BY <2>1, <2>2
<1>9. Extends(events, events')
  <2>1. Extends(events, events)
    BY <1>1 DEF Extends
  <2>2. Extends(events, dispatch(events, buf))
    BY <1>1, DispatchExtends
  <2> QED BY <1>7, <2>1, <2>2
<1>10. buf' \in Seq(B) /\ Len(buf') <= maxEventBytes
  BY <1>7, SSEAssumption
<1>11. closes' = IF once' THEN 1 ELSE 0
  BY <1>1, <1>2
<1>12. once' \in BOOLEAN /\ open' \in BOOLEAN /\ once' /\ base' \in 0..pos' /\ pos' \in 0..Len(stream')
  BY <1>1, <1>2
<1>13. events' = AtEnd(SinceOverflow', past').out
  BY <1>2, <1>3, <1>8
<1>14. once => events' = events
  <2>1. once => buf = <<>>
    BY <1>1 DEF TapInv
  <2> QED BY <1>7, <2>1
<1> HIDE DEF e, s
<1> QED BY <1>14, <1>1, <1>2, <1>7, <1>9, <1>10, <1>11, <1>12, <1>13, Zenon DEF TapInv

(* Close reads nothing (sseTee.Close). *)
LEMMA TapClose ==
    ASSUME NEW B, TapInv(B), Close
    PROVE  TapInv(B)' /\ events' = events
<1>1. /\ stream \in Seq(B) /\ pos \in 0..Len(stream) /\ base \in 0..pos
      /\ buf \in Seq(B) /\ Len(buf) <= maxEventBytes
      /\ events \in Seq(FieldsOf(B)) /\ past \in Seq(FieldsOf(B))
      /\ once \in BOOLEAN /\ closes = IF once THEN 1 ELSE 0
  BY DEF TapInv
<1>2. /\ pos' = pos /\ stream' = stream /\ open' = FALSE /\ base' = base /\ past' = past
      /\ buf' = buf /\ events' = events
      /\ once' = TRUE /\ closes' = IF once THEN closes ELSE closes + 1
  BY DEF Close, CloseOnce
<1>3. closes' = IF once' THEN 1 ELSE 0
  BY <1>1, <1>2
<1>4. once' \in BOOLEAN /\ open' \in BOOLEAN /\ once' /\ ~ open'
  BY <1>2, Zenon
<1> QED BY <1>1, <1>2, <1>3, <1>4, Zenon DEF TapInv
=============================================================================
