---------------------------- MODULE RecordProofs ----------------------------
(***************************************************************************)
(* What a record is filed under and priced at: that the model labels stay  *)
(* within their cap, for any number of goroutines, any finite set of model *)
(* strings and any cap; and that the price table finds the longest prefix  *)
(* and keeps the defaults, for every catalogue and order of insertion.     *)
(***************************************************************************)
EXTENDS Labels, Pricing, FiniteSetTheorems, WellFoundedInduction, TLAPS

(***************************************************************************)
(* The inductive invariant.  A goroutine at "add" or "delete" owns its key *)
(* in the map: it stored it, nobody has accepted it, and no other goroutine*)
(* owns it.  The counter counts the accepted labels and the goroutines that*)
(* are trimming; trimming only starts once cap labels are accepted.        *)
(***************************************************************************)
Owner(g) == pc[g] \in {"add", "delete"}

Shape ==
    /\ observed \subseteq LabelSet
    /\ size \in Int
    /\ pc \in [Goroutines -> Locations]
    /\ norm \in [Goroutines -> LabelSet \cup {NoLabel}]
    /\ accepted \subseteq LabelSet
    /\ emitted \subseteq LabelSet \cup {OtherLabel, NoLabel}
    /\ \A g \in Goroutines : pc[g] # "idle" => norm[g] \in LabelSet

Keys ==
    /\ observed = accepted \cup {norm[g] : g \in {h \in Goroutines : Owner(h)}}
    /\ \A g \in Goroutines : Owner(g) => norm[g] \notin accepted
    /\ \A g, h \in Goroutines :
           Owner(g) /\ Owner(h) /\ norm[g] = norm[h] => g = h

Count ==
    /\ size = Cardinality(accepted) + Cardinality(Trimming)
    /\ Cardinality(accepted) <= cap
    /\ Trimming # {} => Cardinality(accepted) = cap
    /\ OtherLabel \in emitted => Cardinality(accepted) = cap

IInv == Shape /\ Keys /\ Count

(* The cap is a positive number: NewModelLabel replaces zero and negative
   arguments by the default. *)
LEMMA CapPositive == cap \in Nat \ {0}
  BY LabelsAssumption DEF cap

(* Every label is the normal form of one of finitely many model strings. *)
LEMMA LabelsFinite == IsFiniteSet(LabelSet)
  <1> DEFINE f == [m \in Models |-> Normal(m)]
  <1>1. f \in Surjection(Models, LabelSet)
    BY DEF Surjection, LabelSet
  <1> QED
    BY <1>1, FS_Surjection, LabelsAssumption

(* Initially nothing is observed, accepted or counted. *)
LEMMA InitIInv == Init => IInv
  <1> SUFFICES ASSUME Init PROVE IInv
    OBVIOUS
  <1>1. Trimming = {} /\ accepted = {} /\ emitted = {}
    BY DEF Init, Trimming
  <1>2. Cardinality(accepted) = 0 /\ Cardinality(Trimming) = 0
    BY <1>1, FS_EmptySet
  <1>3. Shape
    BY DEF Init, Shape, Locations
  <1>4. Keys
    BY DEF Init, Keys, Owner
  <1>5. Count
    BY <1>1, <1>2, CapPositive DEF Init, Count
  <1> QED
    BY <1>3, <1>4, <1>5 DEF IInv

(* The sets that are counted are finite. *)
LEMMA CountedFinite ==
  ASSUME Shape
  PROVE  /\ IsFiniteSet(accepted) /\ Cardinality(accepted) \in Nat
         /\ IsFiniteSet(Trimming) /\ Cardinality(Trimming) \in Nat
         /\ Cardinality(Trimming) <= Cardinality(Goroutines)
         /\ Cardinality(Trimming) = 0 <=> Trimming = {}
  <1>1. IsFiniteSet(accepted)
    BY LabelsFinite, FS_Subset DEF Shape
  <1>2. IsFiniteSet(Trimming) /\ Cardinality(Trimming) <= Cardinality(Goroutines)
    <2>1. Trimming \in SUBSET Goroutines
      BY DEF Trimming
    <2> QED
      BY <2>1, LabelsAssumption, FS_Subset
  <1> QED
    BY <1>1, <1>2, FS_CardinalityType, FS_EmptySet

(* A call that neither stores, counts nor undoes anything keeps the
   invariant, provided it returns "_other" only when the cap is used up. *)
LEMMA QuietStep ==
  ASSUME IInv, NEW g \in Goroutines,
         pc[g] \notin {"add", "delete", "sub"},
         NEW l \in {"idle", "load", "sizeLoad", "store"},
         pc' = [pc EXCEPT ![g] = l],
         norm' \in [Goroutines -> LabelSet \cup {NoLabel}],
         l # "idle" => norm'[g] \in LabelSet,
         \A h \in Goroutines \ {g} : norm'[h] = norm[h],
         emitted' \subseteq emitted \cup LabelSet \cup {NoLabel, OtherLabel},
         OtherLabel \in emitted' \ emitted => Cardinality(accepted) = cap,
         UNCHANGED <<observed, size, accepted>>
  PROVE  IInv'
  <1>1. \A h \in Goroutines : Owner(h)' = Owner(h)
    BY DEF IInv, Shape, Owner
  <1>2. Trimming' = Trimming
    BY DEF IInv, Shape, Trimming
  <1>3. ~ Owner(g)
    BY DEF Owner
  <1>4. Shape'
    BY Zenon DEF IInv, Shape, Locations
  <1>5. Keys'
    <2>1. {norm'[k] : k \in {h \in Goroutines : Owner(h)'}}
            = {norm[k] : k \in {h \in Goroutines : Owner(h)}}
      BY <1>1, <1>3
    <2> QED
      BY <1>1, <1>3, <2>1 DEF IInv, Keys
  <1>6. Count'
    BY <1>2 DEF IInv, Count
  <1> QED
    BY <1>4, <1>5, <1>6 DEF IInv

(* Every atomic operation of Normalize preserves the invariant. *)
LEMMA NextIInv == IInv /\ [Next]_vars => IInv'
  <1> SUFFICES ASSUME IInv, [Next]_vars PROVE IInv'
    OBVIOUS
  <1> USE DEF Goto, Return, Step
  <1>0. /\ OtherLabel \notin LabelSet /\ NoLabel \notin LabelSet
        /\ NoLabel # OtherLabel
    BY LabelsAssumption
  <1>1. CASE UNCHANGED vars
    BY <1>1 DEF vars, IInv, Shape, Keys, Count, Owner, Trimming
  <1>2. ASSUME NEW g \in Goroutines, CallEmpty(g) PROVE IInv'
    BY <1>0, <1>2, QuietStep, Zenon DEF CallEmpty, IInv, Shape
  <1>3. ASSUME NEW g \in Goroutines, Call(g) PROVE IInv'
    <2>1. PICK model \in Models : norm' = [norm EXCEPT ![g] = Normal(model)]
      BY <1>3, Zenon DEF Call
    <2>2. Normal(model) \in LabelSet
      BY DEF LabelSet
    <2> QED
      BY <1>0, <1>3, <2>1, <2>2, QuietStep, Zenon DEF Call, IInv, Shape
  <1>4. ASSUME NEW g \in Goroutines, Load(g) PROVE IInv'
    <2>1. norm[g] \in LabelSet
      BY <1>4 DEF Load, IInv, Shape
    <2>2. CASE norm[g] \in observed
      BY <1>0, <1>4, <2>1, <2>2, QuietStep DEF Load, IInv, Shape
    <2>3. CASE norm[g] \notin observed
      BY <1>0, <1>4, <2>1, <2>3, QuietStep DEF Load, IInv, Shape
    <2> QED
      BY <2>2, <2>3
  <1>5. ASSUME NEW g \in Goroutines, SizeLoad(g) PROVE IInv'
    <2>1. norm[g] \in LabelSet
      BY <1>5 DEF SizeLoad, IInv, Shape
    <2>2. CASE size >= cap
      <3>1. Cardinality(accepted) = cap
        BY <2>2, CountedFinite, CapPositive DEF IInv, Count
      <3> QED
        BY <1>0, <1>5, <2>1, <2>2, <3>1, QuietStep DEF SizeLoad, IInv, Shape
    <2>3. CASE ~ (size >= cap)
      BY <1>0, <1>5, <2>1, <2>3, QuietStep DEF SizeLoad, IInv, Shape
    <2> QED
      BY <2>2, <2>3
  <1>6. ASSUME NEW g \in Goroutines, LoadOrStore(g) PROVE IInv'
    <2>1. norm[g] \in LabelSet
      BY <1>6 DEF LoadOrStore, IInv, Shape
    <2>2. CASE norm[g] \in observed
      <3>1. observed' = observed
        BY <1>6, <2>2 DEF LoadOrStore
      <3> QED
        BY <1>0, <1>6, <2>1, <2>2, <3>1, QuietStep DEF LoadOrStore, IInv, Shape
    <2>3. CASE norm[g] \notin observed
      <3>1. /\ pc' = [pc EXCEPT ![g] = "add"] /\ observed' = observed \cup {norm[g]}
            /\ UNCHANGED <<emitted, size, norm, accepted>>
            /\ pc[g] = "store"
        BY <1>6, <2>3 DEF LoadOrStore
      <3>2. \A h \in Goroutines : Owner(h)' = (Owner(h) \/ h = g)
        BY <3>1 DEF Owner, IInv, Shape
      <3>3. Trimming' = Trimming
        BY <3>1 DEF IInv, Shape, Trimming
      <3>4. Shape'
        BY <2>1, <3>1 DEF IInv, Shape, Locations
      <3>5. Keys'
        <4>1. {norm'[k] : k \in {h \in Goroutines : Owner(h)'}}
                = {norm[k] : k \in {h \in Goroutines : Owner(h)}} \cup {norm[g]}
          BY <3>1, <3>2, Zenon
        <4> QED
          BY <2>3, <3>1, <3>2, <4>1, Zenon DEF IInv, Keys
      <3>6. Count'
        BY <3>1, <3>3 DEF IInv, Count
      <3> QED
        BY <3>4, <3>5, <3>6 DEF IInv
    <2> QED
      BY <2>2, <2>3
  <1>7. ASSUME NEW g \in Goroutines, Add(g) PROVE IInv'
    <2>1. /\ pc[g] = "add" /\ Owner(g) /\ size' = size + 1
          /\ UNCHANGED <<observed, norm>>
          /\ norm[g] \in LabelSet /\ norm[g] \notin accepted /\ g \notin Trimming
      BY <1>7 DEF Add, Owner, IInv, Shape, Keys, Trimming
    <2>2. CASE size + 1 > cap
      <3>1. pc' = [pc EXCEPT ![g] = "delete"] /\ UNCHANGED <<emitted, accepted>>
        BY <1>7, <2>2 DEF Add
      <3>2. \A h \in Goroutines : Owner(h)' = Owner(h)
        BY <2>1, <3>1 DEF Owner, IInv, Shape
      <3>3. Trimming' = Trimming \cup {g}
        BY <2>1, <3>1 DEF IInv, Shape, Trimming
      <3>4. Shape'
        BY <2>1, <3>1 DEF IInv, Shape, Locations
      <3>5. Keys'
        BY <2>1, <3>1, <3>2 DEF IInv, Keys
      <3>6. Cardinality(Trimming') = Cardinality(Trimming) + 1
        BY <2>1, <3>3, CountedFinite, FS_AddElement, Zenon DEF IInv
      <3>7. Count'
        BY <2>1, <2>2, <3>1, <3>6, CountedFinite, CapPositive DEF IInv, Count
      <3> QED
        BY <3>4, <3>5, <3>7 DEF IInv
    <2>3. CASE ~ (size + 1 > cap)
      <3>1. /\ pc' = [pc EXCEPT ![g] = "idle"]
            /\ accepted' = accepted \cup {norm[g]}
            /\ emitted' = emitted \cup {norm[g]}
        BY <1>7, <2>3 DEF Add
      <3>2. \A h \in Goroutines : Owner(h)' = (Owner(h) /\ h # g)
        BY <2>1, <3>1 DEF Owner, IInv, Shape
      <3>3. Trimming' = Trimming
        BY <2>1, <3>1 DEF IInv, Shape, Trimming
      <3>4. Shape'
        BY <2>1, <3>1 DEF IInv, Shape, Locations
      <3>5. Keys'
        <4>1. {norm'[k] : k \in {h \in Goroutines : Owner(h)'}} \cup {norm[g]}
                = {norm[k] : k \in {h \in Goroutines : Owner(h)}}
          BY <2>1, <3>2, Zenon
        <4> QED
          BY <2>1, <3>1, <3>2, <4>1, Zenon DEF IInv, Keys
      <3>6. Cardinality(accepted') = Cardinality(accepted) + 1
        BY <2>1, <3>1, CountedFinite, FS_AddElement, Zenon DEF IInv
      <3>7. Count'
        BY <1>0, <2>1, <2>3, <3>1, <3>3, <3>6, CountedFinite, CapPositive
        DEF IInv, Count
      <3> QED
        BY <3>4, <3>5, <3>7 DEF IInv
    <2> QED
      BY <2>2, <2>3
  <1>8. ASSUME NEW g \in Goroutines, Delete(g) PROVE IInv'
    <2>1. /\ pc' = [pc EXCEPT ![g] = "sub"] /\ observed' = observed \ {norm[g]}
          /\ UNCHANGED <<emitted, size, norm, accepted>>
          /\ pc[g] = "delete"
      BY <1>8 DEF Delete
    <2>2. \A h \in Goroutines : Owner(h)' = (Owner(h) /\ h # g)
      BY <2>1 DEF Owner, IInv, Shape
    <2>3. Owner(g) /\ Trimming' = Trimming
      BY <2>1 DEF IInv, Shape, Trimming, Owner
    <2>4. Shape'
      BY <2>1 DEF IInv, Shape, Locations
    <2>5. Keys'
      <3>1. {norm'[k] : k \in {h \in Goroutines : Owner(h)'}}
              = {norm[k] : k \in {h \in Goroutines : Owner(h)}} \ {norm[g]}
        BY <2>1, <2>2, <2>3, Zenon DEF IInv, Keys
      <3> QED
        BY <2>1, <2>2, <2>3, <3>1 DEF IInv, Keys
    <2>6. Count'
      BY <2>1, <2>3 DEF IInv, Count
    <2> QED
      BY <2>4, <2>5, <2>6 DEF IInv
  <1>9. ASSUME NEW g \in Goroutines, Sub(g) PROVE IInv'
    <2>1. /\ pc' = [pc EXCEPT ![g] = "idle"] /\ size' = size - 1
          /\ emitted' = emitted \cup {OtherLabel}
          /\ UNCHANGED <<observed, norm, accepted>>
          /\ pc[g] = "sub"
      BY <1>9 DEF Sub
    <2>2. \A h \in Goroutines : Owner(h)' = Owner(h)
      BY <2>1 DEF Owner, IInv, Shape
    <2>3. g \in Trimming /\ Trimming' = Trimming \ {g}
      BY <2>1 DEF IInv, Shape, Trimming
    <2>4. Shape'
      BY <2>1 DEF IInv, Shape, Locations
    <2>5. Keys'
      BY <2>1, <2>2 DEF IInv, Keys
    <2>6. Cardinality(Trimming') = Cardinality(Trimming) - 1
      BY <2>3, CountedFinite, FS_RemoveElement, Zenon DEF IInv
    <2>7. Count'
      BY <2>1, <2>3, <2>6, CountedFinite, CapPositive DEF IInv, Count
    <2> QED
      BY <2>4, <2>5, <2>7 DEF IInv
  <1> QED
    BY <1>1, <1>2, <1>3, <1>4, <1>5, <1>6, <1>7, <1>8, <1>9 DEF Next

(* The inductive invariant implies each property: at rest nobody owns a key
   and nobody is trimming, so map and counter show the accepted labels only. *)
LEMMA IInvImplies ==
  IInv => TypeOK /\ CapAtRest /\ AcceptedStays /\ OtherOnlyWhenFull
  <1> SUFFICES ASSUME IInv
               PROVE  TypeOK /\ CapAtRest /\ AcceptedStays /\ OtherOnlyWhenFull
    OBVIOUS
  <1>1. TypeOK
    <2>1. Cardinality(Goroutines) \in Nat
      BY LabelsAssumption, FS_CardinalityType
    <2>2. size \in 0..(cap + Cardinality(Goroutines))
      BY <2>1, CountedFinite, CapPositive DEF IInv, Count
    <2> QED
      BY <2>2 DEF IInv, Shape, TypeOK
  <1>2. CapAtRest
    <2> SUFFICES ASSUME \A g \in Goroutines : pc[g] = "idle"
                 PROVE  /\ observed = accepted
                        /\ size = Cardinality(observed)
                        /\ size <= cap
      BY DEF CapAtRest
    <2>1. Trimming = {} /\ \A g \in Goroutines : ~ Owner(g)
      BY DEF Trimming, Owner
    <2>2. observed = accepted
      BY <2>1 DEF IInv, Keys
    <2> QED
      BY <2>1, <2>2, CountedFinite, CapPositive DEF IInv, Count
  <1>3. AcceptedStays
    BY DEF IInv, Keys, AcceptedStays
  <1>4. OtherOnlyWhenFull
    BY DEF IInv, Count, OtherOnlyWhenFull
  <1> QED
    BY <1>1, <1>2, <1>3, <1>4

(* Every atomic operation of every call of Normalize keeps the invariant. *)
LEMMA LabelsInvariant == Spec => []IInv
BY InitIInv, NextIInv, PTL DEF Spec

(* For any number of goroutines, model strings and any cap: when no call is in
   progress the map, the counter and the accepted labels agree and respect the
   cap (Normalize). *)
THEOREM CapKeptAtRest == Spec => []CapAtRest
<1>1. IInv => CapAtRest
  BY IInvImplies
<1> QED BY <1>1, LabelsInvariant, PTL

(* An admitted label stays in the map, whatever other calls undo (Normalize,
   its Delete). *)
THEOREM AdmittedForGood == Spec => []AcceptedStays
<1>1. IInv => AcceptedStays
  BY IInvImplies
<1> QED BY <1>1, LabelsInvariant, PTL

(* "_other" is never handed out while a place is free, however far the counter
   overshoots (both checks of Normalize). *)
THEOREM NoEarlyOverflow == Spec => []OtherOnlyWhenFull
<1>1. IInv => OtherOnlyWhenFull
  BY IInvImplies
<1> QED BY <1>1, LabelsInvariant, PTL

-----------------------------------------------------------------------------
(* A non-empty set of naturals has a least element. *)
LEMMA LeastExists ==
  ASSUME NEW S \in SUBSET Nat, S # {}
  PROVE  \E i \in S : \A j \in S : i <= j
  <1> DEFINE R == OpToRel(<, Nat)
  <1>1. IsWellFoundedOn(R, Nat)
    BY NatLessThanWellFounded, Zenon
  <1>2. \A i, j \in Nat : <<j, i>> \in R <=> j < i
    BY DEF OpToRel
  <1> HIDE DEF R
  <1>3. PICK i \in S : \A j \in S : ~ (<<j, i>> \in R)
    BY <1>1, WFMin, ZenonT(60)
  <1>4. \A j \in S : ~ (j < i)
    BY <1>2, <1>3, Zenon
  <1>5. \A j \in S : i <= j
    BY <1>4
  <1> QED
    BY <1>5
(* The longest of the prefixes that a walk has passed is one of them. *)
LEMMA MaxOfLengths ==
    ASSUME NEW n \in Nat, NEW S \in SUBSET (0..n), S # {}
    PROVE  Max(S) \in S /\ \A i \in S : i <= Max(S)
<1> DEFINE T == {n - i : i \in S}
<1>1. T \in SUBSET Nat
  OBVIOUS
<1>2. T # {}
  OBVIOUS
<1>3. PICK t \in T : \A j \in T : t <= j
  BY <1>1, <1>2, LeastExists, Zenon
<1>4. PICK i \in S : t = n - i
  BY <1>3
<1>5. \A j \in S : i >= j
  BY <1>3, <1>4
<1>6. Max(S) \in S /\ \A j \in S : Max(S) >= j
  BY <1>5, ZenonT(60) DEF Max
<1> QED BY <1>6

(* What newTable has indexed: the keys that are no longer to do, at their
   rates, each with its whole path from the root; and what it was called with *)
TableInv ==
    /\ override \in Overrides \cup {EmptyCatalogue}
    /\ file # "good" => override = EmptyCatalogue
    /\ DOMAIN rates \subseteq Entries
    /\ todo \subseteq DOMAIN rates
    /\ DOMAIN rateAt = DOMAIN rates \ todo
    /\ \A k \in DOMAIN rateAt :
           /\ rateAt[k] = rates[k]
           /\ \A i \in 0..Len(k[2]) : <<k[1], SubSeq(k[2], 1, i)>> \in nodes
    /\ phase = "load" => rates = EmptyCatalogue
    /\ phase \in {"insert", "ready"} =>
           /\ DOMAIN rates = DOMAIN override \cup DOMAIN Defaults
           /\ \A k \in DOMAIN rates :
                  rates[k] = IF k \in DOMAIN override THEN override[k] ELSE Defaults[k]
    /\ phase = "ready" => todo = {}

(* Nothing is indexed before Load has run. *)
LEMMA TableStart == TableInit => TableInv
BY DEF TableInit, TableInv, EmptyCatalogue

(* Load, every insertion in any order, and the end of newTable's loop keep the
   invariant (Load, newTable, trieNode.insert). *)
LEMMA TableStep == TableInv /\ [TableNext]_table => TableInv'
<1> SUFFICES ASSUME TableInv, [TableNext]_table
             PROVE  TableInv'
  OBVIOUS
<1>1. CASE LoadDefault
  <2>1. DOMAIN Defaults \subseteq Entries
    BY PricingAssumption
  <2>2. override = EmptyCatalogue /\ rateAt' = rateAt /\ rates' = Defaults /\ DOMAIN rateAt = {}
    BY <1>1 DEF LoadDefault, Build, TableInv, EmptyCatalogue
  <2> QED BY <1>1, <2>1, <2>2 DEF LoadDefault, Build, TableInv, EmptyCatalogue
<1>2. CASE LoadError
  BY <1>2 DEF LoadError, TableInv
<1>3. CASE LoadMerged
  <2>1. DOMAIN Defaults \subseteq Entries /\ DOMAIN override \subseteq Entries
    BY PricingAssumption, SMTT(60) DEF TableInv, EmptyCatalogue
  <2>2. rateAt' = rateAt /\ DOMAIN rateAt = {}
    BY <1>3, SMTT(60) DEF LoadMerged, Build, TableInv, EmptyCatalogue
  <2>3. /\ DOMAIN rates' = DOMAIN override \cup DOMAIN Defaults
        /\ \A k \in DOMAIN rates' :
               rates'[k] = IF k \in DOMAIN override THEN override[k] ELSE Defaults[k]
    BY <1>3 DEF LoadMerged, Build, Merged
  <2> QED BY <1>3, <2>1, <2>2, <2>3 DEF LoadMerged, Build, TableInv
<1>4. CASE Ready
  BY <1>4 DEF Ready, TableInv
<1>5. ASSUME NEW k \in Entries, insert(k)
      PROVE  TableInv'
  <2>1. rateAt' = [x \in DOMAIN rateAt \cup {k} |-> IF x = k THEN rates[k] ELSE rateAt[x]]
    BY <1>5, SMTT(60) DEF insert
  <2>2. DOMAIN rateAt' = DOMAIN rates' \ todo'
    BY <1>5, <2>1 DEF insert, TableInv
  <2>3. \A x \in DOMAIN rateAt' :
           /\ rateAt'[x] = rates'[x]
           /\ \A i \in 0..Len(x[2]) : <<x[1], SubSeq(x[2], 1, i)>> \in nodes'
    BY <1>5, <2>1 DEF insert, TableInv
  <2> QED BY <1>5, <2>2, <2>3, SMTT(60) DEF insert, TableInv
<1>6. CASE UNCHANGED table
  BY <1>6 DEF table, TableInv
<1> QED BY <1>1, <1>2, <1>3, <1>4, <1>5, <1>6 DEF TableNext

(* Reading a name byte by byte in lower case gives a string of the same length. *)
LEMMA LowerName ==
    ASSUME NEW model \in ModelNames
    PROVE  ToLower(model) \in Seq(Bytes) /\ Len(ToLower(model)) \in Nat
<1>1. PICK n \in Nat : model \in [1..n -> Bytes]
  BY DEF ModelNames, Strings
<1>2. ToLower(model) \in [1..n -> Bytes]
  BY <1>1, PricingAssumption DEF ToLower
<1> QED BY <1>2

(* The prefixes of m that are keys of the catalogue *)
Lengths(catalogue, sys, m) == {i \in 0..Len(m) : <<sys, SubSeq(m, 1, i)>> \in DOMAIN catalogue}

(* The walk over the finished trie passes every configured prefix of m and no
   other: the path to a key is in the trie, so the walk does not stop before it
   (trieNode.insert, trieNode.lookup). *)
LEMMA WalkPassesPrefixes ==
    ASSUME TableInv, phase = "ready", NEW sys, NEW m \in Seq(Bytes)
    PROVE  Passed(sys, m) = Lengths(rates, sys, m)
<1>1. DOMAIN rateAt = DOMAIN rates
  BY DEF TableInv
<1>2. ASSUME NEW i \in 0..Len(m), <<sys, SubSeq(m, 1, i)>> \in DOMAIN rates, NEW j \in 1..i
      PROVE  NodeOf(sys, m, j) \in nodes
  <2> DEFINE p == SubSeq(m, 1, i)
             k == <<sys, p>>
  <2>1. p \in Seq(Bytes) /\ Len(p) = i /\ SubSeq(p, 1, j) = SubSeq(m, 1, j)
    OBVIOUS
  <2>2. k[1] = sys /\ k[2] = p
    OBVIOUS
  <2>3. k \in DOMAIN rateAt
    BY <1>1, <1>2
  <2>4. j \in 0..Len(k[2])
    BY <2>1, <2>2
  <2>5. <<k[1], SubSeq(k[2], 1, j)>> \in nodes
    <3>1. \A x \in DOMAIN rateAt :
              \A q \in 0..Len(x[2]) : <<x[1], SubSeq(x[2], 1, q)>> \in nodes
      BY Zenon DEF TableInv
    <3> HIDE DEF k
    <3> QED BY <2>3, <2>4, <3>1, Zenon
  <2> QED BY <2>1, <2>2, <2>5 DEF NodeOf
<1> QED BY <1>1, <1>2, ZenonT(60) DEF Passed, Walk, Lengths, NodeOf

(* The rate that lookup returns is that of the longest configured prefix. *)
LEMMA LookupIsLongest ==
    ASSUME TableInv, phase = "ready", NEW sys \in Systems, NEW model \in ModelNames
    PROVE  lookup(sys, model) = LongestPrefix(rates, sys, ToLower(model))
<1> DEFINE m == ToLower(model)
           S == Lengths(rates, sys, m)
<1>1. m \in Seq(Bytes) /\ Len(m) \in Nat
  BY LowerName
<1>2. Passed(sys, m) = S
  BY <1>1, WalkPassesPrefixes
<1>3. LongestPrefix(rates, sys, m) =
        IF S = {} THEN NoRate ELSE rates[<<sys, SubSeq(m, 1, Max(S))>>]
  BY DEF LongestPrefix, Lengths
<1>4. lookup(sys, model) =
        IF S = {} THEN NoRate ELSE rateAt[<<sys, SubSeq(m, 1, Max(S))>>]
  BY <1>2 DEF lookup, NodeOf
<1>5. S # {} => <<sys, SubSeq(m, 1, Max(S))>> \in DOMAIN rates
  <2>1. S \in SUBSET (0..Len(m))
    BY DEF Lengths
  <2>2. S # {} => Max(S) \in S
    BY <1>1, <2>1, MaxOfLengths, ZenonT(60)
  <2> QED BY <2>2 DEF Lengths
<1>6. \A k \in DOMAIN rates : rateAt[k] = rates[k]
  BY DEF TableInv
<1> HIDE DEF m, S
<1>7. lookup(sys, model) = LongestPrefix(rates, sys, m)
  BY <1>3, <1>4, <1>5, <1>6
<1> QED BY <1>7 DEF m

(* Where no entry of the file is a prefix, the merged catalogue has exactly the
   defaults to offer (Load). *)
LEMMA MergeKeepsDefaults ==
    ASSUME TableInv, phase = "ready", NEW sys \in Systems, NEW model \in ModelNames,
           LongestPrefix(override, sys, ToLower(model)) = NoRate
    PROVE  LongestPrefix(rates, sys, ToLower(model)) = LongestPrefix(Defaults, sys, ToLower(model))
<1> DEFINE m == ToLower(model)
           L(c) == Lengths(c, sys, m)
<1>1. Len(m) \in Nat
  BY LowerName
<1>2. L(override) = {}
  <2> SUFFICES ASSUME L(override) # {}
               PROVE  FALSE
    OBVIOUS
  <2>1. L(override) \in SUBSET (0..Len(m))
    BY DEF Lengths
  <2>2. Max(L(override)) \in L(override)
    BY <1>1, <2>1, MaxOfLengths, ZenonT(60)
  <2> DEFINE k == <<sys, SubSeq(m, 1, Max(L(override)))>>
  <2>3. k \in DOMAIN override
    BY <2>2 DEF Lengths
  <2>4. LongestPrefix(override, sys, m) = override[k]
    BY ZenonT(60) DEF LongestPrefix, Lengths
  <2>5. override \in Overrides
    BY <2>3 DEF TableInv, EmptyCatalogue
  <2>6. override[k] # NoRate
    BY <2>3, <2>5, PricingAssumption
  <2> QED BY <2>4, <2>6
<1>3. \A i \in 0..Len(m) : <<sys, SubSeq(m, 1, i)>> \notin DOMAIN override
  BY <1>2, ZenonT(60) DEF Lengths
<1>4. L(rates) = L(Defaults)
  BY <1>3 DEF Lengths, TableInv
<1>5. \A i \in L(rates) : rates[<<sys, SubSeq(m, 1, i)>>] = Defaults[<<sys, SubSeq(m, 1, i)>>]
  BY <1>3 DEF Lengths, TableInv
<1>6. L(rates) # {} => Max(L(rates)) \in L(rates)
  <2>1. L(rates) \in SUBSET (0..Len(m))
    BY DEF Lengths
  <2> QED BY <1>1, <2>1, MaxOfLengths, ZenonT(60)
<1>7. \A c \in {rates, Defaults} : LongestPrefix(c, sys, m) =
        IF L(c) = {} THEN NoRate ELSE c[<<sys, SubSeq(m, 1, Max(L(c)))>>]
  BY DEF LongestPrefix, Lengths
<1> HIDE DEF m, L
<1>8. LongestPrefix(rates, sys, m) = LongestPrefix(Defaults, sys, m)
  BY <1>4, <1>5, <1>6, <1>7
<1> QED BY <1>8 DEF m

(* Load's merge and newTable's loop build a table that satisfies the invariant. *)
LEMMA TableInvariant == TableSpec => []TableInv
BY TableStart, TableStep, PTL DEF TableSpec

(* For every catalogue, every operator's file and every order in which
   newTable's range over the map inserts the prefixes: lookup returns the rate
   of the longest configured prefix of the lowercased model name (newTable,
   trieNode.insert, trieNode.lookup). *)
THEOREM LookupLongest == TableSpec => []LongestPrefixWins
<1>1. TableInv => LongestPrefixWins
  BY LookupIsLongest DEF LongestPrefixWins
<1> QED BY <1>1, TableInvariant, PTL

(* For every operator's file: a model that none of its entries is a prefix of
   keeps its built-in rate (Load). *)
THEOREM MergeSafe == TableSpec => []DefaultsSurvive
<1>1. TableInv => DefaultsSurvive
  BY LookupIsLongest, MergeKeepsDefaults DEF DefaultsSurvive
<1> QED BY <1>1, TableInvariant, PTL
=============================================================================
