------------------------------ MODULE Pricing ------------------------------
(***************************************************************************)
(* The price table of src/internal/pricing/pricing.go: Load merges an      *)
(* operator's file over the built-in catalogue and newTable indexes the    *)
(* result by a byte trie per system; lookup walks the trie.                *)
(*                                                                         *)
(* A catalogue is a function from <<system, prefix>> to a rate.  A trie    *)
(* node is the pair of its system and the bytes on its path.               *)
(***************************************************************************)
EXTENDS Integers, Sequences, FiniteSetsExt

CONSTANTS
    Systems,       \* values of gen_ai.system
    Bytes,         \* bytes of prefixes and model names
    Lower,         \* the byte strings.ToLower makes of each
    MaxPrefix,     \* bound on the length of a configured prefix
    MaxModel,      \* bound on the length of a model name
    Defaults,      \* the embedded catalogue
    Overrides      \* what an operator's file may hold: catalogues

Strings(n) == UNION {[1..k -> Bytes] : k \in 0..n}
Entries == Systems \X Strings(MaxPrefix)
ModelNames == Strings(MaxModel)
NoRate == "none"
EmptyCatalogue == [k \in {} |-> NoRate]

ASSUME PricingAssumption ==
    /\ Lower \in [Bytes -> Bytes]
    /\ \A b \in Bytes : Lower[Lower[b]] = Lower[b]
    /\ \A c \in Overrides \cup {Defaults} :
           /\ DOMAIN c \subseteq Entries
           /\ \A k \in DOMAIN c : c[k] # NoRate

VARIABLES
    file,       \* what pricing.path names: "unset", "bad" or "good"
    failOpen,
    override,   \* the entries of the file
    phase,         \* where Load is
    rates,      \* the catalogue newTable is called with
    todo,       \* keys of rates not yet inserted
    nodes,      \* the trie's nodes
    rateAt      \* the rate at each node that has one

table == <<file, failOpen, override, phase, rates, todo, nodes, rateAt>>

TableInit ==
    /\ file \in {"unset", "bad", "good"}
    /\ failOpen \in BOOLEAN
    /\ override \in IF file = "good" THEN Overrides ELSE {EmptyCatalogue}
    /\ phase = "load"
    /\ rates = EmptyCatalogue /\ todo = {} /\ nodes = {} /\ rateAt = EmptyCatalogue

-----------------------------------------------------------------------------
(* Breaks DefaultsSurvive: a system the file names loses its defaults. *)
Merged_PerSystem ==
    LET named == {k[1] : k \in DOMAIN override}
        kept == {d \in DOMAIN Defaults : d[1] \notin named}
    IN [k \in DOMAIN override \cup kept |->
           IF k \in DOMAIN override THEN override[k] ELSE Defaults[k]]

(* The clone of the defaults with the override's entries on top *)
Merged ==
    [k \in DOMAIN override \cup DOMAIN Defaults |->
        IF k \in DOMAIN override THEN override[k] ELSE Defaults[k]]

(* newTable is called: one root per system of the catalogue *)
Build(catalogue) ==
    /\ phase' = "insert"
    /\ rates' = catalogue
    /\ todo' = DOMAIN catalogue
    /\ nodes' = {<<k[1], <<>> >> : k \in DOMAIN catalogue}
    /\ UNCHANGED <<file, failOpen, override, rateAt>>

(* No file, or one that is ignored: the default table *)
LoadDefault ==
    /\ phase = "load"
    /\ file = "unset" \/ (file = "bad" /\ failOpen)
    /\ Build(Defaults)

LoadError ==
    /\ phase = "load"
    /\ file = "bad" /\ ~ failOpen
    /\ phase' = "error"
    /\ UNCHANGED <<file, failOpen, override, rates, todo, nodes, rateAt>>

LoadMerged ==
    /\ phase = "load" /\ file = "good"
    /\ Build(Merged)

(* newTable ranges over a map: the prefixes come in any order *)
insert(k) ==
    /\ phase = "insert" /\ k \in todo
    /\ todo' = todo \ {k}
    /\ nodes' = nodes \cup {<<k[1], SubSeq(k[2], 1, i)>> : i \in 0..Len(k[2])}
    /\ rateAt' = [x \in DOMAIN rateAt \cup {k} |-> IF x = k THEN rates[k] ELSE rateAt[x]]
    /\ UNCHANGED <<file, failOpen, override, phase, rates>>

Ready ==
    /\ phase = "insert" /\ todo = {}
    /\ phase' = "ready"
    /\ UNCHANGED <<file, failOpen, override, rates, todo, nodes, rateAt>>

TableNext ==
    LoadDefault \/ LoadError \/ LoadMerged \/ Ready \/ \E k \in Entries : insert(k)

TableSpec == TableInit /\ [][TableNext]_table

-----------------------------------------------------------------------------
ToLower(model) == [i \in DOMAIN model |-> Lower[model[i]]]

NodeOf(sys, m, i) == <<sys, SubSeq(m, 1, i)>>

(* The nodes of the walk from the root: it stops at the first byte without a
   child *)
Walk(sys, m) == {i \in 0..Len(m) : \A j \in 1..i : NodeOf(sys, m, j) \in nodes}

(* Breaks LongestPrefixWins: the node the walk ends on is not looked at. *)
Passed_NotLast(sys, m) ==
    {i \in Walk(sys, m) : i + 1 \in Walk(sys, m) /\ NodeOf(sys, m, i) \in DOMAIN rateAt}

(* Those with a rate, the last one included *)
Passed(sys, m) == {i \in Walk(sys, m) : NodeOf(sys, m, i) \in DOMAIN rateAt}

lookup(sys, model) ==
    LET m == ToLower(model)
    IN IF Passed(sys, m) = {} THEN NoRate
       ELSE rateAt[NodeOf(sys, m, Max(Passed(sys, m)))]

-----------------------------------------------------------------------------
(* The rate of the longest key of catalogue that is a prefix of m *)
LongestPrefix(catalogue, sys, m) ==
    LET lengths == {i \in 0..Len(m) : <<sys, SubSeq(m, 1, i)>> \in DOMAIN catalogue}
    IN IF lengths = {} THEN NoRate ELSE catalogue[<<sys, SubSeq(m, 1, Max(lengths))>>]

(* Type invariant *)
TableTypeOK ==
    /\ file \in {"unset", "bad", "good"} /\ failOpen \in BOOLEAN
    /\ phase \in {"load", "insert", "ready", "error"}
    /\ DOMAIN rates \subseteq Entries /\ todo \subseteq DOMAIN rates
    /\ nodes \subseteq Entries
    /\ DOMAIN rateAt \subseteq nodes

(* Whatever order newTable's map iteration inserts the prefixes in, the walk
   over the finished trie finds the longest configured prefix of the lowercased
   model name: nested prefixes, the empty prefix and a model name that ends
   inside the trie included (trieNode.insert, trieNode.lookup). *)
LongestPrefixWins ==
    phase = "ready" => \A sys \in Systems, model \in ModelNames :
        lookup(sys, model) = LongestPrefix(rates, sys, ToLower(model))

(* A model that no entry of the operator's file is a prefix of keeps its
   built-in rate, also in a system the file names (Load's merge). *)
DefaultsSurvive ==
    phase = "ready" => \A sys \in Systems, model \in ModelNames :
        LongestPrefix(override, sys, ToLower(model)) = NoRate =>
            lookup(sys, model) = LongestPrefix(Defaults, sys, ToLower(model))

(* What prices.yaml says of the lookup: "longest-prefix-match against the
   request/response model string".  Table.lookup lowercases the model but Load
   leaves the keys as the file spells them. *)
MatchesModelString ==
    phase = "ready" => \A sys \in Systems, model \in ModelNames :
        LongestPrefix(override, sys, model) # NoRate => lookup(sys, model) # NoRate
=============================================================================
