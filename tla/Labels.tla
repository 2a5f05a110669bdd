------------------------------- MODULE Labels -------------------------------
(***************************************************************************)
(* The metric-label limiter of src/internal/labels/labels.go.  Every       *)
(* request goroutine calls ModelLabel.Normalize on the model string of its *)
(* request; the calls share a sync.Map of admitted labels and an atomic    *)
(* counter, take no lock, and interleave between any two atomic operations.*)
(* One action below is one such operation.                                 *)
(***************************************************************************)
EXTENDS Integers, FiniteSets

CONSTANTS
    Goroutines,       \* request goroutines that call Normalize
    Models,           \* model strings of requests, as records (see ModelType)
    MaxCardinality,   \* argument of NewModelLabel
    DefaultMaxCardinality,
    OtherLabel,
    NoLabel           \* "no label": nothing computed yet, or the empty string

(***************************************************************************)
(* A model string is told apart by what normalisation looks at: the base   *)
(* name, whether it has upper-case letters, and how many date or version   *)
(* suffixes end it.  NoLabel stands for the empty string.                  *)
(***************************************************************************)
ModelType == [base : STRING, upper : BOOLEAN, suffixes : Nat]

cap ==
    IF MaxCardinality <= 0 THEN DefaultMaxCardinality ELSE MaxCardinality

(***************************************************************************)
(* Lower-casing forgets the case.  The suffix expression is anchored at    *)
(* the end and replaced once, so exactly one suffix goes: "m-v1-2024-08-06"*)
(* becomes "m-v1", not "m".                                                *)
(***************************************************************************)
Normal(model) ==
    [base |-> model.base,
     suffixes |-> IF model.suffixes = 0 THEN 0 ELSE model.suffixes - 1]

LabelSet == {Normal(m) : m \in Models}

ASSUME LabelsAssumption ==
    /\ IsFiniteSet(Goroutines)
    /\ IsFiniteSet(Models)
    /\ Models \subseteq ModelType
    /\ MaxCardinality \in Int
    /\ DefaultMaxCardinality \in Nat \ {0}
    /\ OtherLabel \notin LabelSet
    /\ NoLabel \notin LabelSet
    /\ NoLabel # OtherLabel

VARIABLES
    observed,   \* keys of the sync.Map
    size,       \* the atomic counter
    pc,         \* where each goroutine is inside Normalize
    norm,       \* each goroutine's local norm
    accepted,   \* history: labels whose admission passed the second check
    emitted     \* history: labels returned to a caller

vars == <<observed, size, pc, norm, accepted, emitted>>

Locations == {"idle", "load", "sizeLoad", "store", "add", "delete", "sub"}

Init ==
    /\ observed = {}
    /\ size = 0
    /\ pc = [g \in Goroutines |-> "idle"]
    /\ norm = [g \in Goroutines |-> NoLabel]
    /\ accepted = {}
    /\ emitted = {}

Goto(g, l) == pc' = [pc EXCEPT ![g] = l]

Return(g, label) ==
    /\ Goto(g, "idle")
    /\ emitted' = emitted \cup {label}

Step(g, l) ==
    /\ Goto(g, l)
    /\ UNCHANGED emitted

-----------------------------------------------------------------------------
(* Normalize, one action per atomic operation *)

CallEmpty(g) ==
    /\ pc[g] = "idle"
    /\ Return(g, NoLabel)
    /\ UNCHANGED <<observed, size, norm, accepted>>

Call(g) ==
    /\ pc[g] = "idle"
    /\ \E model \in Models : norm' = [norm EXCEPT ![g] = Normal(model)]
    /\ Step(g, "load")
    /\ UNCHANGED <<observed, size, accepted>>

Load(g) ==
    /\ pc[g] = "load"
    /\ IF norm[g] \in observed THEN Return(g, norm[g]) ELSE Step(g, "sizeLoad")
    /\ UNCHANGED <<observed, size, norm, accepted>>

SizeLoad(g) ==
    /\ pc[g] = "sizeLoad"
    /\ IF size >= cap THEN Return(g, OtherLabel) ELSE Step(g, "store")
    /\ UNCHANGED <<observed, size, norm, accepted>>

(* Breaks AcceptedStays: Store instead of LoadOrStore, so a loser of the
   race for a key also counts itself as its owner. *)
LoadOrStore_AlwaysStores(g) ==
    /\ pc[g] = "store"
    /\ Step(g, "add")
    /\ observed' = observed \cup {norm[g]}
    /\ UNCHANGED <<size, norm, accepted>>

LoadOrStore(g) ==
    /\ pc[g] = "store"
    /\ IF norm[g] \in observed THEN Return(g, norm[g]) ELSE Step(g, "add")
    /\ observed' = observed \cup {norm[g]}
    /\ UNCHANGED <<size, norm, accepted>>

(* Breaks CapAtRest: the result of Add is not checked against the cap. *)
Add_NoSecondCheck(g) ==
    /\ pc[g] = "add"
    /\ size' = size + 1
    /\ Return(g, norm[g])
    /\ accepted' = accepted \cup {norm[g]}
    /\ UNCHANGED <<observed, norm>>

(* Breaks OtherOnlyWhenFull: >= in place of > in the second check. *)
Add_AtCap(g) ==
    /\ pc[g] = "add"
    /\ size' = size + 1
    /\ IF size + 1 >= cap
       THEN Step(g, "delete") /\ UNCHANGED accepted
       ELSE Return(g, norm[g]) /\ accepted' = accepted \cup {norm[g]}
    /\ UNCHANGED <<observed, norm>>

Add(g) ==
    /\ pc[g] = "add"
    /\ size' = size + 1
    /\ IF size + 1 > cap
       THEN Step(g, "delete") /\ UNCHANGED accepted
       ELSE Return(g, norm[g]) /\ accepted' = accepted \cup {norm[g]}
    /\ UNCHANGED <<observed, norm>>

Delete(g) ==
    /\ pc[g] = "delete"
    /\ observed' = observed \ {norm[g]}
    /\ Step(g, "sub")
    /\ UNCHANGED <<size, norm, accepted>>

Sub(g) ==
    /\ pc[g] = "sub"
    /\ size' = size - 1
    /\ Return(g, OtherLabel)
    /\ UNCHANGED <<observed, norm, accepted>>

Next ==
    \E g \in Goroutines :
        \/ CallEmpty(g)
        \/ Call(g)
        \/ Load(g)
        \/ SizeLoad(g)
        \/ LoadOrStore(g)
        \/ Add(g)
        \/ Delete(g)
        \/ Sub(g)

Spec == Init /\ [][Next]_vars

-----------------------------------------------------------------------------
(* Goroutines between a failed second check and the end of its undoing *)
Trimming == {g \in Goroutines : pc[g] \in {"delete", "sub"}}

(* Type invariant: the counter never goes negative, and overshoots the cap
   by at most one per goroutine that is inside Normalize. *)
TypeOK ==
    /\ observed \subseteq LabelSet
    /\ size \in 0..(cap + Cardinality(Goroutines))
    /\ pc \in [Goroutines -> Locations]
    /\ norm \in [Goroutines -> LabelSet \cup {NoLabel}]
    /\ accepted \subseteq LabelSet
    /\ emitted \subseteq LabelSet \cup {OtherLabel, NoLabel}

(* When no call is in progress the map holds exactly the accepted labels,
   the counter is their number, and that number is within the cap: the
   check before the admission, the check after it and the undoing leave no
   trace of the races they resolve (Normalize). *)
CapAtRest ==
    (\A g \in Goroutines : pc[g] = "idle") =>
        /\ observed = accepted
        /\ size = Cardinality(observed)
        /\ size <= cap

(* A label that was admitted stays in the map: the Delete that undoes an
   overshoot never removes the entry of another goroutine, so "previously
   accepted" labels keep their name (Normalize, its Delete). *)
AcceptedStays == accepted \subseteq observed

(* OtherLabel ("_other") is only handed out once the cap is really used up: however the
   counter overshoots while others undo their admissions, no label is turned
   away while a place is free (both checks of Normalize). *)
OtherOnlyWhenFull ==
    OtherLabel \in emitted => Cardinality(accepted) = cap

(* What the README says of the limiter: at most cap distinct labels are ever
   returned.  The code bounds the labels it keeps: a label in the map only
   between LoadOrStore and Delete is returned to a caller that loads it
   there. *)
EmittedCapped == Cardinality(emitted \ {OtherLabel, NoLabel}) <= cap
=============================================================================
