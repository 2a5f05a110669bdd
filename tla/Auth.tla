-------------------------------- MODULE Auth --------------------------------
(***************************************************************************)
(* The bearer-token verifier of src/internal/auth/auth.go: Verifier.Verify *)
(* called by concurrent request goroutines, with its cache of recently     *)
(* verified tokens (cacheLookup, cacheStore, each under cacheMu) and its   *)
(* non-blocking semaphore around the argon2 comparison.                    *)
(*                                                                         *)
(* Tokens are plaintexts; the cache key sha256(plain) is identified with   *)
(* the plaintext.  The comparison of a plaintext with every stored hash is *)
(* the external argon2 library: it matches exactly the tokens in Allow.    *)
(***************************************************************************)
EXTENDS Integers, Sequences, FiniteSets

CONSTANTS
    Goroutines,        \* request goroutines
    Tokens,            \* plaintexts presented by callers
    Allow,             \* plaintexts whose hash is on the allow-list
    WellShaped,        \* plaintexts that pass hasValidShape
    NumCPU,            \* capacity of sem
    cacheMaxEntries,
    cacheTTL,
    NoToken,           \* a goroutine outside Verify; also the empty plaintext
    MaxTime            \* bound on the clock

NoEntry == 0           \* cache[t] = NoEntry: the map has no key t

ASSUME AuthAssumption ==
    /\ IsFiniteSet(Goroutines) /\ IsFiniteSet(Tokens)
    /\ Allow \subseteq Tokens /\ WellShaped \subseteq Tokens
    /\ NoToken \notin Tokens
    /\ NumCPU \in Nat \ {0}
    /\ cacheMaxEntries \in Nat \ {0}
    /\ cacheTTL \in Nat \ {0}
    /\ MaxTime \in Nat

VARIABLES
    now,         \* the clock, in ticks from 1
    cache,       \* token -> expiry, or NoEntry
    cacheOrder,  \* ids in insertion order, newest at the back
    sem,         \* slots of the semaphore in use
    pc, token,   \* per goroutine: place in Verify and its argument
    result       \* per goroutine: what its last call returned

authVars == <<now, cache, cacheOrder, sem, pc, token, result>>

Cached == {t \in Tokens : cache[t] # NoEntry}

VerifyLocations == {"idle", "lookup", "acquire", "argon2", "store", "release"}
Results == {"none", "ok", "no", "busy"}

Enabled == Allow # {}

NewVerifier ==
    /\ now = 1
    /\ cache = [t \in Tokens |-> NoEntry]
    /\ cacheOrder = <<>>
    /\ sem = 0
    /\ pc = [g \in Goroutines |-> "idle"]
    /\ token = [g \in Goroutines |-> NoToken]
    /\ result = [g \in Goroutines |-> "none"]

AuthInit == NewVerifier

MoveTo(g, l) == pc' = [pc EXCEPT ![g] = l]
Return(g, r) == result' = [result EXCEPT ![g] = r]

-----------------------------------------------------------------------------
(* A call with an empty plaintext, a malformed one, or with nothing on the
   allow-list ends before the cache is looked at. *)
RejectEarly(g) ==
    /\ pc[g] = "idle"
    /\ \E t \in Tokens \cup {NoToken} :
           /\ ~ Enabled \/ t = NoToken \/ t \notin WellShaped
           /\ token' = [token EXCEPT ![g] = t]
    /\ Return(g, "no")
    /\ UNCHANGED <<now, cache, cacheOrder, sem, pc>>

Call(g) ==
    /\ pc[g] = "idle"
    /\ Enabled
    /\ \E t \in WellShaped : token' = [token EXCEPT ![g] = t]
    /\ MoveTo(g, "lookup")
    /\ Return(g, "none")
    /\ UNCHANGED <<now, cache, cacheOrder, sem>>

(* now.After(expiresAt): an entry is good up to and including its expiry *)
Expired(t) == now > cache[t]

(* cacheLookup: a hit, an expired entry that is deleted, or a miss *)
CacheHit(g) ==
    /\ pc[g] = "lookup"
    /\ token[g] \in Cached /\ ~ Expired(token[g])
    /\ Return(g, "ok")
    /\ MoveTo(g, "idle")
    /\ UNCHANGED <<now, cache, cacheOrder, sem, token>>

CacheExpired(g) ==
    /\ pc[g] = "lookup"
    /\ token[g] \in Cached /\ Expired(token[g])
    /\ cache' = [cache EXCEPT ![token[g]] = NoEntry]
    /\ MoveTo(g, "acquire")
    /\ UNCHANGED <<now, cacheOrder, sem, token, result>>

CacheMiss(g) ==
    /\ pc[g] = "lookup"
    /\ token[g] \notin Cached
    /\ MoveTo(g, "acquire")
    /\ UNCHANGED <<now, cache, cacheOrder, sem, token, result>>

(* Breaks SemAccounting: one comparison too many is let in. *)
SlotFree_OffByOne == sem <= NumCPU

SlotFree == sem < NumCPU

Acquire(g) ==
    /\ pc[g] = "acquire"
    /\ SlotFree
    /\ sem' = sem + 1
    /\ MoveTo(g, "argon2")
    /\ UNCHANGED <<now, cache, cacheOrder, token, result>>

Busy(g) ==
    /\ pc[g] = "acquire"
    /\ ~ SlotFree
    /\ Return(g, "busy")
    /\ MoveTo(g, "idle")
    /\ UNCHANGED <<now, cache, cacheOrder, sem, token>>

(* Breaks CacheSound: the verdict is remembered whatever it was. *)
Compare_CachesMisses(g) ==
    /\ pc[g] = "argon2"
    /\ MoveTo(g, "store")
    /\ Return(g, IF token[g] \in Allow THEN "ok" ELSE "no")
    /\ UNCHANGED <<now, cache, cacheOrder, sem, token>>

Compare(g) ==
    /\ pc[g] = "argon2"
    /\ IF token[g] \in Allow
       THEN MoveTo(g, "store") /\ Return(g, "ok")
       ELSE MoveTo(g, "release") /\ Return(g, "no")
    /\ UNCHANGED <<now, cache, cacheOrder, sem, token>>

(***************************************************************************)
(* cacheStore.  The eviction walks cacheOrder from the front, dropping ids,*)
(* until it meets one that is still in the cache; that one is deleted.     *)
(* Present are the positions such a walk can stop at.                      *)
(***************************************************************************)
Present == {i \in DOMAIN cacheOrder : cacheOrder[i] \in Cached}
Oldest == CHOOSE i \in Present : \A j \in Present : i <= j

OrderAfterEviction ==
    IF Present = {} THEN <<>>
    ELSE SubSeq(cacheOrder, Oldest + 1, Len(cacheOrder))

(* Breaks CacheBounded: only the front id is examined, so a stale id at the
   front costs no entry its place. *)
CacheAfterEviction_FrontOnly ==
    IF cacheOrder = <<>> \/ Head(cacheOrder) \notin Cached THEN cache
    ELSE [cache EXCEPT ![Head(cacheOrder)] = NoEntry]

CacheAfterEviction ==
    IF Present = {} THEN cache
    ELSE [cache EXCEPT ![cacheOrder[Oldest]] = NoEntry]

Full == Cardinality(Cached) >= cacheMaxEntries

Refresh(g) ==
    /\ pc[g] = "store"
    /\ token[g] \in Cached
    /\ cache' = [cache EXCEPT ![token[g]] = now + cacheTTL]
    /\ MoveTo(g, "release")
    /\ UNCHANGED <<now, cacheOrder, sem, token, result>>

(* Breaks OrderCoversCache: a new entry that needed an eviction is not put
   on the order slice. *)
Insert_OrderForgotten(g) ==
    /\ pc[g] = "store"
    /\ token[g] \notin Cached
    /\ cache' = [(IF Full THEN CacheAfterEviction ELSE cache)
                    EXCEPT ![token[g]] = now + cacheTTL]
    /\ cacheOrder' = IF Full THEN OrderAfterEviction
                     ELSE Append(cacheOrder, token[g])
    /\ MoveTo(g, "release")
    /\ UNCHANGED <<now, sem, token, result>>

Insert(g) ==
    /\ pc[g] = "store"
    /\ token[g] \notin Cached
    /\ cache' = [(IF Full THEN CacheAfterEviction ELSE cache)
                    EXCEPT ![token[g]] = now + cacheTTL]
    /\ cacheOrder' = Append(IF Full THEN OrderAfterEviction ELSE cacheOrder,
                            token[g])
    /\ MoveTo(g, "release")
    /\ UNCHANGED <<now, sem, token, result>>

(* The deferred receive from sem, after cacheStore *)
Release(g) ==
    /\ pc[g] = "release"
    /\ sem' = sem - 1
    /\ MoveTo(g, "idle")
    /\ UNCHANGED <<now, cache, cacheOrder, token, result>>

Tick ==
    /\ now < MaxTime
    /\ now' = now + 1
    /\ UNCHANGED <<cache, cacheOrder, sem, pc, token, result>>

Verify(g) ==
    \/ RejectEarly(g) \/ Call(g)
    \/ CacheHit(g) \/ CacheExpired(g) \/ CacheMiss(g)
    \/ Acquire(g) \/ Busy(g) \/ Compare(g)
    \/ Refresh(g) \/ Insert(g) \/ Release(g)

AuthNext == Tick \/ \E g \in Goroutines : Verify(g)

AuthSpec == AuthInit /\ [][AuthNext]_authVars

-----------------------------------------------------------------------------
InArgon2 == {g \in Goroutines : pc[g] \in {"argon2", "store", "release"}}

(* Type invariant *)
AuthTypeOK ==
    /\ now \in Nat
    /\ cache \in [Tokens -> Nat]
    /\ cacheOrder \in Seq(Tokens)
    /\ sem \in 0..NumCPU
    /\ pc \in [Goroutines -> VerifyLocations]
    /\ token \in [Goroutines -> Tokens \cup {NoToken}]
    /\ result \in [Goroutines -> Results]

(* A token is in the cache only if argon2 matched it, and only such tokens
   are ever answered "ok": no interleaving of lookups, evictions, refreshes
   and comparisons lets one caller's verdict reach another caller's token
   (Verify, cacheLookup, cacheStore). *)
CacheSound ==
    /\ Cached \subseteq Allow
    /\ \A g \in Goroutines : result[g] = "ok" => token[g] \in Allow

(* The semaphore counts the goroutines inside the guarded region, and there
   are never more than NumCPU of them: the deferred release runs on the match
   and on the mismatch path and never on the busy path (Verify). *)
SemAccounting ==
    /\ sem = Cardinality(InArgon2)
    /\ Cardinality(InArgon2) <= NumCPU

(* The cache never holds more than cacheMaxEntries tokens, although its order
   slice keeps ids of entries that were deleted on expiry and may hold the
   same id twice (cacheStore's eviction walk). *)
CacheBounded == Cardinality(Cached) <= cacheMaxEntries

(* Every entry can be found by the eviction walk: its id is on the order
   slice (cacheStore, cacheLookup). *)
OrderCoversCache == \A t \in Cached : \E i \in DOMAIN cacheOrder : cacheOrder[i] = t

(* What the comment in cacheStore says of an entry whose TTL was refreshed:
   the next eviction passes it over, so an eviction removes an entry with the
   earliest expiry.  The walk looks at the position of the id only. *)
EvictsEarliest ==
    [][\A g \in Goroutines : Insert(g) =>
          \A t \in Cached :
              cache'[t] = NoEntry => \A u \in Cached : cache[t] <= cache[u]]_authVars

(* What the comment in cacheLookup says: the order slice is rebuilt by the
   next store, which drops ids of deleted entries.  Nothing rebuilds it, so
   an id that expired and came back is there twice. *)
OrderHasNoStaleIds ==
    [][\A g \in Goroutines : Insert(g) =>
          \A i, j \in DOMAIN cacheOrder' :
              cacheOrder'[i] = cacheOrder'[j] => i = j]_authVars
=============================================================================
