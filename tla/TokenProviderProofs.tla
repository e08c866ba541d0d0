------------------------ MODULE TokenProviderProofs ------------------------
(***************************************************************************)
(* Theorems about one downstream token provider, for every set of callers, *)
(* users, backends and scopes, either regime, every lifetime and any size  *)
(* of the cache:                                                           *)
(*   BoundedCorrect       the cache within its bound, its order an order   *)
(*   OneFetchCorrect      one fetch per key at a time                      *)
(*   ForeignCorrect       no token made for another user, backend, scope   *)
(*   ValidCorrect         a cached token outlives the skew less the time   *)
(*                        its own exchange took                            *)
(*   EvictionCorrect      a usable entry goes only from a full cache, and  *)
(*                        only as the least recently used                  *)
(*   RefetchCorrect       with room for all keys, waiters find the token   *)
(*   ProviderTypeCorrect  types                                            *)
(*   StrandedCorrect      nobody waits for a lock without cause            *)
(* Each rests on an inductive invariant of its own: Caching (the cache),   *)
(* Locked, OwnEntries, Timely, Missing, Recent, Awaited, Queued, Results   *)
(* and Lines, all over Calls, what a caller knows.                         *)
(***************************************************************************)
EXTENDS TokenProvider, TokenCacheProofs, SequenceTheorems

(* The parts of TypeOK the arguments need; a caller that is in token_for   *)
(* has a demand, and under OBO a token of its user.                        *)
Calls ==
    /\ now \in Nat
    /\ pc \in [Callers -> {"idle", "waiting", "discover", "post"}]
    /\ demand \in [Callers -> Demands \cup {NoDemand}]
    /\ since \in [Callers -> Nat]
    /\ \A c \in Callers : pc[c] # "idle" => demand[c] \in Demands /\ ~NoUserToken(demand[c])

LEMMA CallsInit == Init => Calls
  BY DEF Init, Calls

LEMMA CallsKept == Calls /\ [Next]_vars => Calls'
  <1> SUFFICES ASSUME Calls, [Next]_vars
               PROVE  Calls'
    OBVIOUS
  <1>1. ASSUME NEW c \in Callers, NEW d \in Demands, Ask(c, d)
        PROVE  Calls'
    <2>1. /\ demand' = [demand EXCEPT ![c] = d] /\ now' = now /\ ~NoUserToken(d)
          /\ \E p \in {"idle", "waiting", "discover", "post"} : pc' = [pc EXCEPT ![c] = p]
          /\ \/ since' = since
             \/ \E t \in {0, now} : since' = [since EXCEPT ![c] = t]
      BY <1>1 DEF Ask, HandOut, Leave, BeginFetch
    <2> QED  BY <2>1 DEF Calls
  <1>2. ASSUME NEW c \in Callers,
               Acquire(c) \/ Discovered(c) \/ Fetched(c) \/ FetchFails(c) \/ Cancelled(c)
        PROVE  Calls'
    <2>1. /\ pc[c] # "idle" /\ demand' = demand /\ now' = now
          /\ \E p \in {"idle", "waiting", "discover", "post"} : pc' = [pc EXCEPT ![c] = p]
          /\ \E t \in {0, now} : since' = [since EXCEPT ![c] = t]
      BY <1>2 DEF Acquire, Discovered, Fetched, FetchFails, Cancelled, HandOut, Leave,
                  BeginFetch, Fetching
    <2> QED  BY <2>1 DEF Calls
  <1>3. ASSUME NEW c \in Callers, NEW d \in Demands, AskRefused(c, d)
        PROVE  Calls'
    BY <1>3 DEF AskRefused, Calls
  <1>4. CASE Tick \/ UNCHANGED vars
    BY <1>4 DEF Tick, vars, callerVars, Calls
  <1> QED  BY <1>1, <1>2, <1>3, <1>4 DEF Next

(* A call that is refused touches nothing but its caller's last demand and *)
(* result.                                                                 *)
LEMMA RefusedEffect ==
    ASSUME Calls, NEW c \in Callers, NEW d \in Demands, AskRefused(c, d)
    PROVE  /\ UNCHANGED <<now, cache, endpoint, pc, since, holder, waiters, fresh, later>>
           /\ pc[c] = "idle" /\ got' = [got EXCEPT ![c] = [how |-> "raised"]]
           /\ \A o \in Callers \ {c} : demand'[o] = demand[o]
           /\ \A o \in Callers : pc[o] # "idle" => KeyOf(o)' = KeyOf(o)
           /\ \A o \in Callers : Fetching(o)' => Fetching(o) /\ o # c /\ KeyOf(o)' = KeyOf(o)
  <1>1. /\ UNCHANGED <<now, cache, endpoint, pc, since, holder, waiters, fresh, later>>
        /\ pc[c] = "idle" /\ got' = [got EXCEPT ![c] = [how |-> "raised"]]
        /\ demand' = [demand EXCEPT ![c] = d]
    BY DEF AskRefused, lockVars
  <1>2. \A o \in Callers \ {c} : demand'[o] = demand[o]
    BY <1>1 DEF Calls
  <1>3. \A o \in Callers : pc[o] # "idle" => o # c /\ KeyOf(o)' = KeyOf(o)
    BY <1>1, <1>2 DEF KeyOf
  <1> QED  BY <1>1, <1>2, <1>3 DEF Fetching

LEMMA KeyIsKey ==
    ASSUME NEW d \in Demands
    PROVE  CacheKey(d) \in Keys
  BY DEF Keys

LEMMA IssuedTyped ==
    ASSUME NEW d \in Demands, NEW dies \in Nat, NEW took \in Nat
    PROVE  Issued(d, dies, took) \in TokenType
  <1>1. d.who \in Users /\ d.backend \in Backends /\ EffectiveScope(d) \in Scopes \cup {Default}
    BY DEF Demands, EffectiveScope
  <1> QED  BY <1>1 DEF Issued, TokenType

(* A token arrives: the entry it makes, and what becomes of it.            *)
LEMMA FetchedParts ==
    ASSUME Calls, NEW c \in Callers, Fetched(c)
    PROVE  /\ pc[c] = "post" /\ demand[c] \in Demands /\ KeyOf(c) \in Keys
           /\ \E life \in Lifetimes, issued \in since[c] .. now, entry \in EntryType :
                /\ life \in Nat
                /\ entry.token = Issued(demand[c], issued + life, now - since[c])
                /\ entry.token.dies = issued + life /\ entry.token.took = now - since[c]
                /\ entry.expiry = now + life
                /\ cache' = AfterSet(cache, KeyOf(c), entry, now)
                /\ got' = [got EXCEPT ![c] = [how |-> "fetched", token |-> entry.token, at |-> now]]
                /\ fresh' = [o \in Callers |-> IF pc[o] = "waiting" /\ KeyOf(o) = KeyOf(c)
                                               THEN now + life
                                               ELSE IF o = c THEN 0 ELSE fresh[o]]
  <1>1. pc[c] = "post" /\ demand[c] \in Demands /\ KeyOf(c) \in Keys
    BY KeyIsKey DEF Fetched, Calls, KeyOf
  <1>2. PICK life \in Lifetimes, issued \in since[c] .. now :
          LET token == Issued(demand[c], issued + life, now - since[c])
          IN  /\ cache' = AfterSet(cache, KeyOf(c), [token |-> token, expiry |-> now + life], now)
              /\ got' = [got EXCEPT ![c] = [how |-> "fetched", token |-> token, at |-> now]]
              /\ fresh' = [o \in Callers |-> IF pc[o] = "waiting" /\ KeyOf(o) = KeyOf(c)
                                             THEN now + life
                                             ELSE IF o = c THEN 0 ELSE fresh[o]]
    BY DEF Fetched, HandOut, Leave
  <1>3. life \in Nat /\ issued \in Nat /\ now \in Nat /\ now - since[c] \in Nat
    BY ProviderAssumption DEF Calls
  <1> DEFINE token == Issued(demand[c], issued + life, now - since[c])
             entry == [token |-> token, expiry |-> now + life]
  <1>4. token \in TokenType /\ token.dies = issued + life /\ token.took = now - since[c]
    BY <1>1, <1>3, IssuedTyped DEF Issued
  <1>5. entry \in EntryType /\ entry.token = token /\ entry.expiry = now + life
    BY <1>3, <1>4 DEF EntryType
  <1>6. /\ cache' = AfterSet(cache, KeyOf(c), entry, now)
        /\ got' = [got EXCEPT ![c] = [how |-> "fetched", token |-> entry.token, at |-> now]]
    BY <1>2, <1>5
  <1> HIDE DEF entry
  <1> QED  BY <1>1, <1>2, <1>3, <1>4, <1>5, <1>6

-----------------------------------------------------------------------------
(* What the cache holds.                                                   *)

Caching ==
    /\ Sound(cache, Keys)
    /\ \A k \in Keys : cache.data[k] \in EntryType \cup {NoEntry}
    /\ Cardinality(Stored(cache)) <= MaxSize

LEMMA CachingInit == Init => Caching
  <1> SUFFICES ASSUME Init
               PROVE  Caching
    OBVIOUS
  <1>1. /\ cache.data = [k \in Keys |-> NoEntry] /\ cache.newer = [k \in Keys |-> {}]
        /\ PerKey(cache, Keys)
    BY DEF Init, EmptyCache, PerKey
  <1>2. DOMAIN cache.data = Keys /\ Stored(cache) = {}
    BY <1>1 DEF Stored
  <1>3. Ordered(cache)
    BY <1>1, <1>2, OrderedParts
  <1>4. IsFiniteSet({}) /\ Cardinality({}) = 0
    BY FS_EmptySet
  <1> QED  BY <1>1, <1>2, <1>3, <1>4, CacheAssumption DEF Caching, Sound

LEMMA CachingKept == Calls /\ Caching /\ [Next]_vars => Caching'
  <1> SUFFICES ASSUME Calls, Caching, [Next]_vars
               PROVE  Caching'
    OBVIOUS
  <1>1. ASSUME NEW k \in Keys, cache' = AfterGet(cache, k, now)
        PROVE  Caching'
    <2> DEFINE new == AfterGet(cache, k, now)
    <2>1. /\ Sound(new, Keys)
          /\ Stored(new) = IF Hit(cache, k, now) THEN Stored(cache) ELSE Stored(cache) \ {k}
          /\ \A x \in Keys : new.data[x] =
                             IF x = k /\ ~Hit(cache, k, now) THEN NoEntry ELSE cache.data[x]
      BY GetEffect DEF Caching
    <2>2. Stored(new) \subseteq Stored(cache) /\ IsFiniteSet(Stored(cache))
      BY <2>1 DEF Caching, Sound
    <2>3. /\ Cardinality(Stored(new)) <= Cardinality(Stored(cache))
          /\ Cardinality(Stored(new)) \in Nat /\ Cardinality(Stored(cache)) \in Nat
      BY <2>2, FS_Subset, FS_CardinalityType
    <2>4. Cardinality(Stored(new)) <= MaxSize
      BY <2>3, CacheAssumption DEF Caching
    <2>5. \A x \in Keys : new.data[x] \in EntryType \cup {NoEntry}
      BY <2>1 DEF Caching
    <2> HIDE DEF new
    <2>6. cache' = new
      BY <1>1 DEF new
    <2> QED  BY <2>1, <2>4, <2>5, <2>6 DEF Caching
  <1>2. ASSUME NEW c \in Callers, NEW d \in Demands, Ask(c, d)
        PROVE  Caching'
    BY <1>1, <1>2, KeyIsKey DEF Ask
  <1>3. ASSUME NEW c \in Callers, Acquire(c)
        PROVE  Caching'
    BY <1>1, <1>3, KeyIsKey DEF Acquire, KeyOf, Calls
  <1>4. ASSUME NEW c \in Callers, Fetched(c)
        PROVE  Caching'
    <2>1. KeyOf(c) \in Keys
      BY <1>4, FetchedParts
    <2>2. PICK entry \in EntryType : cache' = AfterSet(cache, KeyOf(c), entry, now)
      BY <1>4, FetchedParts
    <2> DEFINE new == AfterSet(cache, KeyOf(c), entry, now)
    <2>3. /\ Sound(new, Keys) /\ Cardinality(Stored(new)) <= MaxSize
          /\ \A x \in Keys : new.data[x] = IF x \notin Stored(new) THEN NoEntry
                                           ELSE IF x = KeyOf(c) THEN entry ELSE cache.data[x]
      BY <2>1, SetEffect, EntryAssumption DEF Caching
    <2>4. \A x \in Keys : new.data[x] \in EntryType \cup {NoEntry}
      BY <2>3 DEF Caching
    <2> HIDE DEF new
    <2>5. cache' = new
      BY <2>2 DEF new
    <2> QED  BY <2>3, <2>4, <2>5 DEF Caching
  <1>5. CASE UNCHANGED cache
    BY <1>5 DEF Caching
  <1> QED  BY <1>2, <1>3, <1>4, <1>5
           DEF Next, AskRefused, Discovered, FetchFails, Cancelled, Tick, vars

(* The cache never exceeds its bound and its order stays one over exactly  *)
(* what it stores, whatever is used, expires and is evicted in between.    *)
THEOREM BoundedCorrect == Spec => []BoundedCache
  <1>1. Caching => BoundedCache
    BY DEF Caching, Sound, BoundedCache
  <1> QED  BY <1>1, CallsInit, CallsKept, CachingInit, CachingKept, PTL DEF Spec

-----------------------------------------------------------------------------
(* The lock.                                                               *)

(* Whoever fetches for a key holds its lock.                               *)
Locked ==
    /\ holder \in [Keys -> Callers \cup {Nobody}]
    /\ \A c \in Callers : Fetching(c) => holder[KeyOf(c)] = c

LEMMA LockedInit == Init => Locked
  BY DEF Init, Locked, Fetching

(* A caller that takes a lock nobody holds.                                *)
LEMMA TakingKeepsLocked ==
    ASSUME Calls, Locked, NEW c \in Callers, NEW d \in Demands,
           ~Fetching(c), holder[CacheKey(d)] = Nobody,
           demand' = [demand EXCEPT ![c] = d], BeginFetch(c, CacheKey(d))
    PROVE  Locked'
  <1>1. CacheKey(d) \in Keys /\ \A o \in Callers : Nobody # o
    BY KeyIsKey, ProviderAssumption
  <1>2. holder' \in [Keys -> Callers \cup {Nobody}] /\ holder'[CacheKey(d)] = c
    BY <1>1 DEF BeginFetch, Locked
  <1>3. demand'[c] = d
    BY DEF Calls
  <1>4. ASSUME NEW o \in Callers, o # c, Fetching(o)'
        PROVE  holder'[CacheKey(demand'[o])] = o
    <2>1. Fetching(o) /\ demand'[o] = demand[o]
      BY <1>4 DEF BeginFetch, Fetching, Calls
    <2>2. holder[CacheKey(demand[o])] = o /\ CacheKey(demand[o]) \in Keys
      BY <2>1, KeyIsKey DEF Locked, KeyOf, Calls, Fetching
    <2>3. CacheKey(demand[o]) # CacheKey(d)
      BY <1>1, <2>2
    <2> QED  BY <1>1, <2>1, <2>2, <2>3 DEF BeginFetch, Locked
  <1> QED  BY <1>2, <1>3, <1>4 DEF Locked, KeyOf

(* A fetch that ends, however it ends, gives back its own lock only.       *)
LEMMA GivingKeepsLocked ==
    ASSUME Calls, Locked, NEW c \in Callers, Fetching(c), demand' = demand,
           pc' = [pc EXCEPT ![c] = "idle"], Release(KeyOf(c))
    PROVE  Locked'
  <1>1. holder[KeyOf(c)] = c /\ KeyOf(c) \in Keys
    BY KeyIsKey DEF Locked, Calls, KeyOf, Fetching
  <1>2. holder' \in [Keys -> Callers \cup {Nobody}]
    BY DEF Release, Locked
  <1>3. ASSUME NEW o \in Callers, Fetching(o)'
        PROVE  holder'[KeyOf(o)'] = o
    <2>1. o # c /\ Fetching(o) /\ KeyOf(o)' = KeyOf(o)
      BY <1>3 DEF Fetching, Calls, KeyOf
    <2>2. holder[KeyOf(o)] = o /\ KeyOf(o) \in Keys /\ KeyOf(o) # KeyOf(c)
      BY <1>1, <2>1, KeyIsKey DEF Locked, Calls, KeyOf, Fetching
    <2> QED  BY <2>1, <2>2 DEF Release, Locked
  <1> QED  BY <1>2, <1>3 DEF Locked

(* A caller that does not fetch, before or after.                          *)
LEMMA BystandersKeepLocked ==
    ASSUME Calls, Locked, NEW c \in Callers, holder' = holder,
           \A o \in Callers \ {c} : pc'[o] = pc[o] /\ demand'[o] = demand[o],
           Fetching(c)' => Fetching(c) /\ demand'[c] = demand[c]
    PROVE  Locked'
  <1>1. \A o \in Callers : Fetching(o)' => Fetching(o) /\ demand'[o] = demand[o]
    BY DEF Fetching
  <1> QED  BY <1>1 DEF Locked, KeyOf

LEMMA LockedKept == Calls /\ Locked /\ [Next]_vars => Locked'
  <1> SUFFICES ASSUME Calls, Locked, [Next]_vars
               PROVE  Locked'
    OBVIOUS
  <1>1. ASSUME NEW c \in Callers, NEW d \in Demands, Ask(c, d)
        PROVE  Locked'
    <2>1. pc[c] = "idle" /\ ~Fetching(c) /\ demand' = [demand EXCEPT ![c] = d]
      BY <1>1 DEF Ask, Fetching
    <2>2. CASE holder' = holder /\ \E p \in {"idle", "waiting"} : pc' = [pc EXCEPT ![c] = p]
      <3>1. /\ \A o \in Callers \ {c} : pc'[o] = pc[o] /\ demand'[o] = demand[o]
            /\ ~Fetching(c)'
        BY <2>1, <2>2 DEF Calls, Fetching
      <3> QED  BY <2>2, <3>1, BystandersKeepLocked
    <2>3. CASE LockFree(CacheKey(d)) /\ BeginFetch(c, CacheKey(d))
      BY <2>1, <2>3, TakingKeepsLocked DEF LockFree
    <2> QED  BY <1>1, <2>2, <2>3 DEF Ask, HandOut, Leave, lockVars
  <1>2. ASSUME NEW c \in Callers, Acquire(c)
        PROVE  Locked'
    <2>1. /\ pc[c] = "waiting" /\ ~Fetching(c) /\ demand[c] \in Demands
          /\ demand' = demand /\ demand' = [demand EXCEPT ![c] = demand[c]]
          /\ holder[CacheKey(demand[c])] = Nobody
      BY <1>2 DEF Acquire, KeyOf, Calls, Fetching
    <2>2. CASE holder' = holder /\ pc' = [pc EXCEPT ![c] = "idle"]
      <3>1. /\ \A o \in Callers \ {c} : pc'[o] = pc[o] /\ demand'[o] = demand[o]
            /\ ~Fetching(c)'
        BY <2>1, <2>2 DEF Calls, Fetching
      <3> QED  BY <2>2, <3>1, BystandersKeepLocked
    <2>3. CASE BeginFetch(c, CacheKey(demand[c]))
      BY <2>1, <2>3, TakingKeepsLocked
    <2> QED  BY <1>2, <2>2, <2>3 DEF Acquire, KeyOf, HandOut, Leave
  <1>3. ASSUME NEW c \in Callers, Fetched(c) \/ FetchFails(c) \/ (Cancelled(c) /\ Fetching(c))
        PROVE  Locked'
    <2>1. /\ Fetching(c) /\ demand' = demand /\ pc' = [pc EXCEPT ![c] = "idle"]
          /\ Release(KeyOf(c))
      BY <1>3 DEF Fetched, FetchFails, Cancelled, HandOut, Leave, Fetching
    <2> QED  BY <2>1, GivingKeepsLocked
  <1>4. ASSUME NEW c \in Callers, Discovered(c) \/ (Cancelled(c) /\ ~Fetching(c))
        PROVE  Locked'
    <2>1. /\ holder' = holder /\ demand' = demand
          /\ \A o \in Callers \ {c} : pc'[o] = pc[o]
          /\ Fetching(c)' => Fetching(c)
      BY <1>4 DEF Discovered, Cancelled, Leave, Fetching, Calls
    <2> QED  BY <2>1, BystandersKeepLocked
  <1>5. CASE Tick \/ UNCHANGED vars
    BY <1>5 DEF Tick, vars, callerVars, lockVars, Locked, Fetching, KeyOf
  <1>6. ASSUME NEW c \in Callers, NEW d \in Demands, AskRefused(c, d)
        PROVE  Locked'
    BY <1>6, RefusedEffect DEF Locked
  <1> QED  BY <1>1, <1>2, <1>3, <1>4, <1>5, <1>6 DEF Next

(* Per key, one fetch at a time, whoever fails or is cancelled.            *)
THEOREM OneFetchCorrect == Spec => []OneFetchPerKey
  <1>1. Locked => OneFetchPerKey
    BY DEF Locked, OneFetchPerKey
  <1> QED  BY <1>1, CallsInit, CallsKept, LockedInit, LockedKept, PTL DEF Spec

-----------------------------------------------------------------------------
(* get only drops entries, set adds one and _prune drops entries again: no *)
(* entry ever moves to another key.                                        *)

LEMMA GetOnlyDrops ==
    ASSUME Caching, NEW k \in Keys
    PROVE  \A x \in Keys : AfterGet(cache, k, now).data[x] \in {cache.data[x], NoEntry}
  BY GetEffect DEF Caching

LEMMA SetAddsOne ==
    ASSUME Caching, NEW k \in Keys, NEW entry \in EntryType
    PROVE  \A x \in Keys :
             \/ AfterSet(cache, k, entry, now).data[x] \in {cache.data[x], NoEntry}
             \/ x = k /\ AfterSet(cache, k, entry, now).data[x] = entry
  BY SetEffect, EntryAssumption DEF Caching

-----------------------------------------------------------------------------
(* Whose tokens.                                                           *)

(* Equal keys make equal demands, up to what the regime ignores.           *)
LEMMA KeyDeterminesFit ==
    ASSUME NEW d \in Demands, NEW e \in Demands, CacheKey(d) = CacheKey(e), NEW t, Fits(d, t)
    PROVE  Fits(e, t)
  BY ProviderAssumption DEF CacheKey, Fits

LEMMA IssuedFits ==
    ASSUME NEW d \in Demands, NEW dies, NEW took
    PROVE  Fits(d, Issued(d, dies, took))
  BY ProviderAssumption DEF Issued, Fits

(* Whatever the cache holds under a key fits every demand of that key.     *)
OwnEntries ==
    /\ \A d \in Demands :
         cache.data[CacheKey(d)] # NoEntry => Fits(d, cache.data[CacheKey(d)].token)
    /\ got = [c \in Callers |-> got[c]]
    /\ NoForeignToken

LEMMA OwnInit == Init => OwnEntries
  BY KeyIsKey DEF Init, EmptyCache, NoResult, OwnEntries, NoForeignToken

(* A step of c that hands it nothing, or a token that fits.                *)
LEMMA HandedOutFits ==
    ASSUME OwnEntries, NEW c \in Callers, NEW r, got' = [got EXCEPT ![c] = r],
           \A o \in Callers \ {c} : demand'[o] = demand[o],
           r.how \in {"hit", "fetched"} => Fits(demand'[c], r.token) /\ ~NoUserToken(demand'[c])
    PROVE  got' = [o \in Callers |-> got'[o]] /\ NoForeignToken'
  <1>1. \A o \in Callers : got'[o] = IF o = c THEN r ELSE got[o]
    BY DEF OwnEntries
  <1>2. got' = [o \in Callers |-> got'[o]]
    BY DEF OwnEntries
  <1> QED  BY <1>1, <1>2 DEF OwnEntries, NoForeignToken

LEMMA OwnKept == Calls /\ Caching /\ OwnEntries /\ [Next]_vars => OwnEntries'
  <1> SUFFICES ASSUME Calls, Caching, OwnEntries, [Next]_vars
               PROVE  OwnEntries'
    OBVIOUS
  <1> DEFINE Entries == \A d \in Demands :
               cache.data[CacheKey(d)] # NoEntry => Fits(d, cache.data[CacheKey(d)].token)
             Results == got = [c \in Callers |-> got[c]] /\ NoForeignToken
  <1>1. ASSUME NEW k \in Keys, cache' = AfterGet(cache, k, now)
        PROVE  Entries'
    BY <1>1, GetOnlyDrops, KeyIsKey DEF OwnEntries
  <1>2. ASSUME NEW d \in Demands, Hit(cache, CacheKey(d), now)
        PROVE  Fits(d, cache.data[CacheKey(d)].token)
    BY <1>2 DEF OwnEntries, Hit
  <1>3. ASSUME NEW c \in Callers, NEW d \in Demands, Ask(c, d)
        PROVE  OwnEntries'
    <2>1. demand'[c] = d /\ ~NoUserToken(d) /\ \A o \in Callers \ {c} : demand'[o] = demand[o]
      BY <1>3 DEF Ask, Calls
    <2>2. Entries'
      BY <1>1, <1>3, KeyIsKey DEF Ask
    <2>3. \/ got' = [got EXCEPT ![c] = NoResult]
          \/ /\ Hit(cache, CacheKey(d), now)
             /\ got' = [got EXCEPT ![c] = [how |-> "hit", token |-> cache.data[CacheKey(d)].token,
                                           at |-> now]]
      BY <1>3 DEF Ask, HandOut, Leave
    <2>4. NoResult.how \notin {"hit", "fetched"}
      BY DEF NoResult
    <2>5. Results'
      BY <1>2, <2>1, <2>3, <2>4, HandedOutFits
    <2> QED  BY <2>2, <2>5 DEF OwnEntries
  <1>4. ASSUME NEW c \in Callers, Acquire(c)
        PROVE  OwnEntries'
    <2>1. demand[c] \in Demands /\ demand' = demand /\ ~NoUserToken(demand[c])
      BY <1>4 DEF Acquire, Calls
    <2>2. Entries'
      BY <1>1, <1>4, <2>1, KeyIsKey DEF Acquire, KeyOf
    <2>3. \/ got' = got
          \/ /\ Hit(cache, CacheKey(demand[c]), now)
             /\ got' = [got EXCEPT ![c] =
                         [how |-> "hit", token |-> cache.data[CacheKey(demand[c])].token, at |-> now]]
      BY <1>4 DEF Acquire, HandOut, Leave, DoubleCheck, KeyOf
    <2>4. CASE got' = got
      BY <2>1, <2>2, <2>4 DEF OwnEntries, NoForeignToken
    <2>5. CASE got' # got
      <3>1. Results'
        BY <1>2, <2>1, <2>3, <2>5, HandedOutFits
      <3> QED  BY <2>2, <3>1 DEF OwnEntries
    <2> QED  BY <2>4, <2>5
  <1>5. ASSUME NEW c \in Callers, Fetched(c)
        PROVE  OwnEntries'
    <2>1. demand[c] \in Demands /\ demand' = demand /\ ~NoUserToken(demand[c])
      BY <1>5 DEF Fetched, Calls
    <2>2. PICK life \in Lifetimes, issued \in since[c] .. now, entry \in EntryType :
            /\ entry.token = Issued(demand[c], issued + life, now - since[c])
            /\ cache' = AfterSet(cache, KeyOf(c), entry, now)
            /\ got' = [got EXCEPT ![c] = [how |-> "fetched", token |-> entry.token, at |-> now]]
      BY <1>5, FetchedParts
    <2>3. Fits(demand[c], entry.token)
      BY <2>1, <2>2, IssuedFits
    <2>5. \A x \in Keys : \/ cache'.data[x] \in {cache.data[x], NoEntry}
                          \/ x = CacheKey(demand[c]) /\ cache'.data[x] = entry
      BY <2>1, <2>2, SetAddsOne, KeyIsKey DEF KeyOf
    <2>6. Entries'
      <3> SUFFICES ASSUME NEW d \in Demands, cache'.data[CacheKey(d)] # NoEntry
                   PROVE  Fits(d, cache'.data[CacheKey(d)].token)
        OBVIOUS
      <3>1. CASE cache'.data[CacheKey(d)] = cache.data[CacheKey(d)]
        BY <3>1 DEF OwnEntries
      <3>2. CASE CacheKey(d) = CacheKey(demand[c]) /\ cache'.data[CacheKey(d)] = entry
        BY <2>1, <2>3, <3>2, KeyDeterminesFit
      <3> QED  BY <2>5, <3>1, <3>2, KeyIsKey
    <2>7. Results'
      BY <2>1, <2>2, <2>3, HandedOutFits
    <2> QED  BY <2>6, <2>7 DEF OwnEntries
  <1>6. ASSUME NEW c \in Callers, FetchFails(c) \/ Cancelled(c)
        PROVE  OwnEntries'
    <2>1. /\ UNCHANGED <<cache, demand>>
          /\ \E r \in {[how |-> "raised"], NoResult} : got' = [got EXCEPT ![c] = r]
      BY <1>6 DEF FetchFails, Cancelled, Leave
    <2>2. \A r \in {[how |-> "raised"], NoResult} : r.how \notin {"hit", "fetched"}
      BY DEF NoResult
    <2>3. Results'
      BY <2>1, <2>2, HandedOutFits
    <2> QED  BY <2>1, <2>3 DEF OwnEntries
  <1>7. CASE (\E c \in Callers : Discovered(c)) \/ Tick \/ UNCHANGED vars
    <2>1. UNCHANGED <<cache, demand, got>>
      BY <1>7 DEF Discovered, Tick, callerVars, vars
    <2> QED  BY <2>1 DEF OwnEntries, NoForeignToken
  <1>8. ASSUME NEW c \in Callers, NEW d \in Demands, AskRefused(c, d)
        PROVE  OwnEntries'
    <2>1. /\ cache' = cache /\ \A o \in Callers \ {c} : demand'[o] = demand[o]
          /\ got' = [got EXCEPT ![c] = [how |-> "raised"]]
      BY <1>8, RefusedEffect
    <2>2. Results'
      BY <2>1, HandedOutFits
    <2> QED  BY <2>1, <2>2 DEF OwnEntries
  <1> QED  BY <1>3, <1>4, <1>5, <1>6, <1>7, <1>8 DEF Next

(* No caller is handed a token made for another user, backend or scope,    *)
(* whatever the lock, the clock and the bound of the cache do.             *)
THEOREM ForeignCorrect == Spec => []NoForeignToken
  <1>1. OwnEntries => NoForeignToken
    BY DEF OwnEntries
  <1> QED  BY <1>1, CallsInit, CallsKept, CachingInit, CachingKept, OwnInit, OwnKept, PTL DEF Spec

-----------------------------------------------------------------------------
(* How long a token lives.                                                 *)

Lasts(entry) ==
    /\ entry.token.dies \in Nat /\ entry.token.took \in Nat /\ entry.expiry \in Nat
    /\ entry.token.dies + entry.token.took >= entry.expiry

(* A token is issued after it was asked for, so an expiry reckoned from    *)
(* the answer is too late by what the exchange took at most.               *)
Clocks == \A c \in Callers : Fetching(c) => since[c] <= now

Timely ==
    /\ Clocks
    /\ \A k \in Keys : cache.data[k] # NoEntry => Lasts(cache.data[k])
    /\ got = [c \in Callers |-> got[c]]
    /\ HitStaysValid

LEMMA TimelyInit == Init => Timely
  BY ProviderAssumption
     DEF Init, EmptyCache, NoResult, Timely, Clocks, Fetching, HitStaysValid

LEMMA HitLasts ==
    ASSUME Calls, Timely, NEW k \in Keys, Hit(cache, k, now)
    PROVE  cache.data[k].token.dies + cache.data[k].token.took > now + Skew
  BY CacheAssumption DEF Calls, Timely, Lasts, Hit

(* A step of c that hands it nothing from the cache, or a hit.             *)
LEMMA HandedOutLasts ==
    ASSUME Timely, NEW c \in Callers, NEW r, got' = [got EXCEPT ![c] = r],
           r.how = "hit" => r.token.dies + r.token.took > r.at + Skew
    PROVE  got' = [o \in Callers |-> got'[o]] /\ HitStaysValid'
  <1>1. \A o \in Callers : got'[o] = IF o = c THEN r ELSE got[o]
    BY DEF Timely
  <1>2. got' = [o \in Callers |-> got'[o]]
    BY DEF Timely
  <1> QED  BY <1>1, <1>2 DEF Timely, HitStaysValid

(* A request starts now, or ends.                                          *)
LEMMA RequestClock ==
    ASSUME Calls, Clocks, NEW c \in Callers, now' = now,
           \A o \in Callers \ {c} : pc'[o] = pc[o],
           \/ since' = [since EXCEPT ![c] = now]
           \/ ~Fetching(c)' /\ since' = [since EXCEPT ![c] = 0]
           \/ ~Fetching(c)' /\ since' = since
    PROVE  Clocks'
  <1>1. ASSUME NEW o \in Callers, Fetching(o)'
        PROVE  since'[o] <= now
    BY <1>1 DEF Calls, Clocks, Fetching
  <1> QED  BY <1>1 DEF Clocks

LEMMA TimelyKept == Calls /\ Caching /\ Timely /\ [Next]_vars => Timely'
  <1> SUFFICES ASSUME Calls, Caching, Timely, [Next]_vars
               PROVE  Timely'
    OBVIOUS
  <1> DEFINE Entries == \A k \in Keys : cache.data[k] # NoEntry => Lasts(cache.data[k])
             Results == got = [c \in Callers |-> got[c]] /\ HitStaysValid
  <1>0. Clocks /\ Entries /\ Results /\ (Clocks' /\ Entries' /\ Results' => Timely')
    BY DEF Timely, Clocks
  <1>1. ASSUME NEW k \in Keys, cache' = AfterGet(cache, k, now)
        PROVE  Entries'
    BY <1>0, <1>1, GetOnlyDrops
  <1>2. ASSUME NEW c \in Callers, NEW d \in Demands, Ask(c, d)
        PROVE  Timely'
    <2>1. Entries'
      BY <1>1, <1>2, KeyIsKey DEF Ask
    <2>2. \/ got' = [got EXCEPT ![c] = NoResult]
          \/ /\ Hit(cache, CacheKey(d), now)
             /\ got' = [got EXCEPT ![c] = [how |-> "hit", token |-> cache.data[CacheKey(d)].token,
                                           at |-> now]]
      BY <1>2 DEF Ask, HandOut, Leave
    <2>3. Results'
      BY <2>2, HitLasts, KeyIsKey, HandedOutLasts DEF NoResult
    <2>4. Clocks'
      <3>1. /\ now' = now /\ \A o \in Callers \ {c} : pc'[o] = pc[o]
            /\ \/ since' = [since EXCEPT ![c] = now]
               \/ ~Fetching(c)' /\ since' = [since EXCEPT ![c] = 0]
               \/ ~Fetching(c)' /\ since' = since
        BY <1>2 DEF Ask, HandOut, Leave, BeginFetch, Fetching, Calls
      <3> QED  BY <1>0, <3>1, RequestClock
    <2> QED  BY <1>0, <2>1, <2>3, <2>4
  <1>3. ASSUME NEW c \in Callers, Acquire(c)
        PROVE  Timely'
    <2>1. Entries'
      BY <1>1, <1>3, KeyIsKey DEF Acquire, KeyOf, Calls
    <2>2. \/ got' = got
          \/ /\ Hit(cache, CacheKey(demand[c]), now)
             /\ got' = [got EXCEPT ![c] =
                         [how |-> "hit", token |-> cache.data[CacheKey(demand[c])].token, at |-> now]]
      BY <1>3 DEF Acquire, HandOut, Leave, DoubleCheck, KeyOf
    <2>3. demand[c] \in Demands
      BY <1>3 DEF Acquire, Calls
    <2>4. ASSUME got' = got
          PROVE  Results'
      BY <1>0, <2>4 DEF HitStaysValid
    <2>5. ASSUME got' # got
          PROVE  Results'
      BY <2>2, <2>3, <2>5, HitLasts, KeyIsKey, HandedOutLasts
    <2>6. Clocks'
      <3>1. /\ now' = now /\ \A o \in Callers \ {c} : pc'[o] = pc[o]
            /\ \/ since' = [since EXCEPT ![c] = now]
               \/ ~Fetching(c)' /\ since' = [since EXCEPT ![c] = 0]
        BY <1>3 DEF Acquire, HandOut, Leave, BeginFetch, Fetching, Calls
      <3> QED  BY <1>0, <3>1, RequestClock
    <2>7. Results'
      BY <2>4, <2>5
    <2> QED  BY <1>0, <2>1, <2>6, <2>7
  <1>4. ASSUME NEW c \in Callers, Fetched(c)
        PROVE  Timely'
    <2>1. /\ demand[c] \in Demands /\ now' = now
          /\ pc' = [pc EXCEPT ![c] = "idle"] /\ since' = [since EXCEPT ![c] = 0]
      BY <1>4 DEF Fetched, Calls, HandOut, Leave
    <2>2. PICK life \in Lifetimes, issued \in since[c] .. now, entry \in EntryType :
            /\ life \in Nat /\ entry.token.dies = issued + life /\ entry.expiry = now + life
            /\ entry.token.took = now - since[c]
            /\ cache' = AfterSet(cache, KeyOf(c), entry, now)
            /\ got' = [got EXCEPT ![c] = [how |-> "fetched", token |-> entry.token, at |-> now]]
      BY <1>4, FetchedParts
    <2>3. Lasts(entry)
      <3>1. /\ since[c] \in Nat /\ now \in Nat /\ issued \in Nat
            /\ since[c] <= now /\ since[c] <= issued
        BY <1>0, <1>4 DEF Fetched, Fetching, Calls, Clocks
      <3> QED  BY <2>2, <3>1 DEF Lasts
    <2>5. Entries'
      BY <1>0, <1>4, <2>2, <2>3, SetAddsOne, FetchedParts
    <2>6. Results'
      <3> DEFINE r == [how |-> "fetched", token |-> entry.token, at |-> now]
      <3>1. got' = [got EXCEPT ![c] = r] /\ r.how = "fetched"
        BY <2>2
      <3> HIDE DEF r
      <3> QED  BY <3>1, HandedOutLasts
    <2>7. Clocks'
      <3>1. ~Fetching(c)' /\ \A o \in Callers \ {c} : pc'[o] = pc[o]
        BY <2>1 DEF Fetching, Calls
      <3> QED  BY <1>0, <2>1, <3>1, RequestClock
    <2> QED  BY <1>0, <2>5, <2>6, <2>7
  <1>5. ASSUME NEW c \in Callers, FetchFails(c) \/ Cancelled(c)
        PROVE  Timely'
    <2>1. /\ cache' = cache /\ now' = now
          /\ pc' = [pc EXCEPT ![c] = "idle"] /\ since' = [since EXCEPT ![c] = 0]
          /\ \E r \in {[how |-> "raised"], NoResult} : got' = [got EXCEPT ![c] = r]
      BY <1>5 DEF FetchFails, Cancelled, Leave
    <2>2. \A r \in {[how |-> "raised"], NoResult} : r.how # "hit"
      BY DEF NoResult
    <2>3. Results'
      BY <2>1, <2>2, HandedOutLasts
    <2>4. ~Fetching(c)' /\ \A o \in Callers \ {c} : pc'[o] = pc[o]
      BY <2>1 DEF Fetching, Calls
    <2>5. Clocks'
      BY <1>0, <2>1, <2>4, RequestClock
    <2> QED  BY <1>0, <2>1, <2>3, <2>5
  <1>6. ASSUME NEW c \in Callers, Discovered(c)
        PROVE  Timely'
    <2>1. UNCHANGED <<cache, got, now>> /\ since' = [since EXCEPT ![c] = now]
      BY <1>6 DEF Discovered
    <2>2. \A o \in Callers \ {c} : pc'[o] = pc[o]
      BY <1>6 DEF Discovered, Calls
    <2>3. Clocks'
      BY <1>0, <2>1, <2>2, RequestClock
    <2> QED  BY <1>0, <2>1, <2>3 DEF HitStaysValid
  <1>7. CASE Tick
    <2>1. now' = now + 1 /\ UNCHANGED <<cache, got, pc, since>>
      BY <1>7 DEF Tick, callerVars
    <2>2. Clocks'
      BY <1>0, <2>1 DEF Clocks, Calls, Fetching
    <2> QED  BY <1>0, <2>1, <2>2 DEF HitStaysValid
  <1>8. CASE UNCHANGED vars
    BY <1>0, <1>8 DEF vars, Clocks, Fetching, HitStaysValid
  <1>9. ASSUME NEW c \in Callers, NEW d \in Demands, AskRefused(c, d)
        PROVE  Timely'
    <2>1. /\ UNCHANGED <<now, cache, pc, since>> /\ ~Fetching(c)'
          /\ got' = [got EXCEPT ![c] = [how |-> "raised"]]
      BY <1>9, RefusedEffect
    <2>2. Results'
      BY <2>1, HandedOutLasts
    <2>3. Clocks'
      BY <1>0, <2>1, RequestClock
    <2> QED  BY <1>0, <2>1, <2>2, <2>3
  <1> QED  BY <1>2, <1>3, <1>4, <1>5, <1>6, <1>7, <1>8, <1>9 DEF Next

(* What the cache hands out outlives Skew less the time its exchange with  *)
(* Entra took, for any lifetimes and however long exchanges take.          *)
THEOREM ValidCorrect == Spec => []HitStaysValid
  <1>1. Timely => HitStaysValid
    BY DEF Timely
  <1> QED  BY <1>1, CallsInit, CallsKept, CachingInit, CachingKept, TimelyInit, TimelyKept,
              PTL DEF Spec

-----------------------------------------------------------------------------
(* Evictions.                                                              *)

(* Nothing is stored under a key for which a token is being fetched: the   *)
(* miss that began the fetch dropped it, and only the lock's holder stores.*)
Missing == \A c \in Callers : Fetching(c) => cache.data[KeyOf(c)] = NoEntry

LEMMA MissingInit == Init => Missing
  BY DEF Init, Missing, Fetching

(* get, and possibly the start of a fetch, of a caller that has demand d.  *)
LEMMA GetKeepsMissing ==
    ASSUME Calls, Caching, Missing, NEW c \in Callers, NEW d \in Demands,
           cache' = AfterGet(cache, CacheKey(d), now), demand'[c] = d,
           \A o \in Callers \ {c} : pc'[o] = pc[o] /\ demand'[o] = demand[o],
           Fetching(c)' => ~Hit(cache, CacheKey(d), now)
    PROVE  Missing'
  <1> SUFFICES ASSUME NEW o \in Callers, Fetching(o)'
               PROVE  cache'.data[CacheKey(demand'[o])] = NoEntry
    BY DEF Missing, KeyOf
  <1>1. CacheKey(d) \in Keys
    BY KeyIsKey
  <1>2. CASE o = c
    BY <1>1, <1>2, GetEffect DEF Caching
  <1>3. CASE o # c
    <2>1. Fetching(o) /\ demand'[o] = demand[o] /\ demand[o] \in Demands
      BY <1>3 DEF Fetching, Calls
    <2>2. CacheKey(demand[o]) \in Keys /\ cache.data[CacheKey(demand[o])] = NoEntry
      BY <2>1, KeyIsKey DEF Missing, KeyOf
    <2> QED  BY <1>1, <2>1, <2>2, GetOnlyDrops
  <1> QED  BY <1>2, <1>3

LEMMA MissingKept == Calls /\ Locked /\ Caching /\ Missing /\ [Next]_vars => Missing'
  <1> SUFFICES ASSUME Calls, Locked, Caching, Missing, [Next]_vars
               PROVE  Missing'
    OBVIOUS
  <1>1. ASSUME NEW c \in Callers, NEW d \in Demands, Ask(c, d)
        PROVE  Missing'
    <2>1. /\ cache' = AfterGet(cache, CacheKey(d), now) /\ demand'[c] = d
          /\ \A o \in Callers \ {c} : pc'[o] = pc[o] /\ demand'[o] = demand[o]
          /\ Fetching(c)' => ~Hit(cache, CacheKey(d), now)
      BY <1>1 DEF Ask, HandOut, Leave, BeginFetch, Fetching, Calls
    <2> QED  BY <2>1, GetKeepsMissing
  <1>2. ASSUME NEW c \in Callers, Acquire(c)
        PROVE  Missing'
    <2>1. /\ demand[c] \in Demands /\ cache' = AfterGet(cache, CacheKey(demand[c]), now)
          /\ demand'[c] = demand[c]
          /\ \A o \in Callers \ {c} : pc'[o] = pc[o] /\ demand'[o] = demand[o]
          /\ Fetching(c)' => ~Hit(cache, CacheKey(demand[c]), now)
      BY <1>2 DEF Acquire, DoubleCheck, HandOut, Leave, BeginFetch, Fetching, Calls, KeyOf
    <2> QED  BY <2>1, GetKeepsMissing
  <1>3. ASSUME NEW c \in Callers, Fetched(c)
        PROVE  Missing'
    <2>1. PICK entry \in EntryType : cache' = AfterSet(cache, KeyOf(c), entry, now)
      BY <1>3, FetchedParts
    <2>2. Fetching(c) /\ KeyOf(c) \in Keys /\ demand' = demand /\ pc' = [pc EXCEPT ![c] = "idle"]
      BY <1>3, FetchedParts DEF Fetched, HandOut, Leave, Fetching
    <2>3. ASSUME NEW o \in Callers, Fetching(o)'
          PROVE  cache'.data[CacheKey(demand[o])] = NoEntry
      <3>1. o # c /\ Fetching(o) /\ demand[o] \in Demands
        BY <2>2, <2>3 DEF Fetching, Calls
      <3>2. KeyOf(o) # KeyOf(c) /\ KeyOf(o) \in Keys
        BY <2>2, <3>1, KeyIsKey DEF Locked, KeyOf
      <3>3. cache.data[KeyOf(o)] = NoEntry
        BY <3>1 DEF Missing
      <3>4. cache'.data[KeyOf(o)] = NoEntry
        BY <2>1, <2>2, <3>2, <3>3, SetAddsOne
      <3> QED  BY <3>4 DEF KeyOf
    <2> QED  BY <2>2, <2>3 DEF Missing, KeyOf
  <1>4. ASSUME NEW c \in Callers, Discovered(c) \/ FetchFails(c) \/ Cancelled(c)
        PROVE  Missing'
    <2>1. /\ cache' = cache /\ demand' = demand
          /\ \A o \in Callers : Fetching(o)' => Fetching(o)
      BY <1>4 DEF Discovered, FetchFails, Cancelled, Leave, Fetching, Calls
    <2> QED  BY <2>1 DEF Missing, KeyOf
  <1>5. CASE Tick \/ UNCHANGED vars
    BY <1>5 DEF Tick, vars, callerVars, Missing, Fetching, KeyOf
  <1>6. ASSUME NEW c \in Callers, NEW d \in Demands, AskRefused(c, d)
        PROVE  Missing'
    BY <1>6, RefusedEffect DEF Missing
  <1> QED  BY <1>1, <1>2, <1>3, <1>4, <1>5, <1>6 DEF Next

-----------------------------------------------------------------------------
(* The order by use.                                                       *)

(* The order of the cache is that in which tokens were handed out: newer   *)
(* than an entry are those whose tokens were handed out after its own.     *)
Recent ==
    /\ later \in [Keys -> SUBSET Keys]
    /\ \A k \in Stored(cache) : cache.newer[k] = later[k] \cap Stored(cache)

LEMMA RecentInit == Init => Recent
  BY DEF Init, EmptyCache, Stored, Recent

LEMMA StoredKeys ==
    ASSUME Caching
    PROVE  /\ Stored(cache) \subseteq Keys
           /\ \A k \in Stored(cache) : cache.newer[k] \subseteq Stored(cache) \ {k}
  <1>1. DOMAIN cache.data = Keys /\ Ordered(cache)
    BY PerKeyDomain DEF Caching, Sound
  <1>2. Stored(cache) \subseteq Keys
    BY <1>1 DEF Stored
  <1> QED  BY <1>1, <1>2, OrderedParts

(* What get and set do to the order of this cache.                         *)
LEMMA GetMoves ==
    ASSUME Sound(cache, Keys), NEW k \in Keys, NEW x \in Stored(AfterGet(cache, k, now))
    PROVE  AfterGet(cache, k, now).newer[x] =
             IF ~Hit(cache, k, now) THEN cache.newer[x] \cap Stored(AfterGet(cache, k, now))
             ELSE IF x = k THEN {} ELSE cache.newer[x] \cup {k}
  BY GetOrder

LEMMA SetMovesThese ==
    ASSUME Sound(cache, Keys), NEW k \in Keys, NEW entry, entry # NoEntry,
           NEW alive, alive = AliveWith(cache, Keys, k, entry, now)
    PROVE  LET new == AfterSet(cache, k, entry, now)
           IN  /\ Stored(new) \subseteq alive
               /\ \A x \in Stored(new) : new.newer[x] =
                    IF x = k THEN {} ELSE (cache.newer[x] \cup {k}) \cap Stored(new)
               /\ \A x \in alive \ Stored(new) : Stored(new) \ {k} \subseteq cache.newer[x]
  <1>1. SetMoves(cache, k, entry, now) /\ SetDropsOldest(cache, Keys, k, entry, now)
    BY SetOrder
  <1>2. Stored(AfterSet(cache, k, entry, now)) \subseteq alive
    BY SetEffect
  <1> QED  BY <1>1, <1>2, Zenon DEF SetMoves, SetDropsOldest

(* get of a key k, as a hit or a miss.                                     *)
LEMMA GetKeepsRecent ==
    ASSUME Caching, Recent, NEW k \in Keys, cache' = AfterGet(cache, k, now),
           \/ ~Hit(cache, k, now) /\ later' = later
           \/ /\ Hit(cache, k, now)
              /\ later' = [o \in Keys |-> IF o \in Stored(cache') \ {k}
                                          THEN (later[o] \cup {k}) \cap Stored(cache') ELSE {}]
    PROVE  Recent'
  <1>1. /\ Stored(cache) \subseteq Keys
        /\ Stored(cache') = IF Hit(cache, k, now) THEN Stored(cache) ELSE Stored(cache) \ {k}
        /\ Hit(cache, k, now) => k \in Stored(cache)
    <2>1. DOMAIN cache.data = Keys
      BY PerKeyDomain DEF Caching, Sound
    <2> QED  BY <2>1, StoredKeys, GetEffect DEF Caching, Hit, Stored
  <1>2. later' \in [Keys -> SUBSET Keys]
    BY <1>1 DEF Recent
  <1>3. ASSUME NEW x \in Stored(cache')
        PROVE  cache'.newer[x] = later'[x] \cap Stored(cache')
    <2>1. x \in Stored(cache) /\ x \in Keys /\ cache.newer[x] = later[x] \cap Stored(cache)
      BY <1>1, <1>3 DEF Recent
    <2>2. cache'.newer[x] =
            IF ~Hit(cache, k, now) THEN cache.newer[x] \cap Stored(cache')
            ELSE IF x = k THEN {} ELSE cache.newer[x] \cup {k}
      <3>1. Sound(cache, Keys)
        BY DEF Caching
      <3> QED  BY <1>3, <3>1, GetMoves
    <2> QED  BY <1>1, <2>1, <2>2
  <1> QED  BY <1>2, <1>3 DEF Recent

(* set of an entry, as its token is handed out.                            *)
LEMMA SetKeepsRecent ==
    ASSUME Caching, Recent, NEW k \in Keys, NEW entry \in EntryType,
           cache' = AfterSet(cache, k, entry, now),
           later' = [o \in Keys |-> IF o \in Stored(cache') \ {k}
                                    THEN (later[o] \cup {k}) \cap Stored(cache') ELSE {}]
    PROVE  Recent'
  <1> DEFINE alive == AliveWith(cache, Keys, k, entry, now)
  <1>1. DOMAIN cache.data = Keys /\ entry # NoEntry
    BY PerKeyDomain, EntryAssumption DEF Caching, Sound
  <1>2. /\ Stored(cache') \subseteq alive
        /\ \A x \in Stored(cache') : cache'.newer[x] =
             IF x = k THEN {} ELSE (cache.newer[x] \cup {k}) \cap Stored(cache')
    <2>1. Sound(cache, Keys)
      BY DEF Caching
    <2> QED  BY <1>1, <2>1, SetMovesThese
  <1>3. alive \subseteq Keys /\ alive \ {k} \subseteq Stored(cache)
    BY <1>1 DEF AliveWith, Stored
  <1>4. later' \in [Keys -> SUBSET Keys]
    BY <1>2, <1>3 DEF Recent
  <1> HIDE DEF alive
  <1>5. ASSUME NEW x \in Stored(cache')
        PROVE  cache'.newer[x] = later'[x] \cap Stored(cache')
    <2>1. x \in Keys
      BY <1>2, <1>3
    <2>2. CASE x = k
      BY <1>2, <2>1, <2>2
    <2>3. CASE x # k
      <3>1. cache.newer[x] = later[x] \cap Stored(cache)
        BY <1>2, <1>3, <2>3 DEF Recent
      <3>2. cache'.newer[x] = (cache.newer[x] \cup {k}) \cap Stored(cache')
        BY <1>2, <2>3
      <3>3. later'[x] = (later[x] \cup {k}) \cap Stored(cache')
        BY <2>1, <2>3
      <3>4. Stored(cache') \subseteq Stored(cache) \cup {k}
        BY <1>2, <1>3
      <3> QED  BY <3>1, <3>2, <3>3, <3>4
    <2> QED  BY <2>2, <2>3
  <1> QED  BY <1>4, <1>5 DEF Recent

LEMMA RecentKept == Calls /\ Caching /\ Recent /\ [Next]_vars => Recent'
  <1> SUFFICES ASSUME Calls, Caching, Recent, [Next]_vars
               PROVE  Recent'
    OBVIOUS
  <1>1. ASSUME NEW c \in Callers, NEW d \in Demands, Ask(c, d)
        PROVE  Recent'
    <2>1. CacheKey(d) \in Keys
      BY KeyIsKey
    <2> QED  BY <1>1, <2>1, GetKeepsRecent DEF Ask, HandOut
  <1>2. ASSUME NEW c \in Callers, Acquire(c)
        PROVE  Recent'
    <2>1. KeyOf(c) \in Keys
      BY <1>2, KeyIsKey DEF Acquire, Calls, KeyOf
    <2> QED  BY <1>2, <2>1, GetKeepsRecent DEF Acquire, DoubleCheck, HandOut
  <1>3. ASSUME NEW c \in Callers, Fetched(c)
        PROVE  Recent'
    <2>1. KeyOf(c) \in Keys
      BY <1>3, FetchedParts
    <2>2. PICK entry \in EntryType : cache' = AfterSet(cache, KeyOf(c), entry, now)
      BY <1>3, FetchedParts
    <2>3. later' = [o \in Keys |-> IF o \in Stored(cache') \ {KeyOf(c)}
                                   THEN (later[o] \cup {KeyOf(c)}) \cap Stored(cache') ELSE {}]
      BY <1>3 DEF Fetched, HandOut
    <2> QED  BY <2>1, <2>2, <2>3, SetKeepsRecent
  <1>4. CASE UNCHANGED <<cache, later>>
    BY <1>4 DEF Recent
  <1> QED  BY <1>1, <1>2, <1>3, <1>4
           DEF Next, AskRefused, Discovered, FetchFails, Cancelled, Tick, vars

-----------------------------------------------------------------------------
(* What a step that evicts leaves.                                         *)

(* A step that drops an entry that is usable.                              *)
LEMMA EvictionFills ==
    ASSUME Calls, Locked, Caching, Missing, Recent, [Next]_vars,
           NEW k \in Stored(cache), cache.data[k].expiry > now + Skew, k \notin Stored(cache')
    PROVE  /\ Cardinality(Stored(cache')) = MaxSize
           /\ \A x \in Stored(cache') : cache'.data[x].expiry > now
           /\ Stored(cache') \cap Stored(cache) \subseteq later[k]
  <1>0. /\ DOMAIN cache.data = Keys /\ k \in Keys /\ cache.data[k] # NoEntry
        /\ cache.data[k].expiry \in Nat /\ now \in Nat /\ Skew \in Nat
    BY PerKeyDomain, CacheAssumption DEF Caching, Sound, Stored, EntryType, Calls
  <1>1. cache' # cache
    OBVIOUS
  <1>2. ASSUME NEW x \in Keys
        PROVE  cache' # AfterGet(cache, x, now)
    <2>1. x = k => Hit(cache, x, now)
      BY <1>0 DEF Hit
    <2>2. k \in Stored(AfterGet(cache, x, now))
      BY <2>1, GetEffect DEF Caching
    <2> QED  BY <2>2
  <1>3. PICK c \in Callers : Fetched(c)
    BY <1>1, <1>2, KeyIsKey
       DEF Next, Ask, AskRefused, Acquire, Discovered, FetchFails, Cancelled, Tick, vars, KeyOf, Calls
  <1>4. PICK entry \in EntryType : cache' = AfterSet(cache, KeyOf(c), entry, now)
    BY <1>3, FetchedParts
  <1>5. KeyOf(c) \in Keys /\ k # KeyOf(c) /\ KeyOf(c) \notin Stored(cache)
    BY <1>0, <1>3, FetchedParts DEF Missing, Fetching, Stored
  <1> DEFINE kept == Stored(cache')
             alive == AliveWith(cache, Keys, KeyOf(c), entry, now)
  <1>6. k \in alive
    BY <1>0, <1>5 DEF AliveWith
  <1>7. /\ Sound(cache', Keys) /\ kept \subseteq alive
        /\ kept # alive => Cardinality(kept) = MaxSize
        /\ \A x \in Keys : cache'.data[x] = IF x \notin kept THEN NoEntry
                                            ELSE IF x = KeyOf(c) THEN entry ELSE cache.data[x]
    BY <1>4, <1>5, SetEffect, EntryAssumption DEF Caching
  <1>8. ASSUME NEW x \in kept
        PROVE  cache'.data[x].expiry > now
    <2>1. x \in alive /\ x \in Keys
      BY <1>7 DEF AliveWith
    <2> QED  BY <1>7, <2>1 DEF AliveWith
  <1>9. kept \cap Stored(cache) \subseteq later[k]
    <2>1. kept \ {KeyOf(c)} \subseteq cache.newer[k]
      <3>1. Sound(cache, Keys) /\ entry # NoEntry
        BY EntryAssumption DEF Caching
      <3> QED  BY <1>4, <1>5, <1>6, <3>1, SetMovesThese
    <2> QED  BY <1>5, <2>1 DEF Recent
  <1> QED  BY <1>6, <1>7, <1>8, <1>9

(* A usable entry is evicted only to make room in a cache that is left     *)
(* full of entries none of which has expired, and every one of them that   *)
(* was there before was handed out after the evicted one was.              *)
THEOREM EvictionCorrect == Spec => EvictsLeastRecent
  <1>1. Calls /\ Locked /\ Caching /\ Missing /\ Recent /\ [Next]_vars =>
          [\A k \in Stored(cache) :
             cache.data[k].expiry > now + Skew /\ k \notin Stored(cache') =>
               /\ Cardinality(Stored(cache')) = MaxSize
               /\ \A x \in Stored(cache') : cache'.data[x].expiry > now
               /\ Stored(cache') \cap Stored(cache) \subseteq later[k]]_vars
    BY EvictionFills
  <1> QED  BY <1>1, CallsInit, CallsKept, LockedInit, LockedKept, CachingInit, CachingKept,
              MissingInit, MissingKept, RecentInit, RecentKept, PTL DEF Spec, EvictsLeastRecent

-----------------------------------------------------------------------------
(* Refetches.                                                              *)

(* There is room for every key: nothing is evicted before it expires.      *)
Room == IsFiniteSet(Keys) /\ Cardinality(Keys) <= MaxSize

(* The token a caller waited for stays where the caller will look until it *)
(* is within Skew of its expiry.                                           *)
Awaited ==
    /\ fresh \in [Callers -> Nat]
    /\ \A c \in Callers : pc[c] = "idle" => fresh[c] = 0
    /\ \A c \in Callers : pc[c] = "waiting" /\ fresh[c] > now + Skew =>
         cache.data[KeyOf(c)] # NoEntry /\ cache.data[KeyOf(c)].expiry = fresh[c]
    /\ \A c \in Callers : Fetching(c) => fresh[c] <= since[c] + Skew

LEMMA AwaitedInit == Init => Awaited
  BY DEF Init, Awaited, Fetching

(* With room for every key, set drops only what has expired.               *)
LEMMA SetKeepsAlive ==
    ASSUME Room, Caching, NEW k \in Keys, NEW entry \in EntryType
    PROVE  /\ entry.expiry > now => AfterSet(cache, k, entry, now).data[k] = entry
           /\ \A x \in Keys \ {k} : cache.data[x] # NoEntry /\ cache.data[x].expiry > now =>
                AfterSet(cache, k, entry, now).data[x] = cache.data[x]
  <1> DEFINE alive == AliveWith(cache, Keys, k, entry, now)
             new == AfterSet(cache, k, entry, now)
  <1>1. alive \subseteq Keys
    BY DEF AliveWith
  <1>2. /\ Cardinality(alive) <= Cardinality(Keys)
        /\ Cardinality(alive) \in Nat /\ Cardinality(Keys) \in Nat
    BY <1>1, FS_Subset, FS_CardinalityType DEF Room
  <1>3. Cardinality(alive) <= MaxSize
    BY <1>2, CacheAssumption DEF Room
  <1>4. entry # NoEntry
    BY EntryAssumption
  <1>5. /\ Stored(new) = alive
        /\ \A x \in Keys : new.data[x] = IF x \notin Stored(new) THEN NoEntry
                                         ELSE IF x = k THEN entry ELSE cache.data[x]
    BY <1>3, <1>4, SetEffect DEF Caching
  <1>6. /\ entry.expiry > now => k \in alive
        /\ \A x \in Keys \ {k} : cache.data[x] # NoEntry /\ cache.data[x].expiry > now => x \in alive
    BY <1>4 DEF AliveWith
  <1> HIDE DEF alive, new
  <1>7. /\ entry.expiry > now => new.data[k] = entry
        /\ \A x \in Keys \ {k} : cache.data[x] # NoEntry /\ cache.data[x].expiry > now =>
             new.data[x] = cache.data[x]
    BY <1>5, <1>6
  <1> QED  BY <1>7 DEF new

(* get, and possibly the start of a fetch or of a wait, of a caller that   *)
(* has demand d.                                                           *)
LEMMA GetKeepsAwaited ==
    ASSUME Calls, Caching, Awaited, NEW c \in Callers, NEW d \in Demands,
           cache' = AfterGet(cache, CacheKey(d), now), now' = now, demand'[c] = d,
           \A o \in Callers \ {c} : /\ pc'[o] = pc[o] /\ demand'[o] = demand[o]
                                    /\ fresh'[o] = fresh[o] /\ since'[o] = since[o],
           fresh' \in [Callers -> Nat],
           pc'[c] \in {"idle", "waiting"} => fresh'[c] = 0,
           Fetching(c)' => fresh'[c] <= since'[c] + Skew
    PROVE  Awaited'
  <1>0. CacheKey(d) \in Keys /\ now \in Nat /\ Skew \in Nat
    BY KeyIsKey, CacheAssumption DEF Calls
  <1>1. ASSUME NEW o \in Callers, pc'[o] = "idle"
        PROVE  fresh'[o] = 0
    BY <1>1 DEF Awaited
  <1>2. ASSUME NEW o \in Callers, pc'[o] = "waiting", fresh'[o] > now + Skew
        PROVE  /\ cache'.data[CacheKey(demand'[o])] # NoEntry
               /\ cache'.data[CacheKey(demand'[o])].expiry = fresh'[o]
    <2>1. o # c
      BY <1>0, <1>2
    <2>2. pc[o] = "waiting" /\ demand'[o] = demand[o] /\ fresh'[o] = fresh[o] /\ demand[o] \in Demands
      BY <1>2, <2>1 DEF Calls
    <2> DEFINE k == CacheKey(demand[o])
    <2>3. k \in Keys /\ cache.data[k] # NoEntry /\ cache.data[k].expiry = fresh[o]
      BY <1>2, <2>2, KeyIsKey DEF Awaited, KeyOf
    <2>4. k = CacheKey(d) => Hit(cache, CacheKey(d), now)
      BY <1>2, <2>2, <2>3 DEF Hit
    <2>5. cache'.data[k] = cache.data[k]
      BY <1>0, <2>3, <2>4, GetEffect DEF Caching
    <2> QED  BY <2>2, <2>3, <2>5
  <1>3. ASSUME NEW o \in Callers, Fetching(o)'
        PROVE  fresh'[o] <= since'[o] + Skew
    <2>1. o # c => Fetching(o)
      BY <1>3 DEF Fetching
    <2> QED  BY <1>3, <2>1 DEF Awaited
  <1> QED  BY <1>1, <1>2, <1>3 DEF Awaited, KeyOf

(* A token arrives for some of those who wait.                             *)
LEMMA FetchedKeepsAwaited ==
    ASSUME Room, Calls, Caching, Awaited, NEW c \in Callers, Fetched(c)
    PROVE  Awaited'
  <1>1. PICK life \in Lifetimes, entry \in EntryType :
          /\ life \in Nat /\ entry.expiry = now + life
          /\ cache' = AfterSet(cache, KeyOf(c), entry, now)
          /\ fresh' = [o \in Callers |-> IF pc[o] = "waiting" /\ KeyOf(o) = KeyOf(c)
                                         THEN now + life
                                         ELSE IF o = c THEN 0 ELSE fresh[o]]
    BY FetchedParts
  <1>2. /\ pc[c] = "post" /\ KeyOf(c) \in Keys /\ now' = now /\ demand' = demand
        /\ pc' = [pc EXCEPT ![c] = "idle"] /\ since' = [since EXCEPT ![c] = 0]
        /\ now \in Nat /\ Skew \in Nat
    BY FetchedParts, CacheAssumption DEF Fetched, HandOut, Leave, Calls
  <1>3. fresh' \in [Callers -> Nat]
    BY <1>1, <1>2 DEF Awaited
  <1>4. ASSUME NEW o \in Callers, pc'[o] = "idle"
        PROVE  fresh'[o] = 0
    BY <1>1, <1>2, <1>4 DEF Awaited, Calls
  <1>5. ASSUME NEW o \in Callers, pc'[o] = "waiting", fresh'[o] > now + Skew
        PROVE  cache'.data[KeyOf(o)] # NoEntry /\ cache'.data[KeyOf(o)].expiry = fresh'[o]
    <2>1. o # c /\ pc[o] = "waiting" /\ KeyOf(o) \in Keys
      BY <1>2, <1>5, KeyIsKey DEF Calls, KeyOf
    <2>2. CASE KeyOf(o) = KeyOf(c)
      <3>1. fresh'[o] = entry.expiry /\ entry.expiry > now
        BY <1>1, <1>2, <1>5, <2>1, <2>2
      <3>2. cache'.data[KeyOf(o)] = entry
        BY <1>1, <1>2, <2>2, <3>1, SetKeepsAlive
      <3> QED  BY <3>1, <3>2, EntryAssumption
    <2>3. CASE KeyOf(o) # KeyOf(c)
      <3>1. fresh'[o] = fresh[o] /\ fresh[o] \in Nat
        BY <1>1, <2>1, <2>3 DEF Awaited
      <3>2. cache.data[KeyOf(o)] # NoEntry /\ cache.data[KeyOf(o)].expiry = fresh[o]
        BY <1>5, <2>1, <3>1 DEF Awaited
      <3>3. cache.data[KeyOf(o)].expiry > now
        BY <1>2, <1>5, <3>1, <3>2
      <3>4. cache'.data[KeyOf(o)] = cache.data[KeyOf(o)]
        BY <1>1, <1>2, <2>1, <2>3, <3>2, <3>3, SetKeepsAlive
      <3> QED  BY <3>1, <3>2, <3>4
    <2> QED  BY <2>2, <2>3
  <1>6. ASSUME NEW o \in Callers, Fetching(o)'
        PROVE  fresh'[o] <= since'[o] + Skew
    BY <1>1, <1>2, <1>6 DEF Awaited, Calls, Fetching
  <1> QED  BY <1>2, <1>3, <1>4, <1>5, <1>6 DEF Awaited, KeyOf

LEMMA AwaitedKept ==
    ASSUME Room
    PROVE  Calls /\ Caching /\ Clocks /\ Awaited /\ [Next]_vars => Awaited'
  <1> SUFFICES ASSUME Calls, Caching, Clocks, Awaited, [Next]_vars
               PROVE  Awaited'
    OBVIOUS
  <1>0. now \in Nat /\ Skew \in Nat
    BY CacheAssumption DEF Calls
  <1>1. ASSUME NEW c \in Callers, NEW d \in Demands, Ask(c, d)
        PROVE  Awaited'
    <2>1. /\ cache' = AfterGet(cache, CacheKey(d), now) /\ now' = now /\ fresh' = fresh
          /\ demand'[c] = d /\ pc[c] = "idle"
          /\ \A o \in Callers \ {c} : pc'[o] = pc[o] /\ demand'[o] = demand[o] /\ since'[o] = since[o]
          /\ since'[c] \in Nat
      BY <1>1 DEF Ask, HandOut, Leave, BeginFetch, Calls
    <2>2. fresh[c] = 0
      BY <2>1 DEF Awaited
    <2>3. Fetching(c)' => fresh'[c] <= since'[c] + Skew
      BY <1>0, <2>1, <2>2
    <2>4. fresh' \in [Callers -> Nat]
      BY <2>1 DEF Awaited
    <2> QED  BY <2>1, <2>2, <2>3, <2>4, GetKeepsAwaited
  <1>2. ASSUME NEW c \in Callers, Acquire(c)
        PROVE  Awaited'
    <2>1. /\ demand[c] \in Demands /\ cache' = AfterGet(cache, CacheKey(demand[c]), now)
          /\ now' = now /\ demand' = demand /\ pc[c] = "waiting"
          /\ \A o \in Callers \ {c} : pc'[o] = pc[o] /\ since'[o] = since[o]
      BY <1>2 DEF Acquire, HandOut, Leave, BeginFetch, Calls, KeyOf
    <2>2. CASE pc' = [pc EXCEPT ![c] = "idle"] /\ fresh' = [fresh EXCEPT ![c] = 0]
      <3>1. /\ \A o \in Callers \ {c} : fresh'[o] = fresh[o]
            /\ fresh' \in [Callers -> Nat] /\ fresh'[c] = 0 /\ ~Fetching(c)'
        BY <2>2 DEF Awaited, Fetching, Calls
      <3> QED  BY <2>1, <3>1, GetKeepsAwaited
    <2>3. CASE ~Hit(cache, CacheKey(demand[c]), now) /\ BeginFetch(c, CacheKey(demand[c])) /\ fresh' = fresh
      <3>1. fresh[c] \in Nat /\ fresh[c] <= now + Skew
        BY <1>0, <2>1, <2>3 DEF Awaited, Hit, KeyOf
      <3>2. Fetching(c)' /\ pc'[c] \notin {"idle", "waiting"} /\ since'[c] = now
        BY <2>3 DEF BeginFetch, Fetching, Calls
      <3>3. fresh' \in [Callers -> Nat]
        BY <2>3 DEF Awaited
      <3> QED  BY <2>1, <2>3, <3>1, <3>2, <3>3, GetKeepsAwaited
    <2> QED  BY <1>2, <2>2, <2>3 DEF Acquire, DoubleCheck, HandOut, Leave, Forget, KeyOf
  <1>3. ASSUME NEW c \in Callers, Fetched(c)
        PROVE  Awaited'
    BY <1>3, FetchedKeepsAwaited
  <1>4. ASSUME NEW c \in Callers, FetchFails(c) \/ Cancelled(c)
        PROVE  Awaited'
    <2>1. /\ cache' = cache /\ now' = now /\ demand' = demand
          /\ pc' = [pc EXCEPT ![c] = "idle"] /\ since' = [since EXCEPT ![c] = 0]
          /\ fresh' = [fresh EXCEPT ![c] = 0]
      BY <1>4 DEF FetchFails, Cancelled, Leave, Forget
    <2> QED  BY <2>1 DEF Awaited, Calls, Fetching, KeyOf
  <1>5. ASSUME NEW c \in Callers, Discovered(c)
        PROVE  Awaited'
    <2>1. /\ pc[c] = "discover" /\ pc' = [pc EXCEPT ![c] = "post"]
          /\ since' = [since EXCEPT ![c] = now] /\ UNCHANGED <<now, cache, demand, fresh>>
      BY <1>5 DEF Discovered
    <2>2. fresh[c] <= since[c] + Skew /\ since[c] <= now /\ since[c] \in Nat /\ fresh[c] \in Nat
      BY <2>1 DEF Awaited, Clocks, Fetching, Calls
    <2>3. fresh[c] <= now + Skew
      BY <1>0, <2>2
    <2> QED  BY <2>1, <2>3 DEF Awaited, Calls, Fetching, KeyOf
  <1>6. CASE Tick
    <2>1. now' = now + 1 /\ UNCHANGED <<cache, pc, demand, since, fresh>>
      BY <1>6 DEF Tick, callerVars
    <2> QED  BY <1>0, <2>1 DEF Awaited, Fetching, KeyOf
  <1>7. CASE UNCHANGED vars
    BY <1>7 DEF vars, Awaited, Fetching, KeyOf
  <1>8. ASSUME NEW c \in Callers, NEW d \in Demands, AskRefused(c, d)
        PROVE  Awaited'
    BY <1>8, RefusedEffect DEF Awaited
  <1> QED  BY <1>1, <1>2, <1>3, <1>4, <1>5, <1>6, <1>7, <1>8 DEF Next

(* With room for every key, a caller that waited while another fetched for *)
(* its key reaches Entra itself only if that token was within Skew of its  *)
(* expiry when the caller got to look.                                     *)
THEOREM RefetchCorrect ==
    ASSUME Room
    PROVE  Spec => []OnlyFirstReachesEntra
  <1>1. Awaited => OnlyFirstReachesEntra
    BY DEF Awaited, OnlyFirstReachesEntra
  <1>2. Timely => Clocks
    BY DEF Timely
  <1>3. Calls /\ Caching /\ Clocks /\ Awaited /\ [Next]_vars => Awaited'
    BY AwaitedKept
  <1> QED  BY <1>1, <1>2, <1>3, CallsInit, CallsKept, CachingInit, CachingKept, TimelyInit, TimelyKept,
              AwaitedInit, PTL DEF Spec

-----------------------------------------------------------------------------
(* Types.  Tail is a sequence only of a queue that is not empty: whoever   *)
(* waits is in the queue of its key.                                       *)

Occurs(x, s) == \E i \in DOMAIN s : s[i] = x

LEMMA AppendOccurs ==
    ASSUME NEW S, NEW s \in Seq(S), NEW e \in S
    PROVE  /\ Append(s, e) \in Seq(S) /\ Occurs(e, Append(s, e))
           /\ \A x : Occurs(x, s) => Occurs(x, Append(s, e))
  <1>1. /\ Append(s, e) \in Seq(S) /\ Len(s) \in Nat /\ Len(Append(s, e)) = Len(s) + 1
        /\ DOMAIN s = 1..Len(s) /\ DOMAIN Append(s, e) = 1..(Len(s) + 1)
        /\ Append(s, e)[Len(s) + 1] = e
        /\ \A i \in 1..Len(s) : Append(s, e)[i] = s[i]
    OBVIOUS
  <1>2. Len(s) + 1 \in DOMAIN Append(s, e) /\ \A i \in DOMAIN s : i \in DOMAIN Append(s, e)
    BY <1>1
  <1> QED  BY <1>1, <1>2 DEF Occurs

LEMMA TailOccurs ==
    ASSUME NEW S, NEW s \in Seq(S), NEW e, Occurs(e, s)
    PROVE  /\ Tail(s) \in Seq(S)
           /\ \A x : x # Head(s) /\ Occurs(x, s) => Occurs(x, Tail(s))
  <1>1. s # <<>>
    BY DEF Occurs
  <1>2. /\ Tail(s) \in Seq(S) /\ Len(Tail(s)) = Len(s) - 1 /\ Head(s) = s[1]
        /\ \A i \in 1..Len(Tail(s)) : Tail(s)[i] = s[i + 1]
    BY <1>1, HeadTailProperties
  <1>3. Len(s) \in Nat /\ DOMAIN s = 1..Len(s) /\ DOMAIN Tail(s) = 1..(Len(s) - 1)
    BY <1>2, LenProperties
  <1>4. ASSUME NEW x, x # Head(s), NEW i \in DOMAIN s, s[i] = x
        PROVE  i - 1 \in DOMAIN Tail(s) /\ Tail(s)[i - 1] = x
    <2>1. i \in 1..Len(s) /\ i # 1
      BY <1>2, <1>3, <1>4
    <2>2. i - 1 \in 1..(Len(s) - 1) /\ (i - 1) + 1 = i
      BY <1>3, <2>1
    <2> QED  BY <1>2, <1>3, <1>4, <2>2
  <1> QED  BY <1>2, <1>4 DEF Occurs

LEMMA RemoveAtElements ==
    ASSUME NEW S, NEW s \in Seq(S), NEW n \in DOMAIN s
    PROVE  /\ RemoveAt(s, n) \in Seq(S) /\ DOMAIN RemoveAt(s, n) = 1..(Len(s) - 1)
           /\ \A i \in 1..(Len(s) - 1) : RemoveAt(s, n)[i] = s[IF i < n THEN i ELSE i + 1]
  <1> DEFINE l == SubSeq(s, 1, n - 1)
             r == SubSeq(s, n + 1, Len(s))
  <1>1. /\ Len(s) \in Nat /\ DOMAIN s = 1..Len(s) /\ n \in 1..Len(s)
        /\ \A i \in 1..Len(s) : s[i] \in S
    BY LenProperties, ElementOfSeq
  <1>2. /\ l \in Seq(S) /\ Len(l) = n - 1
        /\ \A i \in 1..(n - 1) : l[i] = s[i]
    <2>1. \A i \in 1..(n - 1) : s[i] \in S
      BY <1>1
    <2>2. /\ l \in Seq(S) /\ Len(l) = (IF 1 <= n - 1 THEN n - 1 - 1 + 1 ELSE 0)
          /\ \A i \in 1..(n - 1 - 1 + 1) : l[i] = s[1 + i - 1]
      BY <1>1, <2>1, SubSeqProperties
    <2> QED  BY <1>1, <2>2
  <1>3. /\ r \in Seq(S) /\ Len(r) = Len(s) - n
        /\ \A i \in 1..(Len(s) - n) : r[i] = s[n + i]
    <2>1. \A i \in (n + 1)..Len(s) : s[i] \in S
      BY <1>1
    <2>2. /\ r \in Seq(S) /\ Len(r) = (IF n + 1 <= Len(s) THEN Len(s) - (n + 1) + 1 ELSE 0)
          /\ \A i \in 1..(Len(s) - (n + 1) + 1) : r[i] = s[n + 1 + i - 1]
      BY <1>1, <2>1, SubSeqProperties
    <2> HIDE DEF r
    <2>3. Len(r) = Len(s) - n
      BY <1>1, <2>2
    <2>4. ASSUME NEW i \in 1..(Len(s) - n)
          PROVE  r[i] = s[n + i]
      <3>1. i \in 1..(Len(s) - (n + 1) + 1) /\ n + 1 + i - 1 = n + i
        BY <1>1
      <3>2. r[i] = s[n + 1 + i - 1]
        BY <2>2, <3>1
      <3> QED  BY <3>1, <3>2
    <2> QED  BY <2>2, <2>3, <2>4
  <1> HIDE DEF l, r
  <1>4. /\ l \o r \in Seq(S) /\ Len(l \o r) = Len(l) + Len(r)
        /\ \A i \in 1..Len(l) + Len(r) : (l \o r)[i] = IF i <= Len(l) THEN l[i] ELSE r[i - Len(l)]
    BY <1>2, <1>3, ConcatProperties
  <1>5. DOMAIN (l \o r) = 1..(Len(s) - 1)
    <2>1. DOMAIN (l \o r) = 1..Len(l \o r)
      BY <1>4, LenProperties
    <2>2. Len(l \o r) = Len(s) - 1
      BY <1>1, <1>2, <1>3, <1>4
    <2> QED  BY <2>1, <2>2
  <1>6. ASSUME NEW i \in 1..(Len(s) - 1)
        PROVE  (l \o r)[i] = s[IF i < n THEN i ELSE i + 1]
    <2>1. i \in 1..Len(l) + Len(r) /\ i \in Nat
      BY <1>1, <1>2, <1>3
    <2>2. CASE i < n
      <3>1. i \in 1..(n - 1) /\ i <= Len(l)
        BY <1>1, <1>2, <2>1, <2>2
      <3> QED  BY <1>2, <1>4, <2>1, <2>2, <3>1
    <2>3. CASE ~(i < n)
      <3>1. ~(i <= Len(l)) /\ i - Len(l) \in 1..(Len(s) - n) /\ n + (i - Len(l)) = i + 1
        BY <1>1, <1>2, <2>1, <2>3
      <3> QED  BY <1>3, <1>4, <2>1, <2>3, <3>1
    <2> QED  BY <2>2, <2>3
  <1>7. RemoveAt(s, n) = l \o r
    BY DEF RemoveAt, l, r
  <1> QED  BY <1>4, <1>5, <1>6, <1>7

LEMMA RemoveAtOccurs ==
    ASSUME NEW S, NEW s \in Seq(S), NEW n \in DOMAIN s
    PROVE  /\ RemoveAt(s, n) \in Seq(S)
           /\ \A x : x # s[n] /\ Occurs(x, s) => Occurs(x, RemoveAt(s, n))
  <1> DEFINE t == RemoveAt(s, n)
  <1>1. /\ Len(s) \in Nat /\ DOMAIN s = 1..Len(s)
        /\ t \in Seq(S) /\ DOMAIN t = 1..(Len(s) - 1)
        /\ \A i \in 1..(Len(s) - 1) : t[i] = s[IF i < n THEN i ELSE i + 1]
    BY LenProperties, RemoveAtElements
  <1> HIDE DEF t
  <1>2. ASSUME NEW x, x # s[n], NEW i \in DOMAIN s, s[i] = x
        PROVE  Occurs(x, t)
    <2>1. CASE i < n
      <3>1. i \in 1..(Len(s) - 1)
        BY <1>1, <2>1
      <3> QED  BY <1>1, <1>2, <2>1, <3>1 DEF Occurs
    <2>2. CASE i > n
      <3>1. i - 1 \in 1..(Len(s) - 1) /\ ~(i - 1 < n) /\ (i - 1) + 1 = i
        BY <1>1, <2>2
      <3> QED  BY <1>1, <1>2, <3>1 DEF Occurs
    <2>3. i # n
      BY <1>2
    <2> QED  BY <1>1, <2>1, <2>2, <2>3
  <1> QED  BY <1>1, <1>2 DEF t, Occurs

Queued ==
    /\ waiters \in [Keys -> Seq(Callers)]
    /\ \A c \in Callers : pc[c] = "waiting" => Occurs(c, waiters[KeyOf(c)])

LEMMA QueuedInit == Init => Queued
  BY EmptySeq DEF Init, Queued

(* One queue changes, and loses nobody but c.                              *)
LEMMA QueueChange ==
    ASSUME Calls, Queued, NEW c \in Callers, NEW k \in Keys, NEW q \in Seq(Callers),
           waiters' = [waiters EXCEPT ![k] = q],
           \A x : x # c /\ Occurs(x, waiters[k]) => Occurs(x, q),
           \A o \in Callers \ {c} : pc'[o] = pc[o] /\ demand'[o] = demand[o],
           pc'[c] = "waiting" => k = CacheKey(demand'[c]) /\ Occurs(c, q)
    PROVE  Queued'
  <1>1. waiters' \in [Keys -> Seq(Callers)] /\ waiters'[k] = q
    BY DEF Queued
  <1>2. ASSUME NEW o \in Callers, pc'[o] = "waiting"
        PROVE  Occurs(o, waiters'[CacheKey(demand'[o])])
    <2>1. CASE o = c
      BY <1>1, <1>2, <2>1
    <2>2. CASE o # c
      <3>1. pc[o] = "waiting" /\ demand'[o] = demand[o] /\ demand[o] \in Demands
        BY <1>2, <2>2 DEF Calls
      <3>2. CacheKey(demand[o]) \in Keys /\ Occurs(o, waiters[CacheKey(demand[o])])
        BY <3>1, KeyIsKey DEF Queued, KeyOf
      <3>3. CASE CacheKey(demand[o]) = k
        BY <1>1, <2>2, <3>1, <3>2, <3>3
      <3>4. CASE CacheKey(demand[o]) # k
        <4>1. waiters'[CacheKey(demand[o])] = waiters[CacheKey(demand[o])]
          BY <3>2, <3>4 DEF Queued
        <4> QED  BY <3>1, <3>2, <4>1
      <3> QED  BY <3>3, <3>4
    <2> QED  BY <2>1, <2>2
  <1> QED  BY <1>1, <1>2 DEF Queued, KeyOf

LEMMA QueuedKept == Calls /\ Queued /\ [Next]_vars => Queued'
  <1> SUFFICES ASSUME Calls, Queued, [Next]_vars
               PROVE  Queued'
    OBVIOUS
  <1>1. ASSUME NEW c \in Callers, waiters' = waiters,
               \A o \in Callers \ {c} : pc'[o] = pc[o] /\ demand'[o] = demand[o],
               pc'[c] # "waiting"
        PROVE  Queued'
    BY <1>1 DEF Queued, KeyOf
  <1>2. ASSUME NEW c \in Callers, NEW d \in Demands, Ask(c, d)
        PROVE  Queued'
    <2>1. \A o \in Callers \ {c} : pc'[o] = pc[o] /\ demand'[o] = demand[o]
      BY <1>2 DEF Ask, HandOut, Leave, BeginFetch, Calls
    <2>2. demand'[c] = d /\ CacheKey(d) \in Keys
      BY <1>2, KeyIsKey DEF Ask, Calls
    <2>3. CASE waiters' = waiters /\ pc'[c] # "waiting"
      BY <1>1, <2>1, <2>3
    <2>4. CASE waiters' = [waiters EXCEPT ![CacheKey(d)] = Append(@, c)]
      <3> DEFINE q == Append(waiters[CacheKey(d)], c)
      <3>1. /\ q \in Seq(Callers) /\ Occurs(c, q)
            /\ \A x : Occurs(x, waiters[CacheKey(d)]) => Occurs(x, q)
        BY <2>2, AppendOccurs DEF Queued
      <3>2. waiters' = [waiters EXCEPT ![CacheKey(d)] = q]
        BY <2>4
      <3> HIDE DEF q
      <3> QED  BY <2>1, <2>2, <3>1, <3>2, QueueChange
    <2> QED  BY <1>2, <2>3, <2>4 DEF Ask, HandOut, Leave, BeginFetch, lockVars, Calls
  <1>3. ASSUME NEW c \in Callers, Acquire(c)
        PROVE  Queued'
    <2>1. /\ pc[c] = "waiting" /\ demand' = demand /\ pc'[c] # "waiting"
          /\ \A o \in Callers \ {c} : pc'[o] = pc[o]
          /\ Head(waiters[KeyOf(c)]) = c
          /\ waiters' = [waiters EXCEPT ![KeyOf(c)] = Tail(waiters[KeyOf(c)])]
      BY <1>3 DEF Acquire, HandOut, Leave, BeginFetch, Calls
    <2>2. KeyOf(c) \in Keys /\ waiters[KeyOf(c)] \in Seq(Callers) /\ Occurs(c, waiters[KeyOf(c)])
      BY <2>1, KeyIsKey DEF Queued, Calls, KeyOf
    <2>3. /\ Tail(waiters[KeyOf(c)]) \in Seq(Callers)
          /\ \A x : x # c /\ Occurs(x, waiters[KeyOf(c)]) => Occurs(x, Tail(waiters[KeyOf(c)]))
      BY <2>1, <2>2, TailOccurs
    <2> QED  BY <2>1, <2>2, <2>3, QueueChange
  <1>4. ASSUME NEW c \in Callers, Cancelled(c)
        PROVE  Queued'
    <2>1. /\ demand' = demand /\ pc'[c] # "waiting" /\ \A o \in Callers \ {c} : pc'[o] = pc[o]
      BY <1>4 DEF Cancelled, Leave, Calls
    <2>2. CASE waiters' = waiters
      BY <1>1, <2>1, <2>2
    <2>3. CASE pc[c] = "waiting" /\ \E i \in DOMAIN waiters[KeyOf(c)] :
                 /\ waiters[KeyOf(c)][i] = c
                 /\ waiters' = [waiters EXCEPT ![KeyOf(c)] = RemoveAt(@, i)]
      <3>1. PICK i \in DOMAIN waiters[KeyOf(c)] :
              /\ waiters[KeyOf(c)][i] = c
              /\ waiters' = [waiters EXCEPT ![KeyOf(c)] = RemoveAt(waiters[KeyOf(c)], i)]
        BY <2>3
      <3>2. KeyOf(c) \in Keys /\ waiters[KeyOf(c)] \in Seq(Callers)
        BY <2>3, KeyIsKey DEF Queued, Calls, KeyOf
      <3>3. /\ RemoveAt(waiters[KeyOf(c)], i) \in Seq(Callers)
            /\ \A x : x # c /\ Occurs(x, waiters[KeyOf(c)]) => Occurs(x, RemoveAt(waiters[KeyOf(c)], i))
        BY <3>1, <3>2, RemoveAtOccurs
      <3> QED  BY <2>1, <3>1, <3>2, <3>3, QueueChange
    <2> QED  BY <1>4, <2>2, <2>3 DEF Cancelled
  <1>5. ASSUME NEW c \in Callers, Discovered(c) \/ Fetched(c) \/ FetchFails(c)
        PROVE  Queued'
    <2>1. /\ waiters' = waiters /\ demand' = demand /\ pc'[c] # "waiting"
          /\ \A o \in Callers \ {c} : pc'[o] = pc[o]
      BY <1>5 DEF Discovered, Fetched, FetchFails, HandOut, Leave, Calls
    <2> QED  BY <1>1, <2>1
  <1>6. CASE Tick \/ UNCHANGED vars
    BY <1>6 DEF Tick, vars, callerVars, lockVars, Queued, KeyOf
  <1>7. ASSUME NEW c \in Callers, NEW d \in Demands, AskRefused(c, d)
        PROVE  Queued'
    BY <1>7, RefusedEffect DEF Queued
  <1> QED  BY <1>2, <1>3, <1>4, <1>5, <1>6, <1>7 DEF Next

(* What the callers and the clock of the last fetch hold.                  *)
Results ==
    /\ endpoint \in BOOLEAN
    /\ got \in [Callers -> ResultType]
    /\ fresh \in [Callers -> Nat]

LEMMA ResultsInit == Init => Results
  <1>1. NoResult \in ResultType
    BY DEF ResultType
  <1> SUFFICES ASSUME Init
               PROVE  Results
    OBVIOUS
  <1>2. endpoint = FALSE /\ got = [c \in Callers |-> NoResult] /\ fresh = [c \in Callers |-> 0]
    BY DEF Init
  <1>3. got \in [Callers -> ResultType]
    BY <1>1, <1>2
  <1> QED  BY <1>2, <1>3 DEF Results

LEMMA HandedOutTyped ==
    ASSUME Calls, Results, NEW c \in Callers, NEW r, got' = [got EXCEPT ![c] = r],
           \/ r \in {NoResult, [how |-> "raised"]}
           \/ \E how \in {"hit", "fetched"}, token \in TokenType :
                r = [how |-> how, token |-> token, at |-> now]
    PROVE  got' \in [Callers -> ResultType]
  <1>1. r \in ResultType
    BY DEF ResultType, Calls
  <1> QED  BY <1>1 DEF Results

LEMMA ResultsKept == Calls /\ Caching /\ Results /\ [Next]_vars => Results'
  <1> SUFFICES ASSUME Calls, Caching, Results, [Next]_vars
               PROVE  Results'
    OBVIOUS
  <1>1. ASSUME NEW k \in Keys, Hit(cache, k, now)
        PROVE  cache.data[k].token \in TokenType
    BY <1>1 DEF Hit, Caching, EntryType
  <1>2. ASSUME NEW c \in Callers, NEW d \in Demands, Ask(c, d)
        PROVE  Results'
    <2>1. \/ got' = [got EXCEPT ![c] = NoResult]
          \/ /\ Hit(cache, CacheKey(d), now)
             /\ got' = [got EXCEPT ![c] = [how |-> "hit", token |-> cache.data[CacheKey(d)].token,
                                           at |-> now]]
      BY <1>2 DEF Ask, HandOut, Leave
    <2>2. got' \in [Callers -> ResultType]
      BY <1>1, <2>1, KeyIsKey, HandedOutTyped
    <2> QED  BY <1>2, <2>2 DEF Ask, Results
  <1>3. ASSUME NEW c \in Callers, Acquire(c)
        PROVE  Results'
    <2>1. \/ got' = got /\ fresh' = fresh
          \/ /\ Hit(cache, KeyOf(c), now) /\ fresh' = [fresh EXCEPT ![c] = 0]
             /\ got' = [got EXCEPT ![c] = [how |-> "hit", token |-> cache.data[KeyOf(c)].token,
                                           at |-> now]]
      BY <1>3 DEF Acquire, HandOut, Leave, DoubleCheck, Forget
    <2>2. KeyOf(c) \in Keys /\ endpoint' = endpoint
      BY <1>3, KeyIsKey DEF Acquire, Calls, KeyOf
    <2>3. got' \in [Callers -> ResultType] /\ fresh' \in [Callers -> Nat]
      BY <1>1, <2>1, <2>2, HandedOutTyped DEF Results
    <2> QED  BY <2>2, <2>3 DEF Results
  <1>4. ASSUME NEW c \in Callers, Fetched(c)
        PROVE  Results'
    <2>1. PICK life \in Lifetimes, entry \in EntryType :
            /\ life \in Nat
            /\ got' = [got EXCEPT ![c] = [how |-> "fetched", token |-> entry.token, at |-> now]]
            /\ fresh' = [o \in Callers |-> IF pc[o] = "waiting" /\ KeyOf(o) = KeyOf(c)
                                           THEN now + life
                                           ELSE IF o = c THEN 0 ELSE fresh[o]]
      BY <1>4, FetchedParts
    <2>2. entry.token \in TokenType /\ now + life \in Nat
      BY <2>1 DEF EntryType, Calls
    <2>3. got' \in [Callers -> ResultType]
      BY <2>1, <2>2, HandedOutTyped
    <2>4. fresh' \in [Callers -> Nat]
      BY <2>1, <2>2 DEF Results
    <2> QED  BY <1>4, <2>3, <2>4 DEF Fetched, Results
  <1>5. ASSUME NEW c \in Callers, FetchFails(c) \/ Cancelled(c)
        PROVE  Results'
    <2>1. /\ endpoint' = endpoint /\ fresh' = [fresh EXCEPT ![c] = 0]
          /\ \E r \in {NoResult, [how |-> "raised"]} : got' = [got EXCEPT ![c] = r]
      BY <1>5 DEF FetchFails, Cancelled, Leave, Forget
    <2>2. got' \in [Callers -> ResultType]
      BY <2>1, HandedOutTyped
    <2> QED  BY <2>1, <2>2 DEF Results
  <1>6. CASE (\E c \in Callers : Discovered(c)) \/ Tick \/ UNCHANGED vars
    BY <1>6 DEF Discovered, Tick, callerVars, vars, Results
  <1>7. ASSUME NEW c \in Callers, NEW d \in Demands, AskRefused(c, d)
        PROVE  Results'
    <2>1. /\ UNCHANGED <<endpoint, fresh>> /\ got' = [got EXCEPT ![c] = [how |-> "raised"]]
      BY <1>7, RefusedEffect
    <2>2. got' \in [Callers -> ResultType]
      BY <2>1, HandedOutTyped
    <2> QED  BY <2>1, <2>2 DEF Results
  <1> QED  BY <1>2, <1>3, <1>4, <1>5, <1>6, <1>7 DEF Next

(* Every variable keeps its type, the queues of the locks and the order of *)
(* the cache included.                                                     *)
THEOREM ProviderTypeCorrect == Spec => []TypeOK
  <1>1. Calls /\ Caching /\ Recent /\ Locked /\ Queued /\ Results => TypeOK
    <2> SUFFICES ASSUME Calls, Caching, Recent, Locked, Queued, Results
                 PROVE  TypeOK
      OBVIOUS
    <2>1. cache \in [data : [Keys -> EntryType \cup {NoEntry}], newer : [Keys -> SUBSET Keys]]
      BY SoundType DEF Caching
    <2> QED  BY <2>1 DEF TypeOK, Calls, Recent, Locked, Queued, Results
  <1> QED  BY <1>1, CallsInit, CallsKept, CachingInit, CachingKept, RecentInit, RecentKept, LockedInit, LockedKept,
              QueuedInit, QueuedKept, ResultsInit, ResultsKept, PTL DEF Spec

-----------------------------------------------------------------------------
(* Nobody is stranded: the safety half of EveryCallEnds.                   *)

Distinct(s) == \A i, j \in DOMAIN s : s[i] = s[j] => i = j

(* A queue holds who waits for its key, once; a lock is held by a fetch.   *)
InLine(k) ==
    /\ \A i \in DOMAIN waiters[k] :
         pc[waiters[k][i]] = "waiting" /\ KeyOf(waiters[k][i]) = k
    /\ Distinct(waiters[k])

Held(k) == holder[k] # Nobody => Fetching(holder[k]) /\ KeyOf(holder[k]) = k

Lines == \A k \in Keys : InLine(k) /\ Held(k)

LEMMA AppendDistinct ==
    ASSUME NEW S, NEW s \in Seq(S), NEW e \in S, Distinct(s), ~Occurs(e, s)
    PROVE  /\ Distinct(Append(s, e))
           /\ \A i \in DOMAIN Append(s, e) : Append(s, e)[i] = e \/ Occurs(Append(s, e)[i], s)
  <1>1. /\ Len(s) \in Nat /\ DOMAIN s = 1..Len(s) /\ DOMAIN Append(s, e) = 1..(Len(s) + 1)
        /\ Append(s, e)[Len(s) + 1] = e
        /\ \A i \in 1..Len(s) : Append(s, e)[i] = s[i]
    OBVIOUS
  <1>2. ASSUME NEW i \in DOMAIN Append(s, e)
        PROVE  i = Len(s) + 1 \/ i \in DOMAIN s
    BY <1>1
  <1> QED  BY <1>1, <1>2 DEF Distinct, Occurs

LEMMA TailDistinct ==
    ASSUME NEW S, NEW s \in Seq(S), s # <<>>, Distinct(s)
    PROVE  /\ Distinct(Tail(s))
           /\ \A i \in DOMAIN Tail(s) : Tail(s)[i] # Head(s) /\ Occurs(Tail(s)[i], s)
  <1>1. /\ Tail(s) \in Seq(S) /\ Len(Tail(s)) = Len(s) - 1 /\ Head(s) = s[1]
        /\ \A i \in 1..Len(Tail(s)) : Tail(s)[i] = s[i + 1]
    BY HeadTailProperties
  <1>2. /\ Len(s) \in Nat /\ Len(s) # 0 /\ DOMAIN s = 1..Len(s)
        /\ DOMAIN Tail(s) = 1..(Len(s) - 1)
    BY <1>1, LenProperties, EmptySeq
  <1>3. ASSUME NEW i \in DOMAIN Tail(s)
        PROVE  i + 1 \in DOMAIN s /\ i + 1 # 1 /\ 1 \in DOMAIN s /\ Tail(s)[i] = s[i + 1]
    BY <1>1, <1>2
  <1>4. \A i, j \in DOMAIN Tail(s) : i + 1 = j + 1 => i = j
    BY <1>2
  <1> QED  BY <1>1, <1>3, <1>4 DEF Distinct, Occurs

LEMMA RemoveAtDistinct ==
    ASSUME NEW S, NEW s \in Seq(S), NEW n \in DOMAIN s, Distinct(s)
    PROVE  /\ Distinct(RemoveAt(s, n))
           /\ \A i \in DOMAIN RemoveAt(s, n) :
                RemoveAt(s, n)[i] # s[n] /\ Occurs(RemoveAt(s, n)[i], s)
  <1> DEFINE t == RemoveAt(s, n)
             old(i) == IF i < n THEN i ELSE i + 1
  <1>1. /\ Len(s) \in Nat /\ DOMAIN s = 1..Len(s) /\ n \in 1..Len(s)
        /\ DOMAIN t = 1..(Len(s) - 1)
        /\ \A i \in 1..(Len(s) - 1) : t[i] = s[old(i)]
    BY LenProperties, RemoveAtElements
  <1> HIDE DEF t
  <1>2. ASSUME NEW i \in DOMAIN t
        PROVE  old(i) \in DOMAIN s /\ old(i) # n /\ t[i] = s[old(i)]
    BY <1>1
  <1>3. ASSUME NEW i \in DOMAIN t, NEW j \in DOMAIN t, old(i) = old(j)
        PROVE  i = j
    BY <1>1, <1>3
  <1> HIDE DEF old
  <1> QED  BY <1>2, <1>3 DEF t, Distinct, Occurs

(* A step of c that changes one queue and one lock at most, those of k.    *)
LEMMA LineChange ==
    ASSUME Calls, Locked, Queued, Lines, NEW c \in Callers, NEW k \in Keys,
           NEW q \in Seq(Callers), waiters' = [waiters EXCEPT ![k] = q],
           NEW h \in {c, Nobody, holder[k]}, holder' = [holder EXCEPT ![k] = h],
           \A o \in Callers \ {c} : pc'[o] = pc[o] /\ demand'[o] = demand[o],
           pc[c] # "idle" => KeyOf(c) = k,
           Distinct(q), \A i \in DOMAIN q : q[i] = c \/ Occurs(q[i], waiters[k]),
           Occurs(c, q) => pc'[c] = "waiting" /\ CacheKey(demand'[c]) = k,
           h = c => pc'[c] \in {"discover", "post"} /\ CacheKey(demand'[c]) = k
    PROVE  Lines'
  <1>1. /\ waiters'[k] = q /\ holder'[k] = h
        /\ \A x \in Keys \ {k} : waiters'[x] = waiters[x] /\ holder'[x] = holder[x]
    BY DEF Queued, Locked
  <1>2. ASSUME NEW o \in Callers, o # c, NEW x \in Keys, pc[o] = "waiting" /\ KeyOf(o) = x
        PROVE  pc'[o] = "waiting" /\ CacheKey(demand'[o]) = x
    BY <1>2 DEF KeyOf
  <1>3. ASSUME NEW o \in Callers, o # c, NEW x \in Keys, Fetching(o) /\ KeyOf(o) = x
        PROVE  pc'[o] \in {"discover", "post"} /\ CacheKey(demand'[o]) = x
    BY <1>3 DEF KeyOf, Fetching
  <1>4. InLine(k)'
    <2>1. ASSUME NEW i \in DOMAIN q
          PROVE  pc'[q[i]] = "waiting" /\ CacheKey(demand'[q[i]]) = k
      <3>1. PICK o \in Callers : o = q[i]
        OBVIOUS
      <3>2. CASE o = c
        BY <3>1, <3>2 DEF Occurs
      <3>3. CASE o # c
        <4>1. PICK j \in DOMAIN waiters[k] : waiters[k][j] = o
          BY <3>1, <3>3 DEF Occurs
        <4>2. pc[o] = "waiting" /\ KeyOf(o) = k
          BY <4>1 DEF Lines, InLine
        <4> QED  BY <1>2, <3>1, <3>3, <4>2
      <3> QED  BY <3>2, <3>3
    <2> QED  BY <1>1, <2>1 DEF InLine, KeyOf
  <1>5. Held(k)'
    <2> SUFFICES ASSUME h # Nobody
                 PROVE  pc'[h] \in {"discover", "post"} /\ CacheKey(demand'[h]) = k
      BY <1>1 DEF Held, KeyOf, Fetching
    <2>1. CASE h = c
      BY <2>1
    <2>2. CASE h # c
      <3>1. h = holder[k] /\ h \in Callers /\ Fetching(h) /\ KeyOf(h) = k
        BY <2>2 DEF Locked, Lines, Held
      <3> QED  BY <1>3, <2>2, <3>1
    <2> QED  BY <2>1, <2>2
  <1>6. ASSUME NEW x \in Keys, x # k
        PROVE  InLine(x)' /\ Held(x)'
    <2>1. waiters'[x] = waiters[x] /\ holder'[x] = holder[x] /\ InLine(x) /\ Held(x)
          /\ waiters[x] \in Seq(Callers)
      BY <1>1, <1>6 DEF Lines, Queued
    <2>2. ASSUME NEW i \in DOMAIN waiters[x]
          PROVE  pc'[waiters[x][i]] = "waiting" /\ CacheKey(demand'[waiters[x][i]]) = x
      <3>1. PICK o \in Callers : o = waiters[x][i]
        BY <2>1
      <3>2. pc[o] = "waiting" /\ KeyOf(o) = x
        BY <2>1, <3>1 DEF InLine
      <3>3. o # c
        BY <1>6, <3>2
      <3> QED  BY <1>2, <3>1, <3>2, <3>3
    <2>3. InLine(x)'
      BY <2>1, <2>2 DEF InLine, KeyOf
    <2>4. Held(x)'
      <3> SUFFICES ASSUME holder[x] # Nobody
                   PROVE  /\ pc'[holder[x]] \in {"discover", "post"}
                          /\ CacheKey(demand'[holder[x]]) = x
        BY <2>1 DEF Held, KeyOf, Fetching
      <3>1. holder[x] \in Callers /\ Fetching(holder[x]) /\ KeyOf(holder[x]) = x
        BY <2>1 DEF Held, Locked
      <3>2. holder[x] # c
        BY <1>6, <3>1 DEF Fetching
      <3> QED  BY <1>3, <3>1, <3>2
    <2> QED  BY <2>3, <2>4
  <1> QED  BY <1>4, <1>5, <1>6 DEF Lines

LEMMA LinesInit == Init => Lines
  BY DEF Init, Lines, InLine, Held, Distinct

(* Who does not wait is in no queue.                                       *)
LEMMA NotInLine ==
    ASSUME Lines, NEW c \in Callers, pc[c] # "waiting", NEW k \in Keys
    PROVE  ~Occurs(c, waiters[k])
  BY DEF Lines, InLine, Occurs

LEMMA LinesKept == Calls /\ Locked /\ Queued /\ Lines /\ [Next]_vars => Lines'
  <1> SUFFICES ASSUME Calls, Locked, Queued, Lines, [Next]_vars
               PROVE  Lines'
    OBVIOUS
  <1>1. ASSUME NEW k \in Keys
        PROVE  /\ waiters[k] \in Seq(Callers) /\ Distinct(waiters[k])
               /\ waiters = [waiters EXCEPT ![k] = waiters[k]]
               /\ holder = [holder EXCEPT ![k] = holder[k]]
               /\ \A i \in DOMAIN waiters[k] : Occurs(waiters[k][i], waiters[k])
    BY DEF Lines, InLine, Locked, Queued, Occurs
  <1>2. ASSUME NEW c \in Callers, NEW d \in Demands, Ask(c, d)
        PROVE  Lines'
    <2>1. /\ \A o \in Callers \ {c} : pc'[o] = pc[o] /\ demand'[o] = demand[o]
          /\ demand'[c] = d /\ pc[c] = "idle"
      BY <1>2 DEF Ask, HandOut, Leave, BeginFetch, Calls
    <2>2. PICK k \in Keys : k = CacheKey(d)
      BY KeyIsKey
    <2>3. ~Occurs(c, waiters[k])
      BY <2>1, NotInLine
    <2>4. holder[k] # c
      BY <2>1, ProviderAssumption DEF Lines, Held, Fetching
    <2>5. CASE UNCHANGED lockVars
      <3>1. UNCHANGED <<waiters, holder>>
        BY <2>5 DEF lockVars
      <3> QED  BY <1>1, <2>1, <2>3, <2>4, <3>1, LineChange
    <2>6. CASE BeginFetch(c, k) /\ UNCHANGED waiters
      <3>1. /\ holder' = [holder EXCEPT ![k] = c] /\ pc'[c] \in {"discover", "post"}
            /\ waiters' = [waiters EXCEPT ![k] = waiters[k]]
        BY <1>1, <2>6 DEF BeginFetch, Calls
      <3> QED  BY <1>1, <2>1, <2>2, <2>3, <3>1, LineChange
    <2>7. CASE /\ waiters' = [waiters EXCEPT ![k] = Append(@, c)]
               /\ pc' = [pc EXCEPT ![c] = "waiting"] /\ UNCHANGED holder
      <3>1. PICK q : q = Append(waiters[k], c)
        OBVIOUS
      <3>2. /\ q \in Seq(Callers) /\ Distinct(q) /\ waiters' = [waiters EXCEPT ![k] = q]
            /\ \A i \in DOMAIN q : q[i] = c \/ Occurs(q[i], waiters[k])
        BY <1>1, <2>3, <2>7, <3>1, AppendDistinct, AppendOccurs
      <3>3. pc'[c] = "waiting" /\ holder' = [holder EXCEPT ![k] = holder[k]]
        BY <1>1, <2>7 DEF Calls
      <3> QED  BY <2>1, <2>2, <2>4, <3>2, <3>3, LineChange
    <2> QED  BY <1>2, <2>2, <2>5, <2>6, <2>7 DEF Ask
  <1>3. ASSUME NEW c \in Callers, pc[c] # "idle"
        PROVE  KeyOf(c) \in Keys
    BY <1>3, KeyIsKey DEF Calls, KeyOf
  <1>4. ASSUME NEW c \in Callers, Acquire(c)
        PROVE  Lines'
    <2>1. PICK k \in Keys : k = KeyOf(c)
      BY <1>3, <1>4 DEF Acquire
    <2>2. /\ pc[c] = "waiting" /\ holder[k] = Nobody /\ Head(waiters[k]) = c
          /\ demand' = demand /\ \A o \in Callers \ {c} : pc'[o] = pc[o]
      BY <1>4, <2>1 DEF Acquire, HandOut, Leave, BeginFetch, Calls
    <2>3. waiters[k] # <<>>
      BY <2>1, <2>2 DEF Queued, Occurs
    <2>4. PICK q : q = Tail(waiters[k])
      OBVIOUS
    <2>5. /\ q \in Seq(Callers) /\ Distinct(q) /\ waiters' = [waiters EXCEPT ![k] = q]
          /\ ~Occurs(c, q) /\ \A i \in DOMAIN q : Occurs(q[i], waiters[k])
      <3>1. Occurs(c, waiters[k])
        BY <2>1, <2>2 DEF Queued
      <3>2. q \in Seq(Callers)
        BY <1>1, <2>4, <3>1, TailOccurs
      <3>3. Distinct(q) /\ \A i \in DOMAIN q : q[i] # c /\ Occurs(q[i], waiters[k])
        BY <1>1, <2>2, <2>3, <2>4, TailDistinct
      <3> QED  BY <1>4, <2>1, <2>4, <3>2, <3>3 DEF Acquire, Occurs
    <2>6. CASE UNCHANGED holder
      <3>1. holder' = [holder EXCEPT ![k] = holder[k]] /\ holder[k] # c
        BY <1>1, <2>2, <2>6, ProviderAssumption
      <3> QED  BY <2>1, <2>2, <2>5, <3>1, LineChange
    <2>7. CASE BeginFetch(c, k)
      <3>1. holder' = [holder EXCEPT ![k] = c] /\ pc'[c] \in {"discover", "post"}
        BY <2>7 DEF BeginFetch, Calls
      <3>2. CacheKey(demand'[c]) = k
        BY <2>1, <2>2 DEF KeyOf
      <3> QED  BY <2>1, <2>2, <2>5, <3>1, <3>2, LineChange
    <2> QED  BY <1>4, <2>1, <2>6, <2>7 DEF Acquire
  <1>5. ASSUME NEW c \in Callers, Fetching(c), demand' = demand, UNCHANGED waiters,
               \A o \in Callers \ {c} : pc'[o] = pc[o],
               \/ pc'[c] = "post" /\ UNCHANGED holder
               \/ Release(KeyOf(c))
        PROVE  Lines'
    <2>1. PICK k \in Keys : k = KeyOf(c)
      BY <1>3, <1>5 DEF Fetching
    <2>2. ~Occurs(c, waiters[k]) /\ holder[k] = c
      BY <1>5, <2>1, NotInLine DEF Fetching, Locked
    <2>3. waiters' = [waiters EXCEPT ![k] = waiters[k]]
      BY <1>1, <1>5
    <2>4. CASE pc'[c] = "post" /\ UNCHANGED holder
      <3>1. holder' = [holder EXCEPT ![k] = c] /\ CacheKey(demand'[c]) = k
        BY <1>1, <1>5, <2>1, <2>2, <2>4 DEF KeyOf
      <3>2. /\ waiters[k] \in Seq(Callers) /\ Distinct(waiters[k])
            /\ \A i \in DOMAIN waiters[k] : Occurs(waiters[k][i], waiters[k])
            /\ \A o \in Callers \ {c} : pc'[o] = pc[o] /\ demand'[o] = demand[o]
        BY <1>1, <1>5
      <3> QED  BY <2>1, <2>2, <2>3, <2>4, <3>1, <3>2, LineChange
    <2>5. CASE Release(KeyOf(c))
      <3>1. holder' = [holder EXCEPT ![k] = Nobody] /\ Nobody # c
        BY <2>1, <2>5, ProviderAssumption DEF Release
      <3> QED  BY <1>1, <1>5, <2>1, <2>2, <2>3, <3>1, LineChange
    <2> QED  BY <1>5, <2>4, <2>5
  <1>6. ASSUME NEW c \in Callers, Discovered(c) \/ Fetched(c) \/ FetchFails(c)
        PROVE  Lines'
    <2>1. /\ Fetching(c) /\ demand' = demand /\ UNCHANGED waiters
          /\ \A o \in Callers \ {c} : pc'[o] = pc[o]
          /\ \/ pc'[c] = "post" /\ UNCHANGED holder
             \/ Release(KeyOf(c))
      BY <1>6 DEF Discovered, Fetched, FetchFails, HandOut, Leave, Calls, Fetching
    <2> QED  BY <1>5, <2>1
  <1>7. ASSUME NEW c \in Callers, Cancelled(c)
        PROVE  Lines'
    <2>1. demand' = demand /\ \A o \in Callers \ {c} : pc'[o] = pc[o]
      BY <1>7 DEF Cancelled, Leave, Calls
    <2>2. CASE Fetching(c) /\ Release(KeyOf(c)) /\ UNCHANGED waiters
      BY <1>5, <2>1, <2>2
    <2>3. CASE /\ pc[c] = "waiting" /\ UNCHANGED holder
               /\ \E i \in DOMAIN waiters[KeyOf(c)] :
                    /\ waiters[KeyOf(c)][i] = c
                    /\ waiters' = [waiters EXCEPT ![KeyOf(c)] = RemoveAt(@, i)]
      <3>1. PICK k \in Keys : k = KeyOf(c)
        BY <1>3, <2>3
      <3>2. PICK i \in DOMAIN waiters[k] :
              waiters[k][i] = c /\ waiters' = [waiters EXCEPT ![k] = RemoveAt(waiters[k], i)]
        BY <2>3, <3>1
      <3>3. PICK q : q = RemoveAt(waiters[k], i)
        OBVIOUS
      <3>4. /\ q \in Seq(Callers) /\ Distinct(q)
            /\ \A j \in DOMAIN q : q[j] # c /\ Occurs(q[j], waiters[k])
        BY <1>1, <3>2, <3>3, RemoveAtOccurs, RemoveAtDistinct
      <3>5. ~Occurs(c, q) /\ waiters' = [waiters EXCEPT ![k] = q]
        BY <3>2, <3>3, <3>4 DEF Occurs
      <3>6. holder' = [holder EXCEPT ![k] = holder[k]] /\ holder[k] # c
        BY <1>1, <2>3, ProviderAssumption DEF Lines, Held, Fetching
      <3> QED  BY <2>1, <3>1, <3>4, <3>5, <3>6, LineChange
    <2> QED  BY <1>7, <2>2, <2>3 DEF Cancelled
  <1>8. CASE Tick \/ UNCHANGED vars
    <2>1. UNCHANGED <<pc, demand, waiters, holder>>
      BY <1>8 DEF Tick, vars, callerVars, lockVars
    <2> QED  BY <2>1 DEF Lines, InLine, Held, Fetching, KeyOf
  <1>9. ASSUME NEW c \in Callers, NEW d \in Demands, AskRefused(c, d)
        PROVE  Lines'
    <2>1. /\ UNCHANGED <<pc, waiters, holder>>
          /\ \A o \in Callers : pc[o] # "idle" => KeyOf(o)' = KeyOf(o)
      BY <1>9, RefusedEffect
    <2>2. ASSUME NEW k \in Keys
          PROVE  InLine(k)' /\ Held(k)'
      <3>1. InLine(k) /\ Held(k) /\ waiters[k] \in Seq(Callers) /\ holder[k] \in Callers \cup {Nobody}
        BY DEF Lines, Queued, Locked
      <3>2. ASSUME NEW i \in DOMAIN waiters[k]
            PROVE  pc[waiters[k][i]] = "waiting" /\ KeyOf(waiters[k][i])' = k
        <4>1. PICK o \in Callers : o = waiters[k][i]
          BY <3>1
        <4>2. pc[o] = "waiting" /\ KeyOf(o) = k /\ KeyOf(o)' = KeyOf(o)
          BY <2>1, <3>1, <4>1 DEF InLine
        <4> QED  BY <2>1, <4>1, <4>2 DEF KeyOf
      <3>3. InLine(k)'
        BY <2>1, <3>1, <3>2 DEF InLine, KeyOf
      <3>4. Held(k)'
        <4> SUFFICES ASSUME holder[k] # Nobody
                     PROVE  /\ pc[holder[k]] \in {"discover", "post"}
                            /\ CacheKey(demand'[holder[k]]) = k
          BY <2>1 DEF Held, KeyOf, Fetching
        <4>1. PICK o \in Callers : o = holder[k]
          BY <3>1
        <4>2. Fetching(o) /\ KeyOf(o) = k
          BY <3>1, <4>1 DEF Held
        <4> QED  BY <2>1, <4>1, <4>2 DEF Fetching, KeyOf
      <3> QED  BY <3>3, <3>4
    <2> QED  BY <2>2 DEF Lines
  <1> QED  BY <1>2, <1>4, <1>6, <1>7, <1>8, <1>9 DEF Next

(* c can run as soon as the event loop gets to it.                         *)
NextInLine(c) ==
    pc[c] = "waiting" /\ holder[KeyOf(c)] = Nobody /\ Head(waiters[KeyOf(c)]) = c

NobodyStranded ==
    \A c \in Callers : pc[c] = "waiting" =>
      \E o \in Callers : KeyOf(o) = KeyOf(c) /\ (Fetching(o) \/ NextInLine(o))

(* Whoever waits for a lock waits for a request that is under way, or for  *)
(* the first in line of a lock that is free: no failure, no cancellation   *)
(* and no order of arrival loses a wakeup.  What EveryCallEnds adds to     *)
(* this is that requests end and the event loop runs who can run.          *)
THEOREM StrandedCorrect == Spec => []NobodyStranded
  <1>1. Calls /\ Locked /\ Queued /\ Lines => NobodyStranded
    <2> SUFFICES ASSUME Calls, Locked, Queued, Lines, NEW c \in Callers, pc[c] = "waiting"
                 PROVE  \E o \in Callers : KeyOf(o) = KeyOf(c) /\ (Fetching(o) \/ NextInLine(o))
      BY DEF NobodyStranded
    <2>1. PICK k \in Keys : k = KeyOf(c)
      BY KeyIsKey DEF Calls, KeyOf
    <2>2. CASE holder[k] # Nobody
      BY <2>1, <2>2 DEF Lines, Held, Locked
    <2>3. CASE holder[k] = Nobody
      <3>1. waiters[k] \in Seq(Callers) /\ waiters[k] # <<>>
        BY <2>1 DEF Queued, Occurs
      <3>2. Head(waiters[k]) = waiters[k][1] /\ 1 \in DOMAIN waiters[k]
        BY <3>1
      <3>3. PICK o \in Callers : o = waiters[k][1]
        BY <3>1, <3>2
      <3>4. pc[o] = "waiting" /\ KeyOf(o) = k
        BY <3>2, <3>3 DEF Lines, InLine
      <3> QED  BY <2>1, <2>3, <3>2, <3>3, <3>4 DEF NextInLine
    <2> QED  BY <2>2, <2>3
  <1> QED  BY <1>1, CallsInit, CallsKept, LockedInit, LockedKept, QueuedInit, QueuedKept,
              LinesInit, LinesKept, PTL DEF Spec
=============================================================================
