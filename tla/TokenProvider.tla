--------------------------- MODULE TokenProvider ---------------------------
(***************************************************************************)
(* One downstream token provider with the coroutines that call it:         *)
(* TokenCache.get_or_set of app/downstream/cache.py around the fetch       *)
(* closures of m2m.py and obo.py, with EntraTokenProvider of entra.py.     *)
(*                                                                         *)
(* A caller is a PEP task inside token_for.  It runs without interruption  *)
(* from one await to the next; pc names the await:                         *)
(*   "idle"      not in token_for (it may come back with another demand)   *)
(*   "waiting"   acquiring the per-key asyncio.Lock                        *)
(*   "discover"  GET of the tenant's OIDC configuration                    *)
(*   "post"      POST to the token endpoint                                *)
(* asyncio.Lock serves its waiters in order; between a release and the     *)
(* next waiter's step any other task may run and the clock may advance.    *)
(* The WeakValueDictionary of locks is not visible here: a lock nobody     *)
(* holds or waits for is as good as a new one.                             *)
(***************************************************************************)
EXTENDS TokenCache, Sequences, SequencesExt

CONSTANTS
    Callers,        \* PEP tasks
    Profile,        \* "m2m" or "obo": which subclass this provider is
    Users,          \* principals
    Tokenless,      \* those of them that came without a token of their own
    Backends,
    Scopes,         \* per-tool scopes the PEP may ask for
    Lifetimes,      \* values of expires_in
    MaxTime,        \* bound: the clock stops here
    Nobody,         \* no lock holder
    NoDemand        \* before a caller's first call

ASSUME ProviderAssumption ==
    /\ Profile \in {"m2m", "obo"}
    /\ Tokenless \subseteq Users
    /\ Lifetimes \subseteq Nat
    /\ MaxTime \in Nat
    /\ Nobody \notin Callers

Default == "default"                \* backend.scope
Gateway == "gateway"                \* subject of a client_credentials token
NoScope == "no scope"

Demands == [who : Users, backend : Backends, scope : Scopes \cup {NoScope}]

EffectiveScope_Unset(d) == d.scope
EffectiveScope(d) == IF d.scope = NoScope THEN Default ELSE d.scope

(* The key token_for hands to get_or_set.                                  *)
CacheKey_NoScope(d) ==
    IF Profile = "m2m" THEN <<d.backend>> ELSE <<d.who, d.backend>>
CacheKey(d) ==
    IF Profile = "m2m" THEN <<d.backend>> ELSE <<d.who, d.backend, EffectiveScope(d)>>

Keys == {CacheKey(d) : d \in Demands}

NoUserToken(d) == Profile = "obo" /\ d.who \in Tokenless

(* What the token endpoint issues: for the user who asked, or the gateway. *)
(* "took" is history: how long the exchange took that brought it.          *)
Issued(d, dies, took) ==
    [sub   |-> IF Profile = "m2m" THEN Gateway ELSE d.who,
     aud   |-> d.backend,
     scope |-> IF Profile = "m2m" THEN Default ELSE EffectiveScope(d),
     dies  |-> dies, took |-> took]

VARIABLES
    now,            \* time.monotonic()
    cache,          \* the provider's TokenCache
    endpoint,       \* _token_endpoint is known
    pc,
    demand,         \* the caller's last arguments of token_for
    since,          \* when a caller's POST was sent
    holder,         \* who holds the lock of a key
    waiters,        \* who waits for it, in order
    got,            \* what token_for last returned or raised
    fresh,          \* history: the expiry of the newest token that was fetched
                    \* for a caller's key while it waited, 0 if none was
    later           \* history: for a key in the cache, the keys in it that
                    \* tokens were handed out for since one was for it

callerVars == <<pc, demand, since, got, fresh>>
lockVars == <<holder, waiters>>
vars == <<now, cache, endpoint, pc, demand, since, holder, waiters, got, fresh, later>>

NoResult == [how |-> "none"]

Init ==
    /\ now = 0
    /\ cache = EmptyCache(Keys)
    /\ endpoint = FALSE
    /\ pc = [c \in Callers |-> "idle"]
    /\ demand = [c \in Callers |-> NoDemand]
    /\ since = [c \in Callers |-> 0]
    /\ holder = [k \in Keys |-> Nobody]
    /\ waiters = [k \in Keys |-> <<>>]
    /\ got = [c \in Callers |-> NoResult]
    /\ fresh = [c \in Callers |-> 0]
    /\ later = [k \in Keys |-> {}]

KeyOf(c) == CacheKey(demand[c])

-----------------------------------------------------------------------------
Fetching(c) == pc[c] \in {"discover", "post"}

Leave(c, result) ==
    /\ pc' = [pc EXCEPT ![c] = "idle"]
    /\ got' = [got EXCEPT ![c] = result]
    /\ since' = [since EXCEPT ![c] = 0]

(* c leaves with a token for k.                                            *)
HandOut(c, how, k, token) ==
    /\ Leave(c, [how |-> how, token |-> token, at |-> now])
    /\ later' = [o \in Keys |-> IF o \in Stored(cache') \ {k}
                                THEN (later[o] \cup {k}) \cap Stored(cache') ELSE {}]

(* History: what was fetched while c waited no longer matters.             *)
Forget(c) == fresh' = [fresh EXCEPT ![c] = 0]

(* The lock of k is c's and the double-check missed: fetch() up to its     *)
(* first await.                                                            *)
BeginFetch(c, k) ==
    /\ holder' = [holder EXCEPT ![k] = c]
    /\ pc' = [pc EXCEPT ![c] = IF endpoint THEN "post" ELSE "discover"]
    /\ since' = [since EXCEPT ![c] = now]

Release(k) == holder' = [holder EXCEPT ![k] = Nobody]

(* Variants named <operator>_<defect> are defects the runs must reject;    *)
(* nothing below uses them.                                                *)

(* A lock with waiters is never free for a newcomer, even between its      *)
(* release and the first waiter's step.                                    *)
LockFree_Ignored(k) == TRUE
LockFree(k) == holder[k] = Nobody /\ waiters[k] = <<>>

(* OBO has nothing to exchange.                                            *)
AskRefused(c, d) ==
    /\ pc[c] = "idle" /\ NoUserToken(d)
    /\ demand' = [demand EXCEPT ![c] = d]
    /\ got' = [got EXCEPT ![c] = [how |-> "raised"]]
    /\ UNCHANGED <<now, cache, endpoint, pc, since, lockVars, fresh, later>>

(* token_for(d), get_or_set(key): the first get, and up to the lock.  The  *)
(* second get of a caller that acquires at once sees what the first saw.   *)
Ask(c, d) ==
    LET k == CacheKey(d)
    IN  /\ pc[c] = "idle" /\ ~NoUserToken(d)
        /\ demand' = [demand EXCEPT ![c] = d]
        /\ cache' = AfterGet(cache, k, now)
        /\ \/ /\ Hit(cache, k, now)
              /\ HandOut(c, "hit", k, cache.data[k].token)
              /\ UNCHANGED lockVars
           \/ /\ ~Hit(cache, k, now)
              /\ LockFree(k)
              /\ BeginFetch(c, k)
              /\ got' = [got EXCEPT ![c] = NoResult]
              /\ UNCHANGED <<waiters, later>>
           \/ /\ ~Hit(cache, k, now)
              /\ ~LockFree(k)
              /\ waiters' = [waiters EXCEPT ![k] = Append(@, c)]
              /\ pc' = [pc EXCEPT ![c] = "waiting"]
              /\ got' = [got EXCEPT ![c] = NoResult]
              /\ UNCHANGED <<since, holder, later>>
        /\ UNCHANGED <<now, endpoint, fresh>>

(* The first waiter of a released lock runs and looks again.               *)
DoubleCheck_None(k) == FALSE
DoubleCheck(k) == Hit(cache, k, now)

Acquire(c) ==
    LET k == KeyOf(c)
    IN  /\ pc[c] = "waiting"
        /\ holder[k] = Nobody
        /\ Head(waiters[k]) = c
        /\ waiters' = [waiters EXCEPT ![k] = Tail(@)]
        /\ cache' = AfterGet(cache, k, now)
        /\ \/ /\ DoubleCheck(k)
              /\ HandOut(c, "hit", k, cache.data[k].token)
              /\ Forget(c)
              /\ UNCHANGED holder
           \/ /\ ~DoubleCheck(k)
              /\ BeginFetch(c, k)
              /\ UNCHANGED <<got, fresh, later>>
        /\ UNCHANGED <<now, endpoint, demand>>

(* _endpoint: the discovery answered.                                      *)
Discovered(c) ==
    /\ pc[c] = "discover"
    /\ endpoint' = TRUE
    /\ pc' = [pc EXCEPT ![c] = "post"]
    /\ since' = [since EXCEPT ![c] = now]
    /\ UNCHANGED <<now, cache, demand, holder, waiters, got, fresh, later>>

(* The token arrives.  Entra issued it at some moment after the POST was   *)
(* sent, but its expiry is reckoned from the moment the answer is read.    *)
Fetched(c) ==
    /\ pc[c] = "post"
    /\ \E life \in Lifetimes, issued \in since[c] .. now :
         LET token == Issued(demand[c], issued + life, now - since[c])
         IN  /\ cache' = AfterSet(cache, KeyOf(c), [token |-> token, expiry |-> now + life], now)
             /\ HandOut(c, "fetched", KeyOf(c), token)
             /\ fresh' = [o \in Callers |-> IF pc[o] = "waiting" /\ KeyOf(o) = KeyOf(c)
                                            THEN now + life
                                            ELSE IF o = c THEN 0 ELSE fresh[o]]
    /\ Release(KeyOf(c))
    /\ UNCHANGED <<now, endpoint, demand, waiters>>

(* Either request fails or times out; the lock goes, the cache stays.      *)
(* httpx times a connect, a write and the silence before a read, not the   *)
(* exchange: how long one may take has no bound here.                      *)
FetchFails_LockKept(c) ==
    /\ Fetching(c)
    /\ Leave(c, [how |-> "raised"]) /\ Forget(c)
    /\ UNCHANGED <<now, cache, endpoint, demand, holder, waiters, later>>
FetchFails(c) ==
    /\ Fetching(c)
    /\ Leave(c, [how |-> "raised"]) /\ Forget(c)
    /\ Release(KeyOf(c))
    /\ UNCHANGED <<now, cache, endpoint, demand, waiters, later>>

(* The PEP task is cancelled: a waiter leaves the queue, a holder the lock.*)
Cancelled(c) ==
    /\ pc[c] # "idle"
    /\ Leave(c, NoResult) /\ Forget(c)
    /\ \/ /\ pc[c] = "waiting"
          /\ \E i \in DOMAIN waiters[KeyOf(c)] :
               /\ waiters[KeyOf(c)][i] = c
               /\ waiters' = [waiters EXCEPT ![KeyOf(c)] = RemoveAt(@, i)]
          /\ UNCHANGED holder
       \/ /\ Fetching(c)
          /\ Release(KeyOf(c))
          /\ UNCHANGED waiters
    /\ UNCHANGED <<now, cache, endpoint, demand, later>>

Tick ==
    /\ now < MaxTime
    /\ now' = now + 1
    /\ UNCHANGED <<cache, endpoint, callerVars, lockVars, later>>

Next ==
    \/ \E c \in Callers :
         \/ \E d \in Demands : Ask(c, d) \/ AskRefused(c, d)
         \/ Acquire(c) \/ Discovered(c) \/ Fetched(c) \/ FetchFails(c) \/ Cancelled(c)
    \/ Tick

Spec == Init /\ [][Next]_vars

(* The event loop runs a waiter whose lock was released, and every HTTP    *)
(* request is answered, breaks or times out: a peer that goes silent is    *)
(* cut off, one that sends a byte now and then for ever is not and is      *)
(* assumed away.                                                           *)
FairSpec ==
    Spec /\ \A c \in Callers :
              /\ WF_vars(Acquire(c))
              /\ WF_vars(Discovered(c) \/ Fetched(c) \/ FetchFails(c))

-----------------------------------------------------------------------------
(* The values the variables may take.                                      *)
TokenType ==
    [sub : Users \cup {Gateway}, aud : Backends, scope : Scopes \cup {Default},
     dies : Nat, took : Nat]
EntryType == [token : TokenType, expiry : Nat]

ASSUME EntryAssumption == NoEntry \notin EntryType

ResultType ==
    {NoResult, [how |-> "raised"]} \cup [how : {"hit", "fetched"}, token : TokenType, at : Nat]

TypeOK ==
    /\ now \in Nat
    /\ cache \in [data : [Keys -> EntryType \cup {NoEntry}], newer : [Keys -> SUBSET Keys]]
    /\ endpoint \in BOOLEAN
    /\ pc \in [Callers -> {"idle", "waiting", "discover", "post"}]
    /\ demand \in [Callers -> Demands \cup {NoDemand}]
    /\ since \in [Callers -> Nat]
    /\ holder \in [Keys -> Callers \cup {Nobody}]
    /\ waiters \in [Keys -> Seq(Callers)]
    /\ got \in [Callers -> ResultType]
    /\ fresh \in [Callers -> Nat]
    /\ later \in [Keys -> SUBSET Keys]

(* A token fits a demand: its backend's audience, and under OBO the very   *)
(* user and the very scope that were asked for.                            *)
Fits(d, t) ==
    /\ t.aud = d.backend
    /\ Profile = "m2m" => t.sub = Gateway
    /\ Profile = "obo" => t.sub = d.who /\ t.scope = EffectiveScope(d)

(* No caller is handed a token made for another user, backend or scope,    *)
(* out of the cache or not, or any under OBO if it brought none itself.    *)
NoForeignToken ==
    \A c \in Callers : got[c].how \in {"hit", "fetched"} =>
        Fits(demand[c], got[c].token) /\ ~NoUserToken(demand[c])

(* A token out of the cache lives longer than Skew less the time its own   *)
(* exchange took: its expiry is reckoned from when the answer was read,    *)
(* so that time is lost of the skew, and nothing bounds it.                *)
HitStaysValid ==
    \A c \in Callers : got[c].how = "hit" =>
        got[c].token.dies + got[c].token.took > got[c].at + Skew

(* Per key, one fetch at a time, by the caller that holds the lock.        *)
OneFetchPerKey ==
    \A c, o \in Callers : Fetching(c) /\ Fetching(o) /\ KeyOf(c) = KeyOf(o) => c = o

(* The cache never exceeds its bound, and the order it evicts by is one    *)
(* over exactly what it stores, after any mix of hits, misses, expiries    *)
(* and evictions.                                                          *)
BoundedCache == Cardinality(Stored(cache)) <= MaxSize /\ Ordered(cache)

(* A usable entry is evicted only to make room, and it is the right one:   *)
(* what is left then is a full cache in which nothing has expired and      *)
(* every entry but the new one was handed out after the evicted one was.   *)
(* (An entry within Skew of its expiry is not expired: it may be left.)    *)
EvictsLeastRecent ==
    [][\A k \in Stored(cache) :
         cache.data[k].expiry > now + Skew /\ k \notin Stored(cache') =>
           /\ Cardinality(Stored(cache')) = MaxSize
           /\ \A x \in Stored(cache') : cache'.data[x].expiry > now
           /\ Stored(cache') \cap Stored(cache) \subseteq later[k]]_vars

(* A caller that waited while another fetched for its key reaches Entra    *)
(* itself only when the token it waited for was within Skew of its expiry  *)
(* by then (cache.py:58, "only the first caller for a cold key reaches     *)
(* Entra", up to that limit).  Needs room for every key.                   *)
OnlyFirstReachesEntra ==
    \A c \in Callers : Fetching(c) /\ fresh[c] > 0 => fresh[c] <= since[c] + Skew

(* Every token_for returns or raises: no failure, no cancellation and no   *)
(* order of arrival leaves a caller waiting for a lock forever.            *)
EveryCallEnds == \A c \in Callers : pc[c] # "idle" ~> pc[c] = "idle"
=============================================================================
