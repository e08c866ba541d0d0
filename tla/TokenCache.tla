---------------------------- MODULE TokenCache ----------------------------
(***************************************************************************)
(* The bounded LRU + TTL cache of gateway-fastmcp/app/downstream/cache.py, *)
(* as operators on its value.  None of get, set and _prune awaits, so each *)
(* is one indivisible step of whoever calls it; TokenProvider.tla adds the *)
(* callers, the per-key lock and the clock.                                *)
(*                                                                         *)
(* The OrderedDict is a record: "data" maps a key to its entry, and its    *)
(* order is "newer", which maps a key to the keys used more recently.      *)
(***************************************************************************)
EXTENDS Naturals, FiniteSets

CONSTANTS
    MaxSize,        \* settings.downstream_token_cache_max
    Skew,           \* DEFAULT_REFRESH_SKEW_S
    NoEntry         \* no entry under a key

ASSUME CacheAssumption ==
    /\ MaxSize \in Nat \ {0}       \* "maxsize must be >= 1"
    /\ Skew \in Nat

Stored(c) == {k \in DOMAIN c.data : c.data[k] # NoEntry}

EmptyCache(keys) == [data |-> [k \in keys |-> NoEntry], newer |-> [k \in keys |-> {}]]

(* The entries of ks and no others; pop and popitem leave the order of the *)
(* rest as it was.                                                         *)
Only(c, ks) ==
    [data |-> [k \in DOMAIN c.data |-> IF k \in ks THEN c.data[k] ELSE NoEntry],
     newer |-> [k \in DOMAIN c.data |-> IF k \in ks THEN c.newer[k] \cap ks ELSE {}]]

MoveToEnd(c, k) ==
    [data |-> c.data,
     newer |-> [o \in DOMAIN c.data |-> IF o \in Stored(c) \ {k} THEN c.newer[o] \cup {k} ELSE {}]]

(* Variants named <operator>_<defect> are defects the runs must reject;    *)
(* nothing below uses them.                                                *)

(* get, its test: an entry within Skew of its expiry no longer counts.     *)
Hit_NoSkew(c, k, now) == c.data[k] # NoEntry /\ c.data[k].expiry > now
Hit(c, k, now) == c.data[k] # NoEntry /\ c.data[k].expiry > now + Skew

(* get, its effect: a hit becomes the most recent, a stale entry goes.     *)
AfterGet_NoTouch(c, k, now) == IF Hit(c, k, now) THEN c ELSE Only(c, Stored(c) \ {k})
AfterGet(c, k, now) == IF Hit(c, k, now) THEN MoveToEnd(c, k) ELSE Only(c, Stored(c) \ {k})

(* _prune: first whatever has expired, then the least recently used until  *)
(* at most MaxSize are left.                                               *)
Alive(c, now) == {k \in Stored(c) : c.data[k].expiry > now}
Latest(c, ks) == {k \in ks : Cardinality(c.newer[k] \cap ks) < MaxSize}

Prune_TtlOnly(c, now) == Only(c, Alive(c, now))
Prune(c, now) == Only(c, Latest(c, Alive(c, now)))

(* set *)
AfterSet(c, k, entry, now) ==
    Prune(MoveToEnd([data |-> [c.data EXCEPT ![k] = entry], newer |-> c.newer], k), now)

(* The order is one: of two keys stored one was used after the other, what *)
(* was used after the later one was used after the earlier one.            *)
Ordered(c) ==
    /\ \A k \in DOMAIN c.data : c.newer[k] \subseteq Stored(c) \ {k}
    /\ \A k, o \in Stored(c) : k # o => (o \in c.newer[k] <=> k \notin c.newer[o])
    /\ \A k \in Stored(c) : \A o \in c.newer[k] : c.newer[o] \subseteq c.newer[k]
=============================================================================
