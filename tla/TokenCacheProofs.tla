-------------------------- MODULE TokenCacheProofs --------------------------
(***************************************************************************)
(* What the operations of the token cache do to its contents and to its    *)
(* order, for any keys, entries and sizes.  TokenProviderProofs draws its  *)
(* theorems about the bound, evictions and refetches from these facts.     *)
(***************************************************************************)
EXTENDS TokenCache, FiniteSetTheorems, TLAPS

(* c is a cache over the keys K.                                           *)
PerKey(c, K) ==
    c = [data |-> [k \in K |-> c.data[k]], newer |-> [k \in K |-> c.newer[k]]]

LEMMA PerKeyDomain ==
    ASSUME NEW K, NEW c, PerKey(c, K)
    PROVE  DOMAIN c.data = K
  <1>1. c.data = [k \in K |-> c.data[k]]
    <2> DEFINE data == [k \in K |-> c.data[k]]
               newer == [k \in K |-> c.newer[k]]
    <2>1. c = [data |-> data, newer |-> newer]
      BY DEF PerKey
    <2> HIDE DEF data, newer
    <2>2. c.data = data
      BY <2>1
    <2> QED  BY <2>2 DEF data
  <1> QED  BY <1>1

-----------------------------------------------------------------------------
(* Removal.                                                                *)

(* What Only leaves is what it was told to leave, unchanged.               *)
LEMMA OnlyLeaves ==
    ASSUME NEW K, NEW c, PerKey(c, K), NEW ks, ks \subseteq Stored(c)
    PROVE  /\ PerKey(Only(c, ks), K)
           /\ Stored(Only(c, ks)) = ks
           /\ \A k \in K : Only(c, ks).data[k] = IF k \in ks THEN c.data[k] ELSE NoEntry
  <1>0. DOMAIN c.data = K
    BY PerKeyDomain
  <1>1. PerKey(Only(c, ks), K)
    BY <1>0 DEF Only, PerKey
  <1>2. Only(c, ks).data = [k \in K |-> IF k \in ks THEN c.data[k] ELSE NoEntry]
    BY <1>0 DEF Only
  <1>3. \A k : k \in Stored(c) <=> k \in K /\ c.data[k] # NoEntry
    BY <1>0 DEF Stored
  <1>4. \A k : k \in Stored(Only(c, ks)) <=> k \in K /\ Only(c, ks).data[k] # NoEntry
    BY <1>2 DEF Stored
  <1> QED  BY <1>1, <1>2, <1>3, <1>4

(* The parts of Ordered, for a cache over the keys K that stores S.        *)
LEMMA OrderedParts ==
    ASSUME NEW K, NEW S, NEW c, DOMAIN c.data = K, Stored(c) = S
    PROVE  Ordered(c) <=>
             /\ \A k \in K : c.newer[k] \subseteq S \ {k}
             /\ \A k, o \in S : k # o => (o \in c.newer[k] <=> k \notin c.newer[o])
             /\ \A k \in S : \A o \in c.newer[k] : c.newer[o] \subseteq c.newer[k]
  BY Zenon DEF Ordered

(* The rest keeps its order.                                               *)
LEMMA OnlyOrdered ==
    ASSUME NEW K, NEW c, PerKey(c, K), Ordered(c), NEW ks, ks \subseteq Stored(c)
    PROVE  Ordered(Only(c, ks))
  <1> DEFINE S == Stored(c)
             old == c.newer
             new == Only(c, ks).newer
  <1>1. /\ Stored(Only(c, ks)) = ks
        /\ DOMAIN Only(c, ks).data = K /\ DOMAIN c.data = K
    BY OnlyLeaves, PerKeyDomain
  <1>2. \A k \in K : new[k] = IF k \in ks THEN old[k] \cap ks ELSE {}
    BY <1>1 DEF Only
  <1>3. ks \subseteq S /\ S \subseteq K
    BY <1>1 DEF Stored
  <1>4. /\ \A k \in K : old[k] \subseteq S \ {k}
        /\ \A k, o \in S : k # o => (o \in old[k] <=> k \notin old[o])
        /\ \A k \in S : \A o \in old[k] : old[o] \subseteq old[k]
    BY <1>1, OrderedParts
  <1> HIDE DEF S, old, new
  <1>5. \A k \in K : new[k] \subseteq ks \ {k}
    BY <1>2, <1>3, <1>4
  <1>6. \A k, o \in ks : k # o => (o \in new[k] <=> k \notin new[o])
    BY <1>2, <1>3, <1>4
  <1>7. ASSUME NEW k \in ks, NEW o \in new[k]
        PROVE  new[o] \subseteq new[k]
    <2>1. k \in S /\ o \in old[k] /\ o \in ks /\ new[k] = old[k] \cap ks
      BY <1>2, <1>3
    <2>2. old[o] \subseteq old[k] /\ new[o] = old[o] \cap ks
      BY <1>2, <1>3, <1>4, <2>1
    <2> QED  BY <2>1, <2>2
  <1> QED  BY <1>1, <1>5, <1>6, <1>7, OrderedParts DEF new

-----------------------------------------------------------------------------
(* Use.                                                                    *)

LEMMA MoveKeepsData ==
    ASSUME NEW K, NEW c, PerKey(c, K), NEW k
    PROVE  /\ PerKey(MoveToEnd(c, k), K)
           /\ MoveToEnd(c, k).data = c.data /\ Stored(MoveToEnd(c, k)) = Stored(c)
  <1>1. DOMAIN c.data = K /\ c.data = [x \in K |-> c.data[x]]
    BY PerKeyDomain DEF PerKey
  <1>2. MoveToEnd(c, k).data = c.data
    BY DEF MoveToEnd
  <1>3. MoveToEnd(c, k).newer = [o \in K |-> MoveToEnd(c, k).newer[o]]
    BY <1>1 DEF MoveToEnd
  <1>4. PerKey(MoveToEnd(c, k), K)
    BY <1>1, <1>2, <1>3 DEF MoveToEnd, PerKey
  <1> QED  BY <1>2, <1>4 DEF Stored

(* The key that was used goes to the end of the order; it may have been    *)
(* added just now, to an ordered cache b.                                  *)
LEMMA MoveOrdered ==
    ASSUME NEW K, NEW b, PerKey(b, K), Ordered(b),
           NEW c, PerKey(c, K), c.newer = b.newer,
           NEW k, k \in Stored(c), Stored(c) = Stored(b) \cup {k}
    PROVE  Ordered(MoveToEnd(c, k))
  <1> DEFINE B == Stored(b)
             S == Stored(c)
             old == b.newer
             new == MoveToEnd(c, k).newer
  <1>1. /\ Stored(MoveToEnd(c, k)) = S
        /\ DOMAIN MoveToEnd(c, k).data = K /\ DOMAIN b.data = K /\ DOMAIN c.data = K
    BY MoveKeepsData, PerKeyDomain
  <1>2. \A o \in K : new[o] = IF o \in S \ {k} THEN old[o] \cup {k} ELSE {}
    BY <1>1 DEF MoveToEnd
  <1>3. S \subseteq K /\ S = B \cup {k}
    BY <1>1 DEF Stored
  <1>4. /\ \A x \in K : old[x] \subseteq B \ {x}
        /\ \A x, o \in B : x # o => (o \in old[x] <=> x \notin old[o])
        /\ \A x \in B : \A o \in old[x] : old[o] \subseteq old[x]
    BY <1>1, OrderedParts
  <1> HIDE DEF B, S, old, new
  <1>5. ASSUME NEW x \in K
        PROVE  new[x] \subseteq S \ {x}
    <2>1. old[x] \subseteq B \ {x} /\ (x \in S \ {k} => x # k)
      BY <1>4
    <2>2. new[x] = IF x \in S \ {k} THEN old[x] \cup {k} ELSE {}
      BY <1>2
    <2> QED  BY <1>3, <2>1, <2>2
  <1>6. ASSUME NEW x \in S, NEW o \in S, x # o
        PROVE  o \in new[x] <=> x \notin new[o]
    <2>1. /\ new[x] = IF x = k THEN {} ELSE old[x] \cup {k}
          /\ new[o] = IF o = k THEN {} ELSE old[o] \cup {k}
      BY <1>2, <1>3
    <2>2. x # k /\ o # k => (o \in old[x] <=> x \notin old[o])
      BY <1>3, <1>4, <1>6
    <2> QED  BY <1>6, <2>1, <2>2
  <1>7. ASSUME NEW x \in S, NEW o \in new[x]
        PROVE  new[o] \subseteq new[x]
    <2>1. /\ x \in K /\ x # k /\ x \in B
          /\ new[x] = old[x] \cup {k}
      BY <1>2, <1>3
    <2>2. CASE o = k
      BY <1>2, <1>3, <2>2
    <2>3. CASE o # k
      <3>1. o \in old[x] /\ o \in B /\ o \in K
        BY <1>3, <1>4, <2>1, <2>3
      <3>2. old[o] \subseteq old[x] /\ new[o] = old[o] \cup {k}
        BY <1>2, <1>3, <1>4, <2>1, <2>3, <3>1
      <3> QED  BY <2>1, <3>2
    <2> QED  BY <2>2, <2>3
  <1> QED  BY <1>1, <1>5, <1>6, <1>7, OrderedParts DEF new

-----------------------------------------------------------------------------
(* Eviction.                                                               *)

(* Of any finite set of stored keys, _prune's second loop leaves the       *)
(* latest MaxSize, or all of them if there are no more: counting the keys  *)
(* that are newer numbers the set from 0 without a gap.                    *)
LEMMA LatestSize ==
    ASSUME NEW K, NEW c, PerKey(c, K), Ordered(c),
           NEW ks, ks \subseteq Stored(c), IsFiniteSet(ks)
    PROVE  /\ IsFiniteSet(Latest(c, ks))
           /\ Cardinality(Latest(c, ks)) <= MaxSize
           /\ Cardinality(ks) <= MaxSize => Latest(c, ks) = ks
           /\ Latest(c, ks) # ks => Cardinality(Latest(c, ks)) = MaxSize
  <1> DEFINE after(k) == c.newer[k] \cap ks
             n == Cardinality(ks)
             rank == [k \in ks |-> Cardinality(after(k))]
             L == Latest(c, ks)
  <1>1. n \in Nat /\ MaxSize \in Nat \ {0}
    BY FS_CardinalityType, CacheAssumption
  <1>2. \A k \in ks : after(k) \subseteq ks \ {k}
    <2>1. DOMAIN c.data = K /\ ks \subseteq K
      BY PerKeyDomain DEF Stored
    <2>2. \A k \in K : c.newer[k] \subseteq Stored(c) \ {k}
      BY <2>1, OrderedParts
    <2> QED  BY <2>1, <2>2
  <1>3. \A k, o \in ks : k # o => o \in after(k) \/ k \in after(o)
    <2>1. \A k, o \in Stored(c) : k # o => (o \in c.newer[k] <=> k \notin c.newer[o])
      BY PerKeyDomain, OrderedParts
    <2> QED  BY <2>1
  <1>4. \A k \in ks : \A o \in after(k) : after(o) \subseteq after(k)
    <2>1. \A k \in Stored(c) : \A o \in c.newer[k] : c.newer[o] \subseteq c.newer[k]
      BY PerKeyDomain, OrderedParts
    <2> QED  BY <2>1
  <1>5. \A k \in ks : k \in L <=> rank[k] < MaxSize
    BY DEF Latest
  <1>6. L \subseteq ks
    BY DEF Latest
  <1> HIDE DEF after, L
  <1>7. \A k \in ks : IsFiniteSet(after(k)) /\ rank[k] = Cardinality(after(k)) /\ rank[k] \in 0..(n - 1)
    <2> SUFFICES ASSUME NEW k \in ks
                 PROVE  IsFiniteSet(after(k)) /\ Cardinality(after(k)) \in 0..(n - 1)
      OBVIOUS
    <2>1. IsFiniteSet(ks \ {k}) /\ Cardinality(ks \ {k}) = n - 1
      BY FS_RemoveElement
    <2>2. /\ IsFiniteSet(after(k)) /\ Cardinality(after(k)) <= Cardinality(ks \ {k})
          /\ Cardinality(after(k)) \in Nat
      BY <1>2, <2>1, FS_Subset, FS_CardinalityType
    <2> QED  BY <1>1, <2>1, <2>2
  <1> HIDE DEF n
  <1>8. ASSUME NEW k \in ks, NEW o \in after(k)
        PROVE  rank[o] < rank[k]
    <2>1. o \in ks /\ after(o) \subseteq after(k) /\ after(o) # after(k)
      BY <1>2, <1>4
    <2>2. Cardinality(after(o)) <= Cardinality(after(k)) /\ Cardinality(after(o)) # Cardinality(after(k))
      BY <1>7, <2>1, FS_Subset
    <2> QED  BY <1>7, <2>1, <2>2
  <1>9. rank \in [ks -> 0..(n - 1)]
    BY <1>7
  <1> HIDE DEF rank
  <1>10. ASSUME NEW k \in ks, NEW o \in ks, k # o
        PROVE  rank[k] # rank[o]
    <2>1. rank[k] \in Nat /\ rank[o] \in Nat
      BY <1>1, <1>9
    <2>2. CASE o \in after(k)
      <3>1. rank[o] < rank[k]
        BY <1>8, <2>2
      <3> QED  BY <2>1, <3>1
    <2>3. CASE k \in after(o)
      <3>1. rank[k] < rank[o]
        BY <1>8, <2>3
      <3> QED  BY <2>1, <3>1
    <2> QED  BY <1>3, <1>10, <2>2, <2>3
  <1>11. rank \in Injection(ks, 0..(n - 1))
    BY <1>9, <1>10 DEF Injection, IsInjective
  <1>12. IsFiniteSet(0..(n - 1)) /\ Cardinality(0..(n - 1)) = n
    BY <1>1, FS_Interval
  <1>13. rank \in Surjection(ks, 0..(n - 1))
    BY <1>11, <1>12, FS_Injection DEF n
  <1>14. IsFiniteSet(L)
    BY <1>6, FS_Subset
  <1>15. CASE n <= MaxSize
    <2>1. L = ks
      BY <1>1, <1>5, <1>6, <1>7, <1>15
    <2> QED  BY <1>14, <1>15, <2>1 DEF L, n
  <1>16. CASE n > MaxSize
    <2> DEFINE low == [k \in L |-> rank[k]]
    <2>1. low \in [L -> 0..(MaxSize - 1)]
      BY <1>1, <1>5, <1>6, <1>7
    <2>2. low \in Injection(L, 0..(MaxSize - 1))
      BY <1>6, <1>10, <2>1 DEF Injection, IsInjective
    <2>3. low \in Surjection(L, 0..(MaxSize - 1))
      <3>1. ASSUME NEW i \in 0..(MaxSize - 1)
            PROVE  \E k \in L : low[k] = i
        <4>1. i \in 0..(n - 1) /\ i < MaxSize
          BY <1>1, <1>16
        <4>2. PICK k \in ks : rank[k] = i
          BY <1>13, <4>1 DEF Surjection
        <4> QED  BY <1>5, <4>1, <4>2
      <3> QED  BY <2>1, <3>1 DEF Surjection
    <2>4. IsFiniteSet(0..(MaxSize - 1)) /\ Cardinality(0..(MaxSize - 1)) = MaxSize
      BY <1>1, FS_Interval
    <2>5. Cardinality(L) = MaxSize
      BY <2>2, <2>3, <2>4, FS_Injection
    <2> QED  BY <1>1, <1>14, <1>16, <2>5 DEF L, n
  <1> QED  BY <1>1, <1>15, <1>16

-----------------------------------------------------------------------------
(* get and set.                                                            *)

(* A cache between two operations: over the keys K, ordered, finite.       *)
Sound(c, K) == PerKey(c, K) /\ Ordered(c) /\ IsFiniteSet(Stored(c))

(* get removes the entry it was asked for if that is no longer usable, and *)
(* nothing else.                                                           *)
LEMMA GetEffect ==
    ASSUME NEW K, NEW c, Sound(c, K), NEW k \in K, NEW now
    PROVE  /\ Sound(AfterGet(c, k, now), K)
           /\ Stored(AfterGet(c, k, now)) = IF Hit(c, k, now) THEN Stored(c) ELSE Stored(c) \ {k}
           /\ \A x \in K : AfterGet(c, k, now).data[x] =
                            IF x = k /\ ~Hit(c, k, now) THEN NoEntry ELSE c.data[x]
  <1>0. DOMAIN c.data = K
    BY PerKeyDomain DEF Sound
  <1>1. CASE Hit(c, k, now)
    <2>1. AfterGet(c, k, now) = MoveToEnd(c, k)
      BY <1>1 DEF AfterGet
    <2>2. k \in Stored(c) /\ Stored(c) = Stored(c) \cup {k}
      BY <1>0, <1>1 DEF Hit, Stored
    <2>3. Ordered(MoveToEnd(c, k))
      BY <2>2, MoveOrdered DEF Sound
    <2>4. /\ PerKey(MoveToEnd(c, k), K)
          /\ MoveToEnd(c, k).data = c.data /\ Stored(MoveToEnd(c, k)) = Stored(c)
      BY MoveKeepsData DEF Sound
    <2> QED  BY <1>1, <2>1, <2>3, <2>4 DEF Sound
  <1>2. CASE ~Hit(c, k, now)
    <2> DEFINE ks == Stored(c) \ {k}
    <2>1. AfterGet(c, k, now) = Only(c, ks)
      BY <1>2 DEF AfterGet
    <2>2. ks \subseteq Stored(c) /\ IsFiniteSet(ks) /\ k \notin ks
      BY FS_Subset DEF Sound
    <2>3. \A x \in K : x \in ks <=> x # k /\ c.data[x] # NoEntry
      BY <1>0 DEF Stored
    <2> HIDE DEF ks
    <2>4. /\ PerKey(Only(c, ks), K) /\ Ordered(Only(c, ks)) /\ Stored(Only(c, ks)) = ks
          /\ \A x \in K : Only(c, ks).data[x] = IF x \in ks THEN c.data[x] ELSE NoEntry
      BY <2>2, OnlyLeaves, OnlyOrdered DEF Sound
    <2>5. \A x \in K : Only(c, ks).data[x] = IF x = k THEN NoEntry ELSE c.data[x]
      BY <2>3, <2>4
    <2> QED  BY <1>2, <2>1, <2>2, <2>4, <2>5 DEF Sound, ks
  <1> QED  BY <1>1, <1>2

(* The cache into which an entry was put, before _prune.                   *)
Put(c, k, entry) == MoveToEnd([data |-> [c.data EXCEPT ![k] = entry], newer |-> c.newer], k)

LEMMA PutEffect ==
    ASSUME NEW K, NEW c, Sound(c, K), NEW k \in K, NEW entry, entry # NoEntry
    PROVE  /\ Sound(Put(c, k, entry), K)
           /\ \A x \in K : Put(c, k, entry).data[x] = IF x = k THEN entry ELSE c.data[x]
  <1> DEFINE d == [c.data EXCEPT ![k] = entry]
             p == [data |-> d, newer |-> c.newer]
  <1>0. DOMAIN c.data = K /\ c.newer = [x \in K |-> c.newer[x]]
    BY PerKeyDomain DEF Sound, PerKey
  <1>1. d = [x \in K |-> d[x]] /\ \A x \in K : d[x] = IF x = k THEN entry ELSE c.data[x]
    BY <1>0
  <1> HIDE DEF d
  <1>2. p.data = d /\ p.newer = c.newer /\ PerKey(p, K)
    BY <1>0, <1>1 DEF PerKey
  <1>3. DOMAIN p.data = K
    BY <1>2, PerKeyDomain
  <1>4. k \in Stored(p) /\ Stored(p) = Stored(c) \cup {k}
    BY <1>0, <1>1, <1>2, <1>3 DEF Stored
  <1>5. Put(c, k, entry) = MoveToEnd(p, k)
    BY DEF Put, d
  <1> HIDE DEF p
  <1>6. Ordered(MoveToEnd(p, k))
    BY <1>2, <1>4, MoveOrdered DEF Sound
  <1>7. PerKey(MoveToEnd(p, k), K) /\ MoveToEnd(p, k).data = d /\ Stored(MoveToEnd(p, k)) = Stored(p)
    BY <1>2, MoveKeepsData
  <1>8. IsFiniteSet(Stored(p))
    BY <1>4, FS_AddElement DEF Sound
  <1> QED  BY <1>1, <1>5, <1>6, <1>7, <1>8 DEF Sound

(* _prune leaves only what has not expired, never more than MaxSize, and   *)
(* everything that has not expired unless exactly MaxSize of it are left.  *)
LEMMA PruneEffect ==
    ASSUME NEW K, NEW c, Sound(c, K), NEW now
    PROVE  /\ Sound(Prune(c, now), K)
           /\ Stored(Prune(c, now)) \subseteq Alive(c, now)
           /\ Cardinality(Stored(Prune(c, now))) <= MaxSize
           /\ Cardinality(Alive(c, now)) <= MaxSize => Stored(Prune(c, now)) = Alive(c, now)
           /\ Stored(Prune(c, now)) # Alive(c, now) => Cardinality(Stored(Prune(c, now))) = MaxSize
           /\ \A x \in K : Prune(c, now).data[x] =
                            IF x \in Stored(Prune(c, now)) THEN c.data[x] ELSE NoEntry
  <1> DEFINE A == Alive(c, now)
             L == Latest(c, A)
  <1>1. A \subseteq Stored(c) /\ IsFiniteSet(A)
    BY FS_Subset DEF Alive, Sound
  <1>2. L \subseteq A
    BY DEF Latest
  <1>3. /\ IsFiniteSet(L) /\ Cardinality(L) <= MaxSize
        /\ Cardinality(A) <= MaxSize => L = A
        /\ L # A => Cardinality(L) = MaxSize
    BY <1>1, LatestSize DEF Sound
  <1>4. Prune(c, now) = Only(c, L)
    BY DEF Prune
  <1>5. L \subseteq Stored(c)
    BY <1>1, <1>2
  <1> HIDE DEF A, L
  <1>6. /\ PerKey(Only(c, L), K) /\ Ordered(Only(c, L)) /\ Stored(Only(c, L)) = L
        /\ \A x \in K : Only(c, L).data[x] = IF x \in L THEN c.data[x] ELSE NoEntry
    BY <1>5, OnlyLeaves, OnlyOrdered DEF Sound
  <1> QED  BY <1>2, <1>3, <1>4, <1>6 DEF Sound, A

(* What has not expired once entry was put under k.                        *)
AliveWith(c, K, k, entry, now) ==
    {x \in K : LET e == IF x = k THEN entry ELSE c.data[x]
               IN  e # NoEntry /\ e.expiry > now}

LEMMA SetEffect ==
    ASSUME NEW K, NEW c, Sound(c, K), NEW k \in K, NEW entry, entry # NoEntry, NEW now,
           NEW kept, kept = Stored(AfterSet(c, k, entry, now)),
           NEW alive, alive = AliveWith(c, K, k, entry, now)
    PROVE  /\ Sound(AfterSet(c, k, entry, now), K)
           /\ kept \subseteq alive
           /\ Cardinality(kept) <= MaxSize
           /\ Cardinality(alive) <= MaxSize => kept = alive
           /\ kept # alive => Cardinality(kept) = MaxSize
           /\ \A x \in K : AfterSet(c, k, entry, now).data[x] =
                IF x \notin kept THEN NoEntry ELSE IF x = k THEN entry ELSE c.data[x]
  <1> DEFINE p == Put(c, k, entry)
  <1>1. Sound(p, K) /\ \A x \in K : p.data[x] = IF x = k THEN entry ELSE c.data[x]
    BY PutEffect
  <1>2. AfterSet(c, k, entry, now) = Prune(p, now)
    BY DEF AfterSet, Put
  <1> HIDE DEF p
  <1>3. DOMAIN p.data = K
    BY <1>1, PerKeyDomain DEF Sound
  <1>4. Alive(p, now) = alive
    BY <1>1, <1>3 DEF Alive, Stored, AliveWith
  <1> QED  BY <1>1, <1>2, <1>4, PruneEffect

-----------------------------------------------------------------------------
(* Who is more recent than whom after get and set.                         *)

(* A hit is newer than everything else, and a miss changes nothing else.   *)
LEMMA GetOrder ==
    ASSUME NEW K, NEW c, Sound(c, K), NEW k \in K, NEW now,
           NEW x \in Stored(AfterGet(c, k, now))
    PROVE  AfterGet(c, k, now).newer[x] =
             IF ~Hit(c, k, now) THEN c.newer[x] \cap Stored(AfterGet(c, k, now))
             ELSE IF x = k THEN {} ELSE c.newer[x] \cup {k}
  <1>0. DOMAIN c.data = K
    BY PerKeyDomain DEF Sound
  <1>1. /\ Stored(AfterGet(c, k, now)) = IF Hit(c, k, now) THEN Stored(c) ELSE Stored(c) \ {k}
        /\ Stored(c) \subseteq K
    BY <1>0, GetEffect DEF Stored
  <1>2. CASE Hit(c, k, now)
    <2>1. x \in Stored(c) /\ x \in K /\ AfterGet(c, k, now) = MoveToEnd(c, k)
      BY <1>1, <1>2 DEF AfterGet
    <2>2. MoveToEnd(c, k).newer[x] = IF x \in Stored(c) \ {k} THEN c.newer[x] \cup {k} ELSE {}
      BY <1>0, <2>1 DEF MoveToEnd
    <2> QED  BY <1>2, <2>1, <2>2
  <1>3. CASE ~Hit(c, k, now)
    <2> DEFINE ks == Stored(c) \ {k}
    <2>1. x \in ks /\ x \in K /\ AfterGet(c, k, now) = Only(c, ks)
      BY <1>1, <1>3 DEF AfterGet
    <2>2. Only(c, ks).newer[x] = IF x \in ks THEN c.newer[x] \cap ks ELSE {}
      BY <1>0, <2>1 DEF Only
    <2> QED  BY <1>1, <1>3, <2>1, <2>2
  <1> QED  BY <1>2, <1>3

(* What _prune drops although it has not expired is older than all it      *)
(* leaves.                                                                 *)
LEMMA PruneOrder ==
    ASSUME NEW K, NEW c, Sound(c, K), NEW now
    PROVE  /\ \A x \in Stored(Prune(c, now)) :
                Prune(c, now).newer[x] = c.newer[x] \cap Stored(Prune(c, now))
           /\ \A x \in Alive(c, now) \ Stored(Prune(c, now)) :
                Stored(Prune(c, now)) \subseteq c.newer[x]
  <1> DEFINE A == Alive(c, now)
             L == Latest(c, A)
  <1>0. /\ DOMAIN c.data = K /\ A \subseteq Stored(c) /\ L \subseteq A /\ Stored(c) \subseteq K
        /\ IsFiniteSet(A)
    BY PerKeyDomain, FS_Subset DEF Sound, Alive, Latest, Stored
  <1>1. Prune(c, now) = Only(c, L) /\ Stored(Prune(c, now)) = L
    BY <1>0, OnlyLeaves DEF Prune, Sound
  <1>2. \A x \in L : Only(c, L).newer[x] = c.newer[x] \cap L
    BY <1>0 DEF Only
  <1>3. ASSUME NEW x \in A \ L, NEW y \in L
        PROVE  y \in c.newer[x]
    <2>1. x \in Stored(c) /\ y \in Stored(c) /\ y \in A
      BY <1>0
    <2>2. /\ \A k, o \in Stored(c) : k # o => (o \in c.newer[k] <=> k \notin c.newer[o])
          /\ \A k \in Stored(c) : \A o \in c.newer[k] : c.newer[o] \subseteq c.newer[k]
      BY DEF Sound, Ordered
    <2> DEFINE nx == c.newer[x] \cap A
               ny == c.newer[y] \cap A
    <2>3. ~(Cardinality(nx) < MaxSize) /\ Cardinality(ny) < MaxSize
      BY DEF Latest
    <2>4. IsFiniteSet(nx) /\ IsFiniteSet(ny)
      BY <1>0, FS_Subset
    <2>5. Cardinality(nx) \in Nat /\ Cardinality(ny) \in Nat /\ MaxSize \in Nat
      BY <2>4, FS_CardinalityType, CacheAssumption
    <2>6. ~(nx \subseteq ny)
      <3> HIDE DEF nx, ny
      <3>1. nx \subseteq ny => Cardinality(nx) <= Cardinality(ny)
        BY <2>4, FS_Subset
      <3> QED  BY <2>3, <2>5, <3>1
    <2>7. x \notin c.newer[y]
      <3>1. x \in c.newer[y] => c.newer[x] \subseteq c.newer[y]
        BY <2>1, <2>2
      <3> QED  BY <2>6, <3>1
    <2>8. x # y
      OBVIOUS
    <2> QED  BY <2>1, <2>2, <2>7, <2>8
  <1> HIDE DEF A, L
  <1> QED  BY <1>1, <1>2, <1>3 DEF A

(* set puts its entry after everything it keeps, in the order it had ...   *)
SetMoves(c, k, entry, now) ==
    LET new == AfterSet(c, k, entry, now)
    IN  \A x \in Stored(new) :
          new.newer[x] = IF x = k THEN {} ELSE (c.newer[x] \cup {k}) \cap Stored(new)

(* ... and what it drops although it has not expired is older than that.   *)
SetDropsOldest(c, K, k, entry, now) ==
    LET kept == Stored(AfterSet(c, k, entry, now))
    IN  \A x \in AliveWith(c, K, k, entry, now) \ kept : kept \ {k} \subseteq c.newer[x]

LEMMA SetOrder ==
    ASSUME NEW K, NEW c, Sound(c, K), NEW k \in K, NEW entry, entry # NoEntry, NEW now
    PROVE  SetMoves(c, k, entry, now) /\ SetDropsOldest(c, K, k, entry, now)
  <1> DEFINE kept == Stored(AfterSet(c, k, entry, now))
             alive == AliveWith(c, K, k, entry, now)
             p == Put(c, k, entry)
  <1>1. Sound(p, K) /\ \A x \in K : p.data[x] = IF x = k THEN entry ELSE c.data[x]
    BY PutEffect
  <1>2. AfterSet(c, k, entry, now) = Prune(p, now)
    BY DEF AfterSet, Put
  <1>3. DOMAIN c.data = K /\ DOMAIN [c.data EXCEPT ![k] = entry] = K
    BY PerKeyDomain DEF Sound
  <1>4. \A x \in K : p.newer[x] =
          IF x \in Stored([data |-> [c.data EXCEPT ![k] = entry], newer |-> c.newer]) \ {k}
          THEN c.newer[x] \cup {k} ELSE {}
    BY <1>3 DEF Put, MoveToEnd
  <1>5. \A x \in K : p.newer[x] \subseteq c.newer[x] \cup {k}
    BY <1>4
  <1>6. ASSUME NEW x \in K, c.data[x] # NoEntry, x # k PROVE p.newer[x] = c.newer[x] \cup {k}
    BY <1>3, <1>4, <1>6 DEF Stored
  <1>7. p.newer[k] = {}
    BY <1>4
  <1> HIDE DEF p
  <1>8. DOMAIN p.data = K
    BY <1>1, PerKeyDomain DEF Sound
  <1>9. Alive(p, now) = alive
    BY <1>1, <1>8 DEF Alive, Stored, AliveWith
  <1>10. /\ kept \subseteq alive /\ alive \subseteq K
         /\ \A x \in alive : x # k => c.data[x] # NoEntry
    <2>1. kept \subseteq alive
      BY SetEffect
    <2> QED  BY <2>1 DEF AliveWith
  <1>11. /\ \A x \in kept : Prune(p, now).newer[x] = p.newer[x] \cap kept
         /\ \A x \in alive \ kept : kept \subseteq p.newer[x]
    BY <1>1, <1>2, <1>9, PruneOrder
  <1>12. ASSUME NEW x \in kept PROVE AfterSet(c, k, entry, now).newer[x] =
                               IF x = k THEN {} ELSE (c.newer[x] \cup {k}) \cap kept
    <2>1. CASE x = k
      BY <1>2, <1>7, <1>11, <2>1
    <2>2. CASE x # k
      <3>1. p.newer[x] = c.newer[x] \cup {k}
        BY <1>6, <1>10, <2>2
      <3> QED  BY <1>2, <1>11, <2>2, <3>1
    <2> QED  BY <2>1, <2>2
  <1>13. ASSUME NEW x \in alive \ kept PROVE kept \ {k} \subseteq c.newer[x]
    BY <1>5, <1>10, <1>11
  <1> QED  BY <1>12, <1>13, Zenon DEF SetMoves, SetDropsOldest

(* The values a sound cache may take, if its entries come from E.          *)
LEMMA SoundType ==
    ASSUME NEW K, NEW c, Sound(c, K), NEW E, \A k \in K : c.data[k] \in E
    PROVE  c \in [data : [K -> E], newer : [K -> SUBSET K]]
  <1>1. DOMAIN c.data = K /\ Stored(c) \subseteq K
    BY PerKeyDomain DEF Sound, Stored
  <1>2. \A k \in K : c.newer[k] \subseteq K
    BY <1>1, OrderedParts DEF Sound
  <1> QED  BY <1>2 DEF Sound, PerKey
=============================================================================
