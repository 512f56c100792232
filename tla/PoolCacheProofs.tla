--------------------------- MODULE PoolCacheProofs ---------------------------
(* The cache of database pools: its tables agree, its limits hold and no    *)
(* pool leaks, for any requests, databases, limits and failures.            *)
EXTENDS PoolCache, FiniteSetTheorems, SequenceTheorems, TLAPS

(* A request that has a pool of its own, not yet published.                 *)
Opener(r) == req[r].pc \in {"opened", "evicting"}

(* What a request remembers at each point of Get.                           *)
RequestsOK ==
  \A r \in Request :
    /\ req[r].pc # "idle" => req[r].dsn \in Dsn /\ req[r].key \in Instance
    /\ Opener(r) => req[r].pool \in PoolId
    /\ req[r].pc \in {"idle", "lookup", "opening"} => req[r].pool = NoPool
    /\ req[r].pc # "evicting" => req[r].victim = NoPool

(* The mutex is kept between steps by a request that evicts, which then     *)
(* still may insert.                                                        *)
MutexOK ==
  \A r \in Request :
    /\ req[r].pc = "evicting" <=> mu = r
    /\ req[r].pc = "evicting" => req[r].dsn \notin Cached /\ ~ AtCap(req[r].key)

(* The LRU list names every cached DSN, once.                               *)
ListOK ==
  /\ {order[i] : i \in DOMAIN order} = Cached
  /\ \A i, j \in DOMAIN order : order[i] = order[j] => i = j

Counted(k) == {d \in Cached : byDSN[d] = k}

CountsOK ==
  /\ \A d \in Cached : byDSN[d] \in Instance
  /\ \A k \in Instance : stats[k].open = Cardinality(Counted(k))

PoolsDistinct ==
  /\ \A d, e \in Cached : pools[d] = pools[e] => d = e
  /\ \A q, r \in Request : Opener(q) /\ Opener(r) /\ req[q].pool = req[r].pool => q = r
  /\ \A d \in Cached, r \in Request : Opener(r) => pools[d] # req[r].pool

PoolInv ==
  /\ PoolTypeOK /\ RequestsOK /\ MutexOK /\ ListOK /\ CountsOK
  /\ LimitsHold /\ PoolsDistinct /\ OpenPoolsAccounted

-----------------------------------------------------------------------------
(* Facts about the tables                                                   *)

LEMMA NoPoolIsNoId == NoPool \notin PoolId
  BY DEF NoPool, PoolId

LEMMA CachedFinite == IsFiniteSet(Cached) /\ Cardinality(Cached) \in Nat
  <1>1. IsFiniteSet(Cached)
    BY PoolCacheAssumption, FS_Subset DEF Cached
  <1>2. QED
    BY <1>1, FS_CardinalityType

(* A list without repetitions is as long as the set it lists.               *)
LEMMA ListLength ==
  ASSUME order \in Seq(Dsn), ListOK
  PROVE  Len(order) = Cardinality(Cached)
<1>1. Len(order) \in Nat /\ DOMAIN order = 1..Len(order) /\ order \in [1..Len(order) -> Dsn]
  BY LenProperties
<1>2. order \in Bijection(1..Len(order), Cached)
  <2>1. order \in [1..Len(order) -> Cached]
    BY <1>1 DEF ListOK
  <2>2. \A d \in Cached : \E i \in 1..Len(order) : order[i] = d
    BY <1>1 DEF ListOK
  <2>3. \A i, j \in 1..Len(order) : order[i] = order[j] => i = j
    BY <1>1 DEF ListOK
  <2>4. QED
    BY <2>1, <2>2, <2>3 DEF Bijection, Injection, Surjection, IsInjective
<1>3. QED
  BY <1>1, <1>2, FS_CountingElements DEF ExistsBijection

(* touchLocked permutes the list.                                           *)
LEMMA TouchedOK ==
  ASSUME order \in Seq(Dsn), ListOK, NEW d \in Cached
  PROVE  /\ Touched(d) \in Seq(Dsn)
         /\ {Touched(d)[i] : i \in DOMAIN Touched(d)} = Cached
         /\ \A i, j \in DOMAIN Touched(d) : Touched(d)[i] = Touched(d)[j] => i = j
<1> DEFINE n == Len(order)
           p == PlaceOf(d)
           s == SubSeq(order, 1, p - 1)
           t == SubSeq(order, p + 1, n)
<1>1. n \in Nat /\ DOMAIN order = 1..n /\ (\A i \in 1..n : order[i] \in Dsn)
  BY LenProperties
<1>2. p \in 1..n /\ order[p] = d
  <2>1. \E i \in DOMAIN order : order[i] = d
    BY DEF ListOK
  <2>2. QED
    BY <1>1, <2>1 DEF PlaceOf
<1>3. s \in Seq(Dsn) /\ Len(s) = p - 1 /\ (\A i \in 1..(p - 1) : s[i] = order[i])
  BY <1>1, <1>2, SubSeqProperties
<1>4. t \in Seq(Dsn) /\ Len(t) = n - p /\ (\A i \in 1..(n - p) : t[i] = order[p + i])
  <2>1. \A i \in (p + 1)..n : order[i] \in Dsn
    BY <1>1, <1>2
  <2>2. /\ t \in Seq(Dsn)
        /\ Len(t) = IF p + 1 <= n THEN n - (p + 1) + 1 ELSE 0
        /\ \A i \in 1..(n - (p + 1) + 1) : t[i] = order[(p + 1) + i - 1]
    BY <1>1, <1>2, <2>1, SubSeqProperties
  <2>3. QED
    BY <1>1, <1>2, <2>2
<1> HIDE DEF n, p, s, t
<1> DEFINE u == s \o t
<1>5. u \in Seq(Dsn) /\ Len(u) = n - 1 /\ (\A i \in 1..(n - 1) : u[i] = IF i < p THEN order[i] ELSE order[i + 1])
  <2>1. /\ u \in Seq(Dsn) /\ Len(u) = (p - 1) + (n - p)
        /\ \A i \in 1..((p - 1) + (n - p)) : u[i] = IF i <= p - 1 THEN s[i] ELSE t[i - (p - 1)]
    <3>1. /\ u \in Seq(Dsn) /\ Len(u) = Len(s) + Len(t)
          /\ \A i \in 1..(Len(s) + Len(t)) : u[i] = IF i <= Len(s) THEN s[i] ELSE t[i - Len(s)]
      BY <1>3, <1>4, ConcatProperties
    <3>2. QED
      BY <1>3, <1>4, <3>1
  <2> HIDE DEF u
  <2>2. ASSUME NEW i \in 1..(n - 1)
        PROVE  u[i] = IF i < p THEN order[i] ELSE order[i + 1]
    <3>1. CASE i < p
      BY <1>1, <1>2, <1>3, <2>1, <3>1
    <3>2. CASE ~ (i < p)
      <4>1. i - (p - 1) \in 1..(n - p) /\ p + (i - (p - 1)) = i + 1
        BY <1>1, <1>2, <3>2
      <4>2. u[i] = t[i - (p - 1)]
        BY <1>1, <1>2, <2>1, <3>2
      <4>3. QED
        BY <1>4, <3>2, <4>1, <4>2
    <3>3. QED
      BY <3>1, <3>2
  <2>3. QED
    BY <1>1, <1>2, <2>1, <2>2
<1> HIDE DEF u
<1> DEFINE v == Append(u, d)
<1>6. d \in Dsn
  BY DEF Cached
<1>7. v \in Seq(Dsn) /\ DOMAIN v = 1..n /\ v[n] = d /\ (\A i \in 1..(n - 1) : v[i] = u[i])
  <2>1. /\ v \in Seq(Dsn) /\ Len(v) = (n - 1) + 1 /\ v[(n - 1) + 1] = d
        /\ \A i \in 1..(n - 1) : v[i] = u[i]
    BY <1>5, <1>6, AppendProperties
  <2>2. DOMAIN v = 1..Len(v)
    BY <2>1, LenProperties
  <2>3. QED
    BY <1>1, <2>1, <2>2
<1>11. Touched(d) = v
  BY DEF Touched, v, u, s, t, p, n
<1> HIDE DEF v
<1> DEFINE at(i) == IF i = n THEN p ELSE IF i < p THEN i ELSE i + 1
<1>8. \A i \in 1..n : at(i) \in 1..n /\ v[i] = order[at(i)]
  BY <1>1, <1>2, <1>5, <1>7
<1>9. \A i, j \in 1..n : at(i) = at(j) => i = j
  BY <1>1, <1>2
<1>10. \A i \in 1..n : \E j \in 1..n : at(j) = i
  <2>1. ASSUME NEW i \in 1..n PROVE \E j \in 1..n : at(j) = i
    <3>1. CASE i = p
      BY <1>1, <1>2, <3>1
    <3>2. CASE i < p
      BY <1>1, <1>2, <3>2
    <3>3. CASE i > p
      <4>1. i - 1 \in 1..n /\ at(i - 1) = i
        BY <1>1, <1>2, <3>3
      <4>2. QED
        BY <4>1
    <3>4. QED
      BY <1>1, <1>2, <3>1, <3>2, <3>3
  <2>2. QED
    BY <2>1
<1> HIDE DEF at
<1>12. {v[i] : i \in DOMAIN v} = Cached
  <2>1. \A i \in DOMAIN v : v[i] \in Cached
    BY <1>1, <1>7, <1>8 DEF ListOK
  <2>2. \A e \in Cached : \E i \in DOMAIN v : v[i] = e
    BY <1>1, <1>7, <1>8, <1>10 DEF ListOK
  <2>3. QED
    BY <2>1, <2>2
<1>13. \A i, j \in DOMAIN v : v[i] = v[j] => i = j
  BY <1>1, <1>7, <1>8, <1>9 DEF ListOK
<1>14. QED
  BY <1>7, <1>11, <1>12, <1>13

LEMMA ImageBound ==
  ASSUME NEW S, IsFiniteSet(S), NEW T, NEW f \in [S -> T], \A y \in T : \E x \in S : f[x] = y
  PROVE  IsFiniteSet(T) /\ Cardinality(T) \in Nat /\ Cardinality(T) <= Cardinality(S)
<1>1. f \in Surjection(S, T)
  BY DEF Surjection
<1>2. QED
  BY <1>1, FS_Surjection, FS_CardinalityType

(* There is a name for the pool that is opened: the cached pools and those  *)
(* of the other requests leave at least two over.                           *)
LEMMA FreshPool ==
  ASSUME PoolInv, NEW r \in Request, req[r].pc = "opening"
  PROVE  /\ Fresh \in PoolId /\ Fresh \notin opened
         /\ \A q \in Request : Fresh # req[q].pool
<1> DEFINE R == Request \ {r}
           A == {pools[d] : d \in Cached}
           B == {req[q].pool : q \in R}
           C == {req[q].victim : q \in R}
           m == Cardinality(Request)
<1>1. m \in Nat /\ IsFiniteSet(R) /\ Cardinality(R) = m - 1
  BY PoolCacheAssumption, FS_CardinalityType, FS_RemoveElement
<1>2. IsFiniteSet(A) /\ Cardinality(A) \in Nat /\ Cardinality(A) <= MaxPools
  <2> DEFINE f == [d \in Cached |-> pools[d]]
  <2>1. f \in [Cached -> A] /\ (\A y \in A : \E d \in Cached : f[d] = y)
    OBVIOUS
  <2> HIDE DEF f, A
  <2>2. IsFiniteSet(A) /\ Cardinality(A) \in Nat /\ Cardinality(A) <= Cardinality(Cached)
    BY <1>1, <2>1, CachedFinite, ImageBound
  <2>3. QED
    BY <1>1, <2>2, CachedFinite, PoolCacheAssumption DEF PoolInv, LimitsHold
<1>3. IsFiniteSet(B) /\ Cardinality(B) \in Nat /\ Cardinality(B) <= m - 1
  <2> DEFINE f == [q \in R |-> req[q].pool]
  <2>1. f \in [R -> B] /\ (\A y \in B : \E q \in R : f[q] = y)
    OBVIOUS
  <2> HIDE DEF f, B
  <2>2. IsFiniteSet(B) /\ Cardinality(B) \in Nat /\ Cardinality(B) <= Cardinality(R)
    BY <1>1, <2>1, CachedFinite, ImageBound
  <2>3. QED
    BY <1>1, <2>2, CachedFinite, PoolCacheAssumption DEF PoolInv, LimitsHold
<1>4. IsFiniteSet(C) /\ Cardinality(C) \in Nat /\ Cardinality(C) <= m - 1
  <2> DEFINE f == [q \in R |-> req[q].victim]
  <2>1. f \in [R -> C] /\ (\A y \in C : \E q \in R : f[q] = y)
    OBVIOUS
  <2> HIDE DEF f, C
  <2>2. IsFiniteSet(C) /\ Cardinality(C) \in Nat /\ Cardinality(C) <= Cardinality(R)
    BY <1>1, <2>1, CachedFinite, ImageBound
  <2>3. QED
    BY <1>1, <2>2, CachedFinite, PoolCacheAssumption DEF PoolInv, LimitsHold
<1> HIDE DEF A, B, C, m
<1>5. IsFiniteSet((A \cup B) \cup C) /\ Cardinality((A \cup B) \cup C) \in Nat
      /\ Cardinality((A \cup B) \cup C) <= MaxPools + 2 * m - 2
  <2>1. IsFiniteSet(A \cup B) /\ Cardinality(A \cup B) = Cardinality(A) + Cardinality(B) - Cardinality(A \cap B)
        /\ Cardinality(A \cap B) \in Nat
    BY <1>2, <1>3, FS_Union, FS_Intersection, FS_CardinalityType
  <2>2. IsFiniteSet((A \cup B) \cup C)
        /\ Cardinality((A \cup B) \cup C)
             = Cardinality(A \cup B) + Cardinality(C) - Cardinality((A \cup B) \cap C)
        /\ Cardinality((A \cup B) \cap C) \in Nat
    BY <1>4, <2>1, FS_Union, FS_Intersection, FS_CardinalityType
  <2>3. Cardinality((A \cup B) \cup C) \in Nat
    BY <2>2, FS_CardinalityType
  <2>4. QED
    BY <1>1, <1>2, <1>3, <1>4, <2>1, <2>2, <2>3, PoolCacheAssumption
<1>6. IsFiniteSet(PoolId) /\ Cardinality(PoolId) = MaxPools + 2 * m
  <2>1. MaxPools + 2 * m \in Nat
    BY <1>1, PoolCacheAssumption
  <2>2. PoolId = 1..(MaxPools + 2 * m)
    BY DEF PoolId, m
  <2>3. IsFiniteSet(1..(MaxPools + 2 * m))
        /\ Cardinality(1..(MaxPools + 2 * m)) = IF 1 > MaxPools + 2 * m THEN 0 ELSE (MaxPools + 2 * m) - 1 + 1
    BY <2>1, FS_Interval
  <2>4. QED
    BY <2>1, <2>2, <2>3
<1>7. \E p \in PoolId : p \notin (A \cup B) \cup C
  <2>1. SUFFICES ASSUME PoolId \subseteq (A \cup B) \cup C PROVE FALSE
    OBVIOUS
  <2>2. Cardinality(PoolId) <= Cardinality((A \cup B) \cup C)
    BY <1>5, <2>1, FS_Subset
  <2>3. QED
    BY <1>1, <1>5, <1>6, <2>2, PoolCacheAssumption
<1>8. PICK p \in PoolId : p \notin (A \cup B) \cup C
  BY <1>7
<1>9. req[r].pool = NoPool /\ req[r].victim = NoPool /\ p # NoPool
  BY NoPoolIsNoId DEF PoolInv, RequestsOK
<1>10. opened \subseteq A \cup B
  BY <1>9 DEF PoolInv, OpenPoolsAccounted, A, B
<1>11. p \notin opened /\ (\A q \in Request : p # req[q].pool /\ p # req[q].victim)
  <2>1. p \notin opened
    BY <1>8, <1>10
  <2>2. ASSUME NEW q \in Request PROVE p # req[q].pool /\ p # req[q].victim
    <3>1. CASE q = r
      BY <1>9, <3>1
    <3>2. CASE q # r
      BY <1>8, <3>2 DEF B, C
    <3>3. QED
      BY <3>1, <3>2
  <2>3. QED
    BY <2>1, <2>2
<1>12. QED
  BY <1>11 DEF Fresh

-----------------------------------------------------------------------------
(* The invariant                                                            *)

LEMMA InitInv == PoolInit => PoolInv
<1> SUFFICES ASSUME PoolInit PROVE PoolInv
  OBVIOUS
<1> USE DEF PoolInit
<1>1. Cached = {} /\ (\A k : Counted(k) = {})
  BY DEF Cached, Counted
<1>2. PoolTypeOK
  BY PoolCacheAssumption DEF PoolTypeOK, RequestRecord, StatsRecord, Idle
<1>3. RequestsOK /\ MutexOK
  BY UnlockedAssumption DEF RequestsOK, MutexOK, Opener, Idle
<1>4. ListOK
  BY <1>1 DEF ListOK
<1>5. CountsOK
  BY <1>1, FS_EmptySet DEF CountsOK
<1>6. LimitsHold
  <2>1. \A k \in Instance : {d \in Cached : byDSN[d] = k} = {}
    BY <1>1
  <2>2. QED
    BY <1>1, <2>1, FS_EmptySet, PoolCacheAssumption DEF LimitsHold
<1>7. PoolsDistinct /\ OpenPoolsAccounted
  BY <1>1 DEF PoolsDistinct, OpenPoolsAccounted, Opener, Idle
<1>8. QED
  BY <1>2, <1>3, <1>4, <1>5, <1>6, <1>7 DEF PoolInv

(* Steps that leave the cached pools and the counts alone.                  *)
LEMMA TablesKept ==
  ASSUME PoolInv, UNCHANGED <<pools, byDSN>>,
         \A k \in Instance : stats'[k].open = stats[k].open
  PROVE  /\ Cached' = Cached
         /\ CountsOK' /\ LimitsHold'
         /\ \A k \in Instance : AtCap(k)' = AtCap(k)
<1>1. Cached' = Cached
  BY DEF Cached
<1>2. \A k \in Instance : Counted(k)' = Counted(k)
  BY <1>1 DEF Counted
<1>3. CountsOK'
  BY <1>1, <1>2 DEF PoolInv, CountsOK
<1>4. LimitsHold'
  BY <1>1 DEF PoolInv, LimitsHold
<1>5. QED
  BY <1>1, <1>3, <1>4 DEF AtCap

(* Nobody comes to own another pool, and the cache has the pools it had.    *)
LEMMA OwnersKept ==
  ASSUME PoolInv, UNCHANGED pools,
         \A q \in Request : Opener(q)' => Opener(q) /\ req'[q].pool = req[q].pool
  PROVE  PoolsDistinct'
<1>1. Cached' = Cached
  BY DEF Cached
<1>2. PoolsDistinct
  BY DEF PoolInv
<1>3. QED
  BY <1>1, <1>2 DEF PoolsDistinct, Opener

LEMMA MutexKept ==
  ASSUME PoolInv, UNCHANGED <<mu, pools>>, \A k \in Instance : AtCap(k)' = AtCap(k),
         \A q \in Request : /\ req'[q].pc = "evicting" <=> req[q].pc = "evicting"
                            /\ req[q].pc = "evicting" => req'[q].dsn = req[q].dsn /\ req'[q].key = req[q].key
  PROVE  MutexOK'
<1>1. Cached' = Cached
  BY DEF Cached
<1>2. MutexOK /\ (\A q \in Request : req[q].pc = "evicting" => req[q].key \in Instance)
  BY DEF PoolInv, RequestsOK
<1>3. QED
  BY <1>1, <1>2 DEF MutexOK

(* A step of one request that ends without a pool of its own and without    *)
(* the mutex: a pool it had opened is closed, the list may be reordered,    *)
(* and the rest of the tables stays.                                        *)
LEMMA RequestStep ==
  ASSUME PoolInv, NEW r \in Request, NEW v,
         req' = [req EXCEPT ![r] = v], v \in RequestRecord,
         req[r].pc # "evicting", v.pc \notin {"opened", "evicting"}, v.victim = NoPool,
         v.pc # "idle" => v.dsn \in Dsn /\ v.key \in Instance,
         v.pc \in {"idle", "lookup", "opening"} => v.pool = NoPool,
         opened' = IF Opener(r) THEN opened \ {req[r].pool} ELSE opened,
         order' \in Seq(Dsn), ListOK',
         UNCHANGED <<pools, byDSN, mu, trouble>>,
         stats' \in [Instance -> StatsRecord],
         \A k \in Instance : stats'[k].open = stats[k].open
  PROVE  PoolInv'
<1>1. PoolTypeOK /\ RequestsOK /\ PoolsDistinct /\ OpenPoolsAccounted
  BY DEF PoolInv
<1>2. /\ req'[r] = v
      /\ \A q \in Request \ {r} : req'[q] = req[q]
  BY <1>1 DEF PoolTypeOK
<1>3. PoolTypeOK'
  BY <1>1 DEF PoolTypeOK
<1>4. /\ Cached' = Cached /\ CountsOK' /\ LimitsHold'
      /\ \A k \in Instance : AtCap(k)' = AtCap(k)
  BY TablesKept
<1>5. RequestsOK'
  BY <1>1, <1>2 DEF RequestsOK, Opener
<1>6. MutexOK'
  BY <1>2, <1>4, MutexKept
<1>7. \A q \in Request : Opener(q)' = (q # r /\ Opener(q)) /\ (q # r => req'[q].pool = req[q].pool)
  BY <1>2 DEF Opener
<1>8. PoolsDistinct'
  BY <1>7, OwnersKept
<1>9. OpenPoolsAccounted'
  <2>1. opened = {pools[d] : d \in Cached} \cup {req[q].pool : q \in {p \in Request : Opener(p)}}
    BY <1>1 DEF OpenPoolsAccounted, Opener
  <2>2. {req'[q].pool : q \in {p \in Request : Opener(p)'}}
          = {req[q].pool : q \in {p \in Request : p # r /\ Opener(p)}}
    BY <1>7
  <2>3. opened' = {pools[d] : d \in Cached} \cup {req[q].pool : q \in {p \in Request : p # r /\ Opener(p)}}
    <3>1. CASE Opener(r)
      <4>1. req[r].pool \notin {pools[d] : d \in Cached}
        BY <1>1, <3>1 DEF PoolsDistinct
      <4>2. {req[q].pool : q \in {p \in Request : Opener(p)}} \ {req[r].pool}
              = {req[q].pool : q \in {p \in Request : p # r /\ Opener(p)}}
        BY <1>1, <3>1 DEF PoolsDistinct
      <4>3. QED
        BY <2>1, <3>1, <4>1, <4>2
    <3>2. CASE ~ Opener(r)
      BY <2>1, <3>2
    <3>3. QED
      BY <3>1, <3>2
  <2>4. QED
    BY <1>4, <2>2, <2>3 DEF OpenPoolsAccounted, Opener
<1>10. QED
  BY <1>3, <1>4, <1>5, <1>6, <1>8, <1>9 DEF PoolInv

LEMMA IdleRecord == Idle \in RequestRecord
  BY DEF Idle, RequestRecord

LEMMA StartKeepsInv ==
  ASSUME PoolInv, NEW r \in Request, Start(r)
  PROVE  PoolInv'
<1>1. PICK route \in Route :
        req' = [req EXCEPT ![r] = [Idle EXCEPT !.pc = "lookup", !.dsn = route[1], !.key = route[2]]]
  BY DEF Start
<1> DEFINE v == [Idle EXCEPT !.pc = "lookup", !.dsn = route[1], !.key = route[2]]
<1>2. route[1] \in Dsn /\ route[2] \in Instance
  BY PoolCacheAssumption
<1>3. /\ v \in RequestRecord /\ v.pc = "lookup" /\ v.dsn \in Dsn /\ v.key \in Instance
      /\ v.pool = NoPool /\ v.victim = NoPool
  BY <1>2 DEF Idle, RequestRecord
<1> HIDE DEF v
<1>4. req' = [req EXCEPT ![r] = v]
  BY <1>1 DEF v
<1>5. req[r].pc = "idle" /\ UNCHANGED <<pools, byDSN, order, stats, mu, opened, trouble>>
  BY DEF Start, cacheVars
<1>6. /\ order' \in Seq(Dsn) /\ ListOK' /\ ~ Opener(r)
      /\ stats' \in [Instance -> StatsRecord]
  BY <1>5 DEF PoolInv, PoolTypeOK, ListOK, Cached, Opener
<1>7. QED
  BY <1>3, <1>4, <1>5, <1>6, RequestStep

(* The request gives up.                                                    *)
LEMMA ReturnKeepsInv ==
  ASSUME PoolInv, NEW r \in Request, req[r].pc # "evicting", Return(r),
         opened' = IF Opener(r) THEN opened \ {req[r].pool} ELSE opened,
         UNCHANGED <<pools, byDSN, order, mu, trouble>>,
         stats' \in [Instance -> StatsRecord],
         \A k \in Instance : stats'[k].open = stats[k].open
  PROVE  PoolInv'
<1>1. order' \in Seq(Dsn) /\ ListOK'
  BY DEF PoolInv, PoolTypeOK, ListOK, Cached
<1>2. Idle.pc = "idle" /\ Idle.pool = NoPool /\ Idle.victim = NoPool
  BY DEF Idle
<1>3. req' = [req EXCEPT ![r] = Idle]
  BY DEF Return
<1>4. QED
  BY <1>1, <1>2, <1>3, IdleRecord, RequestStep

(* The request is handed a cached pool.                                     *)
LEMMA HitKeepsInv ==
  ASSUME PoolInv, NEW r \in Request, req[r].pc \in {"lookup", "opened"}, Hit(r),
         opened' = IF Opener(r) THEN opened \ {req[r].pool} ELSE opened,
         UNCHANGED <<pools, byDSN, stats, mu, trouble>>
  PROVE  PoolInv'
<1> DEFINE d == req[r].dsn
           v == [req[r] EXCEPT !.pc = "got", !.pool = pools[d]]
<1>1. PoolTypeOK /\ RequestsOK /\ ListOK
  BY DEF PoolInv
<1>2. d \in Cached /\ order' = Touched(d) /\ req' = [req EXCEPT ![r] = v]
  BY DEF Hit, ReturnPool
<1>3. Cached' = Cached
  BY DEF Cached
<1>4. order' \in Seq(Dsn) /\ ListOK'
  BY <1>1, <1>2, <1>3, TouchedOK DEF PoolTypeOK, ListOK
<1>5. pools[d] \in PoolId
  BY <1>1, <1>2 DEF PoolTypeOK, Cached
<1>6. /\ v \in RequestRecord /\ v.pc = "got" /\ v.victim = NoPool
      /\ v.dsn \in Dsn /\ v.key \in Instance
  <2>1. req[r] \in RequestRecord /\ req[r].dsn \in Dsn /\ req[r].key \in Instance /\ req[r].victim = NoPool
    BY <1>1 DEF PoolTypeOK, RequestsOK
  <2>2. QED
    BY <1>5, <2>1 DEF RequestRecord
<1> HIDE DEF v
<1>7. stats' \in [Instance -> StatsRecord]
  BY <1>1 DEF PoolTypeOK
<1>8. QED
  BY <1>2, <1>4, <1>6, <1>7, RequestStep

LEMMA LookupKeepsInv ==
  ASSUME PoolInv, NEW r \in Request, Lookup(r)
  PROVE  PoolInv'
<1>1. PoolTypeOK /\ RequestsOK /\ ListOK
  BY DEF PoolInv
<1>2. /\ req[r].pc = "lookup" /\ ~ Opener(r)
      /\ UNCHANGED <<pools, byDSN, stats, mu, opened, trouble>>
      /\ stats' \in [Instance -> StatsRecord]
  BY <1>1 DEF Lookup, Opener, PoolTypeOK
<1>3. CASE Return(r) /\ UNCHANGED order
  BY <1>2, <1>3, ReturnKeepsInv
<1>4. CASE Hit(r)
  BY <1>2, <1>4, HitKeepsInv
<1>5. CASE req' = [req EXCEPT ![r].pc = "opening"] /\ UNCHANGED order
  <2> DEFINE v == [req[r] EXCEPT !.pc = "opening"]
  <2>1. req' = [req EXCEPT ![r] = v]
    BY <1>5
  <2>2. /\ req[r] \in RequestRecord /\ req[r].dsn \in Dsn /\ req[r].key \in Instance
        /\ req[r].pool = NoPool /\ req[r].victim = NoPool
    BY <1>1, <1>2 DEF PoolTypeOK, RequestsOK
  <2>3. /\ v \in RequestRecord /\ v.pc = "opening" /\ v.dsn \in Dsn /\ v.key \in Instance
        /\ v.pool = NoPool /\ v.victim = NoPool
    BY <2>2 DEF RequestRecord
  <2> HIDE DEF v
  <2>4. order' \in Seq(Dsn) /\ ListOK'
    BY <1>1, <1>2, <1>5 DEF PoolTypeOK, ListOK, Cached
  <2>5. QED
    BY <1>2, <2>1, <2>3, <2>4, RequestStep
<1>6. QED
  BY <1>3, <1>4, <1>5 DEF Lookup

LEMMA OpenFailsKeepsInv ==
  ASSUME PoolInv, NEW r \in Request, OpenFails(r)
  PROVE  PoolInv'
<1> DEFINE k == req[r].key
           n == IF stats[k].failures < Threshold THEN stats[k].failures + 1 ELSE Threshold
<1>1. PoolTypeOK /\ RequestsOK
  BY DEF PoolInv
<1>2. /\ req[r].pc = "opening" /\ ~ Opener(r) /\ Return(r)
      /\ UNCHANGED <<pools, byDSN, order, mu, opened, trouble>>
  BY DEF OpenFails, Opener
<1>3. stats' = [stats EXCEPT ![k].failures = n, ![k].cooldown = IF n >= Threshold THEN Cooldown ELSE @]
  BY DEF OpenFails
<1>4. k \in Instance /\ stats \in [Instance -> StatsRecord]
  BY <1>1, <1>2 DEF PoolTypeOK, RequestsOK
<1>5. stats[k].failures \in 0..Threshold /\ stats[k].cooldown \in 0..Cooldown
  BY <1>4 DEF StatsRecord
<1>6. n \in 0..Threshold
  BY <1>5, PoolCacheAssumption
<1> HIDE DEF n, k
<1>7. /\ stats' \in [Instance -> StatsRecord]
      /\ \A j \in Instance : stats'[j].open = stats[j].open
  <2>1. Cooldown \in 0..Cooldown
    BY PoolCacheAssumption
  <2>2. QED
    BY <1>3, <1>4, <1>5, <1>6, <2>1 DEF StatsRecord
<1>8. QED
  BY <1>2, <1>7, ReturnKeepsInv

LEMMA LostRaceKeepsInv ==
  ASSUME PoolInv, NEW r \in Request, LostRace(r) \/ LateCap(r)
  PROVE  PoolInv'
<1>1. req[r].pc = "opened" /\ Opener(r) /\ stats \in [Instance -> StatsRecord]
  BY DEF LostRace, LateCap, Opener, PoolInv, PoolTypeOK
<1>2. CASE LostRace(r)
  BY <1>1, <1>2, HitKeepsInv DEF LostRace
<1>3. CASE LateCap(r)
  BY <1>1, <1>3, ReturnKeepsInv DEF LateCap, cacheVars
<1>4. QED
  BY <1>2, <1>3

LEMMA ConnectKeepsInv ==
  ASSUME PoolInv, NEW r \in Request, Connect(r) \/ Disconnect(r)
  PROVE  PoolInv'
<1>1. PoolTypeOK /\ RequestsOK /\ ListOK
  BY DEF PoolInv
<1>2. /\ req[r].pc \in {"got", "busy"} /\ ~ Opener(r)
      /\ UNCHANGED <<pools, byDSN, order, stats, mu, opened, trouble>>
      /\ stats' \in [Instance -> StatsRecord]
  BY <1>1 DEF Connect, Disconnect, cacheVars, Opener, PoolTypeOK
<1>3. CASE Return(r)
  BY <1>2, <1>3, ReturnKeepsInv
<1>4. CASE req' = [req EXCEPT ![r].pc = "busy"]
  <2> DEFINE v == [req[r] EXCEPT !.pc = "busy"]
  <2>1. req' = [req EXCEPT ![r] = v]
    BY <1>4
  <2>2. /\ req[r] \in RequestRecord /\ req[r].dsn \in Dsn /\ req[r].key \in Instance /\ req[r].victim = NoPool
    BY <1>1, <1>2 DEF PoolTypeOK, RequestsOK
  <2>3. /\ v \in RequestRecord /\ v.pc = "busy" /\ v.dsn \in Dsn /\ v.key \in Instance
        /\ v.victim = NoPool
    BY <2>2 DEF RequestRecord
  <2> HIDE DEF v
  <2>4. order' \in Seq(Dsn) /\ ListOK'
    BY <1>1, <1>2 DEF PoolTypeOK, ListOK, Cached
  <2>5. QED
    BY <1>2, <2>1, <2>3, <2>4, RequestStep
<1>5. QED
  BY <1>3, <1>4 DEF Connect, Disconnect

LEMMA OpenKeepsInv ==
  ASSUME PoolInv, NEW r \in Request, Open(r)
  PROVE  PoolInv'
<1> DEFINE f == Fresh
           v == [req[r] EXCEPT !.pc = "opened", !.pool = f]
<1>1. PoolTypeOK /\ RequestsOK /\ ListOK /\ PoolsDistinct /\ OpenPoolsAccounted
  BY DEF PoolInv
<1>2. /\ req[r].pc = "opening" /\ ~ Opener(r)
      /\ req' = [req EXCEPT ![r] = v] /\ opened' = opened \cup {f}
      /\ UNCHANGED <<pools, byDSN, order, stats, mu, trouble>>
  BY DEF Open, Opener, cacheVars
<1>3. f \in PoolId /\ f \notin opened /\ (\A q \in Request : f # req[q].pool)
  BY <1>2, FreshPool
<1> HIDE DEF f
<1>4. /\ req[r] \in RequestRecord /\ req[r].dsn \in Dsn /\ req[r].key \in Instance /\ req[r].victim = NoPool
  BY <1>1, <1>2 DEF PoolTypeOK, RequestsOK
<1>5. /\ v \in RequestRecord /\ v.pc = "opened" /\ v.pool = f
      /\ v.dsn \in Dsn /\ v.key \in Instance /\ v.victim = NoPool
  BY <1>3, <1>4 DEF RequestRecord
<1> HIDE DEF v
<1>6. /\ req'[r] = v
      /\ \A q \in Request \ {r} : req'[q] = req[q]
  BY <1>1, <1>2 DEF PoolTypeOK
<1>7. PoolTypeOK'
  BY <1>1, <1>2, <1>3, <1>5 DEF PoolTypeOK
<1>8. /\ Cached' = Cached /\ CountsOK' /\ LimitsHold'
      /\ \A k \in Instance : AtCap(k)' = AtCap(k)
  BY <1>2, TablesKept
<1>9. RequestsOK'
  BY <1>1, <1>3, <1>5, <1>6 DEF RequestsOK, Opener
<1>10. MutexOK'
  BY <1>2, <1>5, <1>6, <1>8, MutexKept
<1>11. ListOK'
  BY <1>1, <1>2, <1>8 DEF ListOK
<1>12. /\ Opener(r)' /\ req'[r].pool = f
       /\ \A q \in Request \ {r} : Opener(q)' = Opener(q) /\ req'[q].pool = req[q].pool
  BY <1>5, <1>6 DEF Opener
<1>13. PoolsDistinct'
  <2>1. \A d \in Cached : pools[d] # f
    BY <1>1, <1>3 DEF OpenPoolsAccounted
  <2>2. QED
    BY <1>1, <1>2, <1>3, <1>8, <1>12, <2>1 DEF PoolsDistinct, Opener
<1>14. OpenPoolsAccounted'
  <2>1. {req'[q].pool : q \in {p \in Request : Opener(p)'}}
          = {req[q].pool : q \in {p \in Request : Opener(p)}} \cup {f}
    BY <1>2, <1>12
  <2>2. opened = {pools[d] : d \in Cached} \cup {req[q].pool : q \in {p \in Request : Opener(p)}}
    BY <1>1 DEF OpenPoolsAccounted, Opener
  <2>3. QED
    BY <1>2, <1>8, <2>1, <2>2 DEF OpenPoolsAccounted, Opener
<1>15. QED
  BY <1>7, <1>8, <1>9, <1>10, <1>11, <1>13, <1>14 DEF PoolInv

(* The request is in its second critical section, or back in it after a     *)
(* victim was closed, and still may insert.                                 *)
MayGoOn(r) ==
  /\ Opener(r) /\ mu \in {Unlocked, r}
  /\ req[r].dsn \notin Cached /\ ~ AtCap(req[r].key)

(* Nobody else keeps the mutex then.                                        *)
LEMMA AloneInside ==
  ASSUME PoolInv, NEW r \in Request, MayGoOn(r)
  PROVE  \A q \in Request \ {r} : req[q].pc # "evicting"
BY UnlockedAssumption DEF PoolInv, MutexOK, MayGoOn

(* The pool that is evicted leaves all four tables and is closed.           *)
LEMMA EvictKeepsInv ==
  ASSUME PoolInv, NEW r \in Request, MayGoOn(r), Evict(r), UNCHANGED trouble
  PROVE  PoolInv'
<1> DEFINE d == Head(order)
           p == pools[d]
           j == byDSN[d]
           v == [req[r] EXCEPT !.pc = "evicting", !.victim = p]
<1>1. PoolTypeOK /\ RequestsOK /\ ListOK /\ CountsOK /\ LimitsHold /\ PoolsDistinct /\ OpenPoolsAccounted
  BY DEF PoolInv
<1>2. /\ order' = Tail(order) /\ mu' = r
      /\ stats' = [stats EXCEPT ![j].open = IF @ > 0 THEN @ - 1 ELSE @]
      /\ pools' = [pools EXCEPT ![d] = NoPool]
      /\ byDSN' = [byDSN EXCEPT ![d] = "none"]
      /\ opened' = opened \ {p}
      /\ req' = [req EXCEPT ![r] = v]
  BY DEF Evict, CountEvicted
<1>3. /\ d \in Cached /\ order' \in Seq(Dsn)
      /\ {order'[i] : i \in DOMAIN order'} = Cached \ {d}
      /\ \A i, k \in DOMAIN order' : order'[i] = order'[k] => i = k
  <2>1. order # <<>>
    <3>1. Cardinality(Cached) # 0
      BY PoolCacheAssumption, CachedFinite DEF Evict
    <3>2. Cached # {}
      BY <3>1, FS_EmptySet
    <3>3. QED
      BY <1>1, <3>2 DEF ListOK
  <2>2. /\ order \in Seq(Dsn) /\ Len(order) \in Nat \ {0} /\ DOMAIN order = 1..Len(order)
    BY <1>1, <2>1, LenProperties, EmptySeq DEF PoolTypeOK
  <2>3. /\ Tail(order) \in Seq(Dsn) /\ Len(Tail(order)) = Len(order) - 1
        /\ \A i \in 1..Len(Tail(order)) : Tail(order)[i] = order[i + 1]
    BY <2>1, <2>2, HeadTailProperties
  <2>4. DOMAIN Tail(order) = 1..(Len(order) - 1)
    BY <2>3, LenProperties
  <2>5. d = order[1]
    BY <2>2
  <2>6. d \in Cached
    BY <1>1, <2>2, <2>5 DEF ListOK
  <2> HIDE DEF d
  <2>7. \A i \in DOMAIN order' : order'[i] = order[i + 1] /\ i + 1 \in DOMAIN order /\ i + 1 # 1
    BY <1>2, <2>2, <2>3, <2>4
  <2>8. \A i \in DOMAIN order : i # 1 => i - 1 \in DOMAIN order' /\ (i - 1) + 1 = i
    BY <1>2, <2>2, <2>4
  <2>9. 1 \in DOMAIN order
    BY <2>2
  <2>10. \A i \in DOMAIN order' : order'[i] \in Cached \ {d}
    BY <1>1, <2>5, <2>7, <2>9 DEF ListOK
  <2>11. \A e \in Cached \ {d} : \E i \in DOMAIN order' : order'[i] = e
    <3>1. SUFFICES ASSUME NEW e \in Cached \ {d} PROVE \E i \in DOMAIN order' : order'[i] = e
      OBVIOUS
    <3>2. PICK i \in DOMAIN order : order[i] = e
      BY <1>1 DEF ListOK
    <3>3. i # 1
      BY <2>5, <3>2
    <3>4. i - 1 \in DOMAIN order' /\ order'[i - 1] = e
      BY <2>7, <2>8, <3>2, <3>3
    <3>5. QED
      BY <3>4
  <2>12. {order'[i] : i \in DOMAIN order'} = Cached \ {d}
    BY <2>10, <2>11
  <2>13. \A i, k \in DOMAIN order' : order'[i] = order'[k] => i = k
    <3>1. SUFFICES ASSUME NEW i \in DOMAIN order', NEW k \in DOMAIN order', order'[i] = order'[k] PROVE i = k
      OBVIOUS
    <3>2. i + 1 = k + 1
      BY <1>1, <2>7, <3>1 DEF ListOK
    <3>3. i \in Int /\ k \in Int
      BY <1>2, <2>4
    <3>4. QED
      BY <3>2, <3>3
  <2>14. QED
    BY <1>2, <2>3, <2>6, <2>12, <2>13
<1> HIDE DEF d
<1>4. d \in Dsn /\ p \in PoolId /\ j \in Instance
  BY <1>1, <1>3 DEF PoolTypeOK, CountsOK, Cached
<1>5. Cached' = Cached \ {d} /\ (\A e \in Cached' : pools'[e] = pools[e] /\ byDSN'[e] = byDSN[e])
  BY <1>1, <1>2, <1>3 DEF PoolTypeOK, Cached
<1>6. /\ req[r] \in RequestRecord /\ req[r].dsn \in Dsn /\ req[r].key \in Instance /\ req[r].pool \in PoolId
      /\ req[r].dsn \notin Cached /\ ~ AtCap(req[r].key)
  BY <1>1 DEF PoolTypeOK, RequestsOK, MayGoOn, Opener
<1>7. /\ v \in RequestRecord /\ v.pc = "evicting" /\ v.pool = req[r].pool
      /\ v.dsn = req[r].dsn /\ v.key = req[r].key
  BY <1>4, <1>6 DEF RequestRecord
<1> HIDE DEF p, j, v
<1>8. /\ req'[r] = v
      /\ \A q \in Request \ {r} : req'[q] = req[q] /\ req[q].pc # "evicting"
  BY <1>1, <1>2, AloneInside DEF PoolTypeOK
<1>9. /\ stats' \in [Instance -> StatsRecord]
      /\ \A k \in Instance : stats'[k].open = IF k = j THEN stats[j].open - 1 ELSE stats[k].open
      /\ stats[j].open - 1 \in Nat
  <2>1. stats[j].open = Cardinality(Counted(j)) /\ d \in Counted(j)
    BY <1>1, <1>3, <1>4 DEF CountsOK, Counted, j
  <2>2. IsFiniteSet(Counted(j)) /\ Cardinality(Counted(j)) \in Nat
    BY CachedFinite, FS_Subset, FS_CardinalityType DEF Counted
  <2>3. Cardinality(Counted(j)) # 0
    BY <2>1, <2>2, FS_EmptySet
  <2>4. stats[j].open > 0 /\ stats[j].open \in Nat /\ stats \in [Instance -> StatsRecord]
    BY <1>1, <2>1, <2>2, <2>3 DEF PoolTypeOK
  <2> DEFINE w == [stats[j] EXCEPT !.open = stats[j].open - 1]
  <2>5. stats' = [stats EXCEPT ![j] = w]
    BY <1>2, <1>4, <2>4
  <2>6. w \in StatsRecord /\ w.open = stats[j].open - 1 /\ w.open \in Nat
    BY <1>4, <2>4 DEF StatsRecord
  <2> HIDE DEF w
  <2>7. QED
    BY <1>4, <2>4, <2>5, <2>6
<1>10. PoolTypeOK'
  <2>1. pools' \in [Dsn -> PoolId \cup {NoPool}] /\ byDSN' \in [Dsn -> Instance \cup {"none"}]
    BY <1>1, <1>2 DEF PoolTypeOK
  <2>2. QED
    BY <1>1, <1>2, <1>3, <1>7, <1>9, <2>1 DEF PoolTypeOK
<1>11. RequestsOK'
  BY <1>1, <1>6, <1>7, <1>8 DEF RequestsOK, Opener
<1>12. MutexOK'
  <2>1. \A k \in Instance : ~ AtCap(k) => ~ AtCap(k)'
    <3>1. \A k \in Instance : stats'[k].open \in Nat /\ stats[k].open \in Nat /\ Cap[k] \in Nat
      BY <1>1, <1>9, PoolCacheAssumption DEF PoolTypeOK, StatsRecord
    <3>2. \A k \in Instance : stats'[k].open <= stats[k].open
      BY <1>4, <1>9, <3>1
    <3>3. QED
      BY <3>1, <3>2 DEF AtCap
  <2>2. req'[r].dsn = req[r].dsn /\ req'[r].key = req[r].key
    BY <1>7, <1>8
  <2>3. QED
    BY <1>2, <1>5, <1>6, <1>7, <1>8, <2>1, <2>2 DEF MutexOK
<1>13. ListOK'
  BY <1>3, <1>5 DEF ListOK
<1>14. \A k \in Instance : Counted(k)' = IF k = j THEN Counted(j) \ {d} ELSE Counted(k)
  BY <1>3, <1>5 DEF Counted, j
<1>15. CountsOK' /\ LimitsHold'
  <2>1. \A k \in Instance : IsFiniteSet(Counted(k)) /\ Cardinality(Counted(k)) \in Nat
    BY CachedFinite, FS_Subset, FS_CardinalityType DEF Counted
  <2>2. d \in Counted(j)
    BY <1>3 DEF Counted, j
  <2>3. Cardinality(Counted(j) \ {d}) = Cardinality(Counted(j)) - 1
    BY <1>4, <2>1, <2>2, FS_RemoveElement
  <2>4. CountsOK'
    BY <1>1, <1>4, <1>5, <1>9, <1>14, <2>3 DEF CountsOK
  <2>5. Cardinality(Cached') = Cardinality(Cached) - 1
    BY <1>3, <1>5, CachedFinite, FS_RemoveElement
  <2>6. \A k \in Instance : Cardinality(Counted(k)') <= Cardinality(Counted(k))
    BY <1>4, <1>14, <2>1, <2>3
  <2>7. \A k \in Instance : Cardinality(Counted(k)') \in Nat
    BY <1>4, <1>9, <1>10, <2>4 DEF CountsOK, PoolTypeOK, StatsRecord
  <2>8. LimitsHold'
    <3>1. Cardinality(Cached') <= MaxPools
      BY <1>1, <2>5, CachedFinite, PoolCacheAssumption DEF LimitsHold
    <3>2. ASSUME NEW k \in Instance, Cap[k] > 0 PROVE Cardinality(Counted(k)') <= Cap[k]
      <4>1. Cardinality(Counted(k)) <= Cap[k] /\ Cap[k] \in Nat
        BY <1>1, <3>2, PoolCacheAssumption DEF LimitsHold, Counted
      <4>2. QED
        BY <2>1, <2>6, <2>7, <4>1
    <3>3. QED
      BY <3>1, <3>2 DEF LimitsHold, Counted
  <2>9. QED
    BY <2>4, <2>8
<1>16. \A q \in Request : Opener(q)' = Opener(q) /\ req'[q].pool = req[q].pool
  BY <1>7, <1>8 DEF Opener, MayGoOn
<1>17. PoolsDistinct'
  BY <1>1, <1>5, <1>16 DEF PoolsDistinct, Opener
<1>18. OpenPoolsAccounted'
  <2>1. opened = {pools[e] : e \in Cached} \cup {req[q].pool : q \in {s \in Request : Opener(s)}}
    BY <1>1 DEF OpenPoolsAccounted, Opener
  <2>2. {pools[e] : e \in Cached} \ {p} = {pools'[e] : e \in Cached'}
    BY <1>1, <1>3, <1>5 DEF PoolsDistinct, p
  <2>3. {req[q].pool : q \in {s \in Request : Opener(s)}} \ {p}
          = {req'[q].pool : q \in {s \in Request : Opener(s)'}}
    BY <1>1, <1>3, <1>16 DEF PoolsDistinct, p
  <2>4. QED
    BY <1>2, <2>1, <2>2, <2>3 DEF OpenPoolsAccounted, Opener
<1>19. QED
  BY <1>10, <1>11, <1>12, <1>13, <1>15, <1>17, <1>18 DEF PoolInv

(* The pool the request opened enters all four tables.                      *)
LEMMA PublishKeepsInv ==
  ASSUME PoolInv, NEW r \in Request, MayGoOn(r), Cardinality(Cached) < MaxPools, Publish(r),
         UNCHANGED <<opened, trouble>>
  PROVE  PoolInv'
<1> DEFINE d == req[r].dsn
           k == req[r].key
           p == req[r].pool
           v == [req[r] EXCEPT !.pc = "got", !.victim = NoPool]
           w == [open |-> stats[k].open + 1, failures |-> 0, cooldown |-> 0]
<1>1. PoolTypeOK /\ RequestsOK /\ ListOK /\ CountsOK /\ LimitsHold /\ PoolsDistinct /\ OpenPoolsAccounted
  BY DEF PoolInv
<1>2. /\ order' = Append(order, d) /\ mu' = Unlocked
      /\ stats' = [stats EXCEPT ![k] = w]
      /\ pools' = [pools EXCEPT ![d] = p]
      /\ byDSN' = [byDSN EXCEPT ![d] = k]
      /\ req' = [req EXCEPT ![r] = v]
  BY DEF Publish
<1>3. /\ req[r] \in RequestRecord /\ d \in Dsn /\ k \in Instance /\ p \in PoolId
      /\ d \notin Cached /\ ~ AtCap(k)
  BY <1>1 DEF PoolTypeOK, RequestsOK, MayGoOn, Opener
<1>4. v \in RequestRecord /\ v.pc = "got" /\ v.dsn = d /\ v.key = k /\ v.victim = NoPool
  BY <1>3 DEF RequestRecord
<1>5. stats[k].open \in Nat /\ w \in StatsRecord /\ w.open = stats[k].open + 1
  BY <1>1, <1>3, PoolCacheAssumption DEF PoolTypeOK, StatsRecord
<1> HIDE DEF v, w, d, k, p
<1>6. /\ req'[r] = v
      /\ \A q \in Request \ {r} : req'[q] = req[q] /\ req[q].pc # "evicting"
  BY <1>1, <1>2, AloneInside DEF PoolTypeOK
<1>7. /\ stats' \in [Instance -> StatsRecord]
      /\ \A i \in Instance : stats'[i].open = IF i = k THEN stats[k].open + 1 ELSE stats[i].open
  BY <1>1, <1>2, <1>3, <1>5 DEF PoolTypeOK
<1>8. /\ Cached' = Cached \cup {d} /\ pools'[d] = p /\ byDSN'[d] = k
      /\ \A e \in Cached : pools'[e] = pools[e] /\ byDSN'[e] = byDSN[e]
  BY <1>1, <1>2, <1>3, NoPoolIsNoId DEF PoolTypeOK, Cached
<1>9. order' \in Seq(Dsn) /\ ListOK'
  <2>1. /\ order \in Seq(Dsn) /\ Len(order) \in Nat /\ DOMAIN order = 1..Len(order)
    BY <1>1, LenProperties DEF PoolTypeOK
  <2>2. /\ order' \in Seq(Dsn) /\ Len(order') = Len(order) + 1 /\ order'[Len(order) + 1] = d
        /\ \A i \in 1..Len(order) : order'[i] = order[i]
    BY <1>2, <1>3, <2>1, AppendProperties
  <2>3. DOMAIN order' = DOMAIN order \cup {Len(order) + 1} /\ Len(order) + 1 \notin DOMAIN order
    <3>1. DOMAIN order' = 1..(Len(order) + 1)
      BY <2>2, LenProperties
    <3>2. QED
      BY <2>1, <3>1
  <2>4. {order'[i] : i \in DOMAIN order'} = {order[i] : i \in DOMAIN order} \cup {d}
    BY <2>1, <2>2, <2>3
  <2>5. \A i \in DOMAIN order : order[i] # d
    BY <1>1, <1>3 DEF ListOK
  <2>6. \A i, j \in DOMAIN order' : order'[i] = order'[j] => i = j
    BY <1>1, <2>1, <2>2, <2>3, <2>5 DEF ListOK
  <2>7. QED
    BY <1>1, <1>8, <2>2, <2>4, <2>6 DEF ListOK
<1>10. PoolTypeOK'
  <2>1. pools' \in [Dsn -> PoolId \cup {NoPool}] /\ byDSN' \in [Dsn -> Instance \cup {"none"}]
    BY <1>1, <1>2, <1>3 DEF PoolTypeOK
  <2>2. QED
    BY <1>1, <1>2, <1>4, <1>7, <1>9, <2>1 DEF PoolTypeOK
<1>11. RequestsOK'
  BY <1>1, <1>3, <1>4, <1>6 DEF RequestsOK, Opener
<1>12. MutexOK'
  BY <1>2, <1>4, <1>6, UnlockedAssumption DEF MutexOK
<1>13. \A i \in Instance : Counted(i)' = IF i = k THEN Counted(k) \cup {d} ELSE Counted(i)
  BY <1>3, <1>8 DEF Counted
<1>14. \A i \in Instance : IsFiniteSet(Counted(i)) /\ Cardinality(Counted(i)) \in Nat
  BY CachedFinite, FS_Subset, FS_CardinalityType DEF Counted
<1>15. \A i \in Instance :
         Cardinality(Counted(i)') = IF i = k THEN Cardinality(Counted(i)) + 1 ELSE Cardinality(Counted(i))
  <2>1. d \notin Counted(k)
    BY <1>3 DEF Counted
  <2>2. Cardinality(Counted(k) \cup {d}) = Cardinality(Counted(k)) + 1
    BY <1>3, <1>14, <2>1, FS_AddElement
  <2>3. QED
    BY <1>13, <2>2
<1>16. CountsOK'
  <2>1. \A e \in Cached' : byDSN'[e] \in Instance
    BY <1>1, <1>3, <1>8 DEF CountsOK
  <2>2. \A i \in Instance : stats'[i].open = Cardinality(Counted(i)')
    BY <1>1, <1>7, <1>15 DEF CountsOK
  <2>3. QED
    BY <2>1, <2>2 DEF CountsOK
<1>17. LimitsHold'
  <2>1. Cardinality(Cached') <= MaxPools
    <3>1. Cardinality(Cached \cup {d}) = Cardinality(Cached) + 1
      BY <1>3, CachedFinite, FS_AddElement
    <3>2. QED
      BY <1>8, <3>1, CachedFinite, PoolCacheAssumption
  <2>2. ASSUME NEW i \in Instance, Cap[i] > 0 PROVE Cardinality(Counted(i)') <= Cap[i]
    <3>1. CASE i = k
      <4>1. Cardinality(Counted(k)) < Cap[k] /\ Cap[k] \in Nat
        BY <1>1, <1>3, <1>14, <2>2, <3>1, PoolCacheAssumption DEF AtCap, CountsOK
      <4>2. QED
        BY <1>14, <1>15, <3>1, <4>1
    <3>2. CASE i # k
      BY <1>1, <1>13, <2>2, <3>2 DEF LimitsHold, Counted
    <3>3. QED
      BY <3>1, <3>2
  <2>3. QED
    BY <2>1, <2>2 DEF LimitsHold, Counted
<1>18. /\ Opener(r) /\ ~ Opener(r)'
       /\ \A q \in Request \ {r} : Opener(q)' = Opener(q) /\ req'[q].pool = req[q].pool
  BY <1>4, <1>6 DEF Opener, MayGoOn
<1>19. PoolsDistinct'
  BY <1>1, <1>8, <1>18 DEF PoolsDistinct, Opener, p
<1>20. OpenPoolsAccounted'
  <2>1. opened = {pools[e] : e \in Cached} \cup {req[q].pool : q \in {s \in Request : Opener(s)}}
    BY <1>1 DEF OpenPoolsAccounted, Opener
  <2>2. {pools'[e] : e \in Cached'} = {pools[e] : e \in Cached} \cup {p}
    BY <1>8
  <2>3. {req[q].pool : q \in {s \in Request : Opener(s)}}
          = {req'[q].pool : q \in {s \in Request : Opener(s)'}} \cup {p}
    BY <1>18 DEF p
  <2>4. QED
    BY <2>1, <2>2, <2>3 DEF OpenPoolsAccounted, Opener
<1>21. QED
  BY <1>10, <1>11, <1>12, <1>9, <1>16, <1>17, <1>19, <1>20 DEF PoolInv

LEMMA InsertKeepsInv ==
  ASSUME PoolInv, NEW r \in Request, BeginInsert(r) \/ InsertAtOnce(r) \/ Closed(r)
  PROVE  PoolInv'
<1>1. MayGoOn(r)
  BY DEF BeginInsert, InsertAtOnce, Closed, MayInsert, MayGoOn, Opener, PoolInv, MutexOK
<1>2. \/ Evict(r) /\ UNCHANGED trouble
      \/ Cardinality(Cached) < MaxPools /\ Publish(r) /\ UNCHANGED <<opened, trouble>>
  BY DEF BeginInsert, InsertAtOnce, Closed
<1>3. QED
  BY <1>1, <1>2, EvictKeepsInv, PublishKeepsInv

(* Time and the instances' troubles touch neither tables nor requests.      *)
LEMMA WorldKeepsInv ==
  ASSUME PoolInv, UNCHANGED <<pools, byDSN, order, mu, req, opened>>, trouble' \subseteq Instance,
         stats' \in [Instance -> StatsRecord],
         \A k \in Instance : stats'[k].open = stats[k].open
  PROVE  PoolInv'
<1>1. PoolTypeOK /\ RequestsOK /\ ListOK /\ OpenPoolsAccounted
  BY DEF PoolInv
<1>2. PoolTypeOK'
  BY <1>1 DEF PoolTypeOK
<1>3. /\ Cached' = Cached /\ CountsOK' /\ LimitsHold'
      /\ \A k \in Instance : AtCap(k)' = AtCap(k)
  BY TablesKept
<1>4. RequestsOK' /\ ListOK' /\ OpenPoolsAccounted'
  BY <1>1, <1>3 DEF RequestsOK, ListOK, OpenPoolsAccounted, Opener
<1>5. MutexOK'
  BY <1>3, MutexKept
<1>6. PoolsDistinct'
  BY OwnersKept DEF Opener
<1>7. QED
  BY <1>2, <1>3, <1>4, <1>5, <1>6 DEF PoolInv

LEMMA CooldownKeepsInv ==
  ASSUME PoolInv, CooldownPasses
  PROVE  PoolInv'
<1> DEFINE c(k) == IF stats[k].cooldown > 0 THEN stats[k].cooldown - 1 ELSE 0
<1>1. PoolTypeOK
  BY DEF PoolInv
<1>2. /\ stats' = [k \in Instance |-> [stats[k] EXCEPT !.cooldown = c(k)]]
      /\ UNCHANGED <<pools, byDSN, order, mu, req, opened, trouble>>
  BY DEF CooldownPasses
<1>3. ASSUME NEW k \in Instance
      PROVE  [stats[k] EXCEPT !.cooldown = c(k)] \in StatsRecord
             /\ [stats[k] EXCEPT !.cooldown = c(k)].open = stats[k].open
  <2>1. stats[k] \in StatsRecord
    BY <1>1 DEF PoolTypeOK
  <2>2. c(k) \in 0..Cooldown
    BY <2>1, PoolCacheAssumption DEF StatsRecord
  <2> HIDE DEF c
  <2>3. QED
    BY <2>1, <2>2 DEF StatsRecord
<1> HIDE DEF c
<1>4. stats' \in [Instance -> StatsRecord] /\ (\A k \in Instance : stats'[k].open = stats[k].open)
  BY <1>2, <1>3
<1>5. QED
  BY <1>1, <1>2, <1>4, WorldKeepsInv DEF PoolTypeOK

LEMMA NextKeepsInv == PoolInv /\ [PoolNext]_poolVars => PoolInv'
<1> SUFFICES ASSUME PoolInv, [PoolNext]_poolVars PROVE PoolInv'
  OBVIOUS
<1>1. ASSUME NEW r \in Request, Start(r) PROVE PoolInv'
  BY <1>1, StartKeepsInv
<1>2. ASSUME NEW r \in Request, Locking(r) PROVE PoolInv'
  BY <1>2, LookupKeepsInv, OpenFailsKeepsInv, LostRaceKeepsInv, InsertKeepsInv DEF Locking
<1>3. ASSUME NEW r \in Request, Unlocking(r) PROVE PoolInv'
  BY <1>3, OpenKeepsInv, InsertKeepsInv, ConnectKeepsInv DEF Unlocking
<1>4. CASE CooldownPasses
  BY <1>4, CooldownKeepsInv
<1>5. CASE TroubleChanges
  BY <1>5, PoolCacheAssumption, WorldKeepsInv DEF TroubleChanges, cacheVars, PoolInv, PoolTypeOK
<1>6. CASE UNCHANGED poolVars
  BY <1>6, WorldKeepsInv DEF poolVars, cacheVars, PoolInv, PoolTypeOK
<1>7. QED
  BY <1>1, <1>2, <1>3, <1>4, <1>5, <1>6 DEF PoolNext

THEOREM PoolSafe == PoolSafetySpec => []PoolInv
<1>1. QED
  BY InitInv, NextKeepsInv, PTL DEF PoolSafetySpec

-----------------------------------------------------------------------------
(* Theorems                                                                 *)

(* pools, byDSN, order and the per-instance counters of PoolCache agree at  *)
(* every moment: the LRU list names every cached DSN once, and OpenPools is *)
(* the number of cached pools of the instance, whoever opens, loses a race  *)
(* or is evicted (poolcache.go, Get and touchLocked).                       *)
THEOREM CachesAgree == PoolSafetySpec => []CacheConsistent
<1>1. PoolInv => CacheConsistent
  BY ListLength DEF PoolInv, PoolTypeOK, ListOK, CountsOK, Counted, CacheConsistent
<1>2. QED
  BY <1>1, PoolSafe, PTL

(* Never more pools cached than MaxPools, nor more on an instance than its  *)
(* cap, although every request checks both before it opens its pool without *)
(* the mutex.                                                               *)
THEOREM LimitsKept == PoolSafetySpec => []LimitsHold
<1>1. PoolInv => LimitsHold
  BY DEF PoolInv
<1>2. QED
  BY <1>1, PoolSafe, PTL

(* No pool leaks: what is open is cached or about to be published by the    *)
(* request that opened it, and what the cache hands out is open.            *)
THEOREM PoolsAccounted == PoolSafetySpec => []OpenPoolsAccounted
<1>1. PoolInv => OpenPoolsAccounted
  BY DEF PoolInv
<1>2. QED
  BY <1>1, PoolSafe, PTL
=============================================================================
