----------------------------- MODULE PoolCache -----------------------------
(***************************************************************************)
(* The cache of database pools behind kld's environment router             *)
(* (internal/routing).  A request looks the environment's DSN up, opens a  *)
(* pool on a miss without holding the cache's mutex, publishes it unless   *)
(* another request was faster or a limit was reached meanwhile, and evicts *)
(* the least recently used pool if the cache is full.  Closing a pool      *)
(* waits for its connections to be returned, and the evicting request      *)
(* waits for that with the mutex held.                                     *)
(*                                                                         *)
(* Each step between two acquisitions of the mutex is one action.  Time is *)
(* what is left of a cooldown.                                             *)
(***************************************************************************)
EXTENDS Integers, Sequences, FiniteSets

CONSTANTS
  Request,    \* concurrent requests of kld
  Dsn,        \* environment databases
  Instance,   \* database instances, the keys of limits and circuit breakers
  Route,      \* the <<dsn, instance>> pairs environment rows name
  MaxPools,   \* pools cached at once
  Cap,        \* Cap[k]: pools open at once on instance k, 0 for no limit
  Threshold,  \* consecutive failures that open the circuit
  Cooldown,   \* how long the circuit stays open
  Flaky       \* bound: the instances that are ever in trouble

ASSUME PoolCacheAssumption ==
  /\ IsFiniteSet(Request) /\ IsFiniteSet(Dsn)
  /\ Route \subseteq Dsn \X Instance
  /\ MaxPools \in Nat \ {0} /\ Threshold \in Nat \ {0} /\ Cooldown \in Nat \ {0}
  /\ Cap \in [Instance -> Nat] /\ Flaky \subseteq Instance

VARIABLES
  pools,     \* PoolCache.pools: dsn -> pool, or NoPool
  byDSN,     \* PoolCache.byDSN: the instance a cached pool is counted on
  order,     \* PoolCache.order: cached DSNs, most recently used last
  stats,     \* instance -> OpenPools, ConsecutiveFailures, cooldown left
  mu,        \* the request that keeps the mutex between steps, or Unlocked
  req,       \* the requests
  opened,    \* the pools that are open
  trouble    \* instances where opening a pool may fail: down, or slow and
             \* given up by the client

cacheVars == <<pools, byDSN, order, stats>>
poolVars  == <<cacheVars, mu, req, opened, trouble>>

NoPool   == 0
Unlocked == "unlocked"
ASSUME UnlockedAssumption == Unlocked \notin Request

PoolId   == 1..(MaxPools + 2 * Cardinality(Request))   \* enough to name every pool in use

Idle == [pc |-> "idle", dsn |-> "none", key |-> "none", pool |-> NoPool, victim |-> NoPool]

PoolInit ==
  /\ pools = [d \in Dsn |-> NoPool]
  /\ byDSN = [d \in Dsn |-> "none"]
  /\ order = <<>>
  /\ stats = [k \in Instance |-> [open |-> 0, failures |-> 0, cooldown |-> 0]]
  /\ mu = Unlocked
  /\ req = [r \in Request |-> Idle]
  /\ opened = {}
  /\ trouble = {}

Cached     == {d \in Dsn : pools[d] # NoPool}
AtCap(k)   == Cap[k] > 0 /\ stats[k].open >= Cap[k]

(* touchLocked                                                             *)
PlaceOf(d) == CHOOSE i \in DOMAIN order : order[i] = d
Touched(d) == Append(SubSeq(order, 1, PlaceOf(d) - 1) \o SubSeq(order, PlaceOf(d) + 1, Len(order)), d)

Fresh      == CHOOSE p \in PoolId :
                /\ p \notin opened
                /\ \A r \in Request : p # req[r].pool /\ p # req[r].victim

Return(r)       == req' = [req EXCEPT ![r] = Idle]
ReturnPool(r, p) == req' = [req EXCEPT ![r].pc = "got", ![r].pool = p]

-----------------------------------------------------------------------------
(* Get, first critical section: circuit, hit, limit, miss.                 *)
Start(r) ==
  /\ req[r].pc = "idle"
  /\ \E route \in Route :
       req' = [req EXCEPT ![r] = [Idle EXCEPT !.pc = "lookup", !.dsn = route[1], !.key = route[2]]]
  /\ UNCHANGED <<cacheVars, mu, opened, trouble>>

Hit(r) ==
  /\ req[r].dsn \in Cached
  /\ order' = Touched(req[r].dsn)
  /\ ReturnPool(r, pools[req[r].dsn])

\* Mutant of Lookup: the mutex is kept while the pool is opened.
LookupLocked(r) ==
  /\ req[r].pc = "lookup" /\ mu = Unlocked
  /\ \/ /\ stats[req[r].key].cooldown > 0 \/ (req[r].dsn \notin Cached /\ AtCap(req[r].key))
        /\ Return(r) /\ UNCHANGED <<order, mu>>
     \/ stats[req[r].key].cooldown = 0 /\ Hit(r) /\ UNCHANGED mu
     \/ /\ stats[req[r].key].cooldown = 0 /\ req[r].dsn \notin Cached /\ ~ AtCap(req[r].key)
        /\ req' = [req EXCEPT ![r].pc = "opening"]
        /\ mu' = r /\ UNCHANGED order
  /\ UNCHANGED <<pools, byDSN, stats, opened, trouble>>

\* Mutant of Lookup: a rejection at the limit counts as a failure of the instance.
LookupCounts(r) ==
  /\ req[r].pc = "lookup" /\ mu = Unlocked
  /\ LET k == req[r].key
         n == IF stats[k].failures < Threshold THEN stats[k].failures + 1 ELSE Threshold
     IN  \/ stats[k].cooldown > 0 /\ Return(r) /\ UNCHANGED <<order, stats>>
         \/ /\ stats[k].cooldown = 0 /\ req[r].dsn \notin Cached /\ AtCap(k)
            /\ stats' = [stats EXCEPT ![k].failures = n,
                                      ![k].cooldown = IF n >= Threshold THEN Cooldown ELSE @]
            /\ Return(r) /\ UNCHANGED order
         \/ stats[k].cooldown = 0 /\ Hit(r) /\ UNCHANGED stats
         \/ /\ stats[k].cooldown = 0 /\ req[r].dsn \notin Cached /\ ~ AtCap(k)
            /\ req' = [req EXCEPT ![r].pc = "opening"]
            /\ UNCHANGED <<order, stats>>
  /\ UNCHANGED <<pools, byDSN, mu, opened, trouble>>

Lookup(r) ==
  /\ req[r].pc = "lookup" /\ mu = Unlocked
  /\ \/ /\ stats[req[r].key].cooldown > 0 \/ (req[r].dsn \notin Cached /\ AtCap(req[r].key))
        /\ Return(r) /\ UNCHANGED order
     \/ stats[req[r].key].cooldown = 0 /\ Hit(r)
     \/ /\ stats[req[r].key].cooldown = 0 /\ req[r].dsn \notin Cached /\ ~ AtCap(req[r].key)
        /\ req' = [req EXCEPT ![r].pc = "opening"]
        /\ UNCHANGED order
  /\ UNCHANGED <<pools, byDSN, stats, mu, opened, trouble>>

(* db.OpenWithOptions, outside the mutex.                                  *)
Open(r) ==
  /\ req[r].pc = "opening"
  /\ req' = [req EXCEPT ![r].pc = "opened", ![r].pool = Fresh]
  /\ opened' = opened \cup {Fresh}
  /\ UNCHANGED <<cacheVars, mu, trouble>>

(* It failed: count the failure, open the circuit.  Only whether the count *)
(* has reached the threshold matters, so it stops there.                   *)
OpenFails(r) ==
  /\ req[r].pc = "opening" /\ mu = Unlocked
  /\ LET k == req[r].key
         n == IF stats[k].failures < Threshold THEN stats[k].failures + 1 ELSE Threshold
     IN  /\ k \in trouble
         /\ stats' = [stats EXCEPT ![k].failures = n,
                                   ![k].cooldown = IF n >= Threshold THEN Cooldown ELSE @]
  /\ Return(r)
  /\ UNCHANGED <<pools, byDSN, order, mu, opened, trouble>>

-----------------------------------------------------------------------------
(* Get, second critical section                                            *)

\* Mutant of LostRace: the pool opened in vain is not closed.
LostRaceLeak(r) ==
  /\ req[r].pc = "opened" /\ mu = Unlocked
  /\ req[r].dsn \in Cached
  /\ Hit(r)
  /\ UNCHANGED <<pools, byDSN, stats, mu, opened, trouble>>

(* Another request published a pool for the DSN: use that one.             *)
LostRace(r) ==
  /\ req[r].pc = "opened" /\ mu = Unlocked
  /\ opened' = opened \ {req[r].pool}
  /\ Hit(r)
  /\ UNCHANGED <<pools, byDSN, stats, mu, trouble>>

(* The limit was reached while the pool was being opened.                  *)
LateCap(r) ==
  /\ req[r].pc = "opened" /\ mu = Unlocked
  /\ req[r].dsn \notin Cached /\ AtCap(req[r].key)
  /\ opened' = opened \ {req[r].pool}
  /\ Return(r)
  /\ UNCHANGED <<cacheVars, mu, trouble>>

(* The second critical section reaches its eviction loop.                  *)
\* Mutant of MayInsert: the limit is not checked again.
MayInsertUnchecked(r) == req[r].pc = "opened" /\ mu = Unlocked /\ req[r].dsn \notin Cached

MayInsert(r) ==
  /\ req[r].pc = "opened" /\ mu = Unlocked
  /\ req[r].dsn \notin Cached /\ ~ AtCap(req[r].key)

CountEvicted(r, d) == [stats EXCEPT ![byDSN[d]].open = IF @ > 0 THEN @ - 1 ELSE @]

(* One round of the eviction loop: forget the least recently used pool and *)
(* start closing it.  From here on it hands out no connections.            *)
Evict(r) ==
  /\ Cardinality(Cached) >= MaxPools
  /\ LET d == Head(order)
     IN  /\ order' = Tail(order)
         /\ stats' = CountEvicted(r, d)
         /\ pools' = [pools EXCEPT ![d] = NoPool]
         /\ byDSN' = [byDSN EXCEPT ![d] = "none"]
         /\ opened' = opened \ {pools[d]}
         /\ req' = [req EXCEPT ![r].pc = "evicting", ![r].victim = pools[d]]
  /\ mu' = r

BeginInsert(r) == MayInsert(r) /\ Evict(r) /\ UNCHANGED trouble

(* Publish the pool and reset the instance's failures.                     *)
Publish(r) ==
  LET d == req[r].dsn
      k == req[r].key
  IN  /\ pools' = [pools EXCEPT ![d] = req[r].pool]
      /\ byDSN' = [byDSN EXCEPT ![d] = k]
      /\ order' = Append(order, d)
      /\ stats' = [stats EXCEPT ![k] = [open |-> @.open + 1, failures |-> 0, cooldown |-> 0]]
      /\ req' = [req EXCEPT ![r].pc = "got", ![r].victim = NoPool]
      /\ mu' = Unlocked

InsertAtOnce(r) ==
  /\ MayInsert(r) /\ Cardinality(Cached) < MaxPools
  /\ Publish(r)
  /\ UNCHANGED <<opened, trouble>>

Users(p) == {q \in Request : req[q].pc = "busy" /\ req[q].pool = p}

(* old.Close() returns when the last connection is back; then the loop     *)
(* goes round again or the pool is published.                              *)
Closed(r) ==
  /\ req[r].pc = "evicting" /\ Users(req[r].victim) = {}
  /\ \/ Evict(r)
     \/ Cardinality(Cached) < MaxPools /\ Publish(r) /\ UNCHANGED opened
  /\ UNCHANGED trouble

-----------------------------------------------------------------------------
(* The request uses its pool: from its first query on (ensureTenantOnPool) *)
(* it has a connection; on a closed pool the query fails.                  *)
Connect(r) ==
  /\ req[r].pc = "got"
  /\ IF req[r].pool \in opened THEN req' = [req EXCEPT ![r].pc = "busy"] ELSE Return(r)
  /\ UNCHANGED <<cacheVars, mu, opened, trouble>>

Disconnect(r) ==
  /\ req[r].pc = "busy"
  /\ Return(r)
  /\ UNCHANGED <<cacheVars, mu, opened, trouble>>

CooldownPasses ==
  /\ \E k \in Instance : stats[k].cooldown > 0
  /\ stats' = [k \in Instance |->
                 [stats[k] EXCEPT !.cooldown = IF @ > 0 THEN @ - 1 ELSE 0]]
  /\ UNCHANGED <<pools, byDSN, order, mu, req, opened, trouble>>

TroubleChanges ==
  /\ \E k \in Flaky : trouble' = IF k \in trouble THEN trouble \ {k} ELSE trouble \cup {k}
  /\ UNCHANGED <<cacheVars, mu, req, opened>>

(* The steps that wait for the mutex, and those that do not.               *)
Locking(r) ==
  Lookup(r) \/ OpenFails(r) \/ LostRace(r) \/ LateCap(r) \/ BeginInsert(r) \/ InsertAtOnce(r)
Unlocking(r) == Open(r) \/ Closed(r) \/ Connect(r) \/ Disconnect(r)

PoolNext ==
  \/ \E r \in Request : Start(r) \/ Locking(r) \/ Unlocking(r)
  \/ CooldownPasses \/ TroubleChanges

(* A waiter for a Go mutex is not starved by others; opening, closing and  *)
(* the queries of a request end; time passes.                              *)
PoolFairness ==
  /\ \A r \in Request : SF_poolVars(Locking(r)) /\ WF_poolVars(Unlocking(r))
  /\ WF_poolVars(CooldownPasses)

PoolSafetySpec == PoolInit /\ [][PoolNext]_poolVars
PoolSpec == PoolSafetySpec /\ PoolFairness

-----------------------------------------------------------------------------
(* Properties                                                              *)

(* Shapes of the cache, the statistics and the requests.                   *)
RequestRecord == [pc : {"idle", "lookup", "opening", "opened", "evicting", "got", "busy"},
                  dsn : Dsn \cup {"none"}, key : Instance \cup {"none"},
                  pool : PoolId \cup {NoPool}, victim : PoolId \cup {NoPool}]
StatsRecord   == [open : Nat, failures : 0..Threshold, cooldown : 0..Cooldown]

PoolTypeOK ==
  /\ pools \in [Dsn -> PoolId \cup {NoPool}]
  /\ byDSN \in [Dsn -> Instance \cup {"none"}]
  /\ order \in Seq(Dsn)
  /\ stats \in [Instance -> StatsRecord]
  /\ mu \in Request \cup {Unlocked}
  /\ req \in [Request -> RequestRecord]
  /\ opened \subseteq PoolId
  /\ trouble \subseteq Instance

(* The four tables of the cache agree, besides having their types: the LRU *)
(* list names every cached DSN once, and an instance's open count is the   *)
(* number of cached pools that were opened for it, even when rows that     *)
(* name a DSN change instance.                                             *)
CacheConsistent ==
  /\ PoolTypeOK
  /\ {order[i] : i \in DOMAIN order} = Cached /\ Len(order) = Cardinality(Cached)
  /\ \A k \in Instance : stats[k].open = Cardinality({d \in Cached : byDSN[d] = k})

(* The limits hold although every request checks them before a long        *)
(* unlocked phase in which others insert.                                  *)
LimitsHold ==
  /\ Cardinality(Cached) <= MaxPools
  /\ \A k \in Instance : Cap[k] > 0 => Cardinality({d \in Cached : byDSN[d] = k}) <= Cap[k]

(* No pool leaks and no closed pool is handed out by the cache: a pool is  *)
(* open exactly while it is cached or its opener has yet to publish it,    *)
(* whoever loses the race for a DSN, hits a limit or is evicted.           *)
OpenPoolsAccounted ==
  opened = {pools[d] : d \in Cached}
             \cup {req[r].pool : r \in {q \in Request : req[q].pc \in {"opened", "evicting"}}}

(* Every request ends, although an eviction waits, with the mutex held,    *)
(* for the requests that still use the evicted pool.                       *)
EveryRequestEnds == \A r \in Request : []<>(req[r].pc = "idle")

(* Once an instance stays well its circuit closes for good, whatever       *)
(* failures are still under way or were counted before.                    *)
CircuitRecovers ==
  \A k \in Instance : <>[](k \notin trouble) => <>[](stats[k].cooldown = 0)
=============================================================================
