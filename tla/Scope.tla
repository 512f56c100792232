------------------------------- MODULE Scope -------------------------------
(***************************************************************************)
(* Scoped planning: kl plan --file against the state-engine protocol, from *)
(* the scope expansion that kld answers from its graph cache to the plan   *)
(* spec and the staleness guard that kl apply runs before it.              *)
(*                                                                         *)
(* A realised graph is a function from the addresses a version holds to    *)
(* the raw dependencies recorded for them; trunk is the sequence of the    *)
(* graphs committed so far, so Len(trunk) is the current serial.  A        *)
(* configuration is a record of the dependency graph its blocks declare,   *)
(* the graph the regular-expression scan of the files finds, the addresses *)
(* the selected files declare (roots), those they declare removed, the     *)
(* discovery engine, and whether the plan carries file ranges.             *)
(*                                                                         *)
(* An address with an index ("w[0]") is an address of its own; BaseOf      *)
(* gives the address without it, which is what configurations name.        *)
(* Module selectors and the --target lane are not modelled.                *)
(***************************************************************************)
EXTENDS Naturals, Sequences, SequencesExt

CONSTANTS
  Addr,          \* resource addresses
  BaseOf,        \* [Addr -> Addr], the address without its index
  Graphs,        \* the graphs a commit may install
  Configs,       \* the configurations a plan may run on
  Request,       \* concurrent scope-expand requests
  Mine,          \* the one the modelled kl plan makes
  MaxSerial,     \* bound on commits
  MaxEntries     \* capacity of the graph cache

ASSUME ScopeAssumption ==
  /\ BaseOf \in [Addr -> Addr]
  /\ \A g \in Graphs : DOMAIN g \subseteq Addr /\ \A a \in DOMAIN g : g[a] \subseteq Addr
  /\ \A c \in Configs :
       /\ c.roots \cup c.removed \cup DOMAIN c.graph \cup DOMAIN c.scan \subseteq Addr
       /\ \A a \in DOMAIN c.graph : c.graph[a] \subseteq Addr
       /\ \A a \in DOMAIN c.scan : c.scan[a] \subseteq Addr
  /\ Mine \in Request
  /\ MaxSerial \in Nat \ {0}
  /\ MaxEntries \in Nat \ {0}

VARIABLES
  trunk,   \* the committed graphs, by serial
  cache,   \* graph cache, oldest entry first: <<[serial, at], ...>>
  req,     \* the scope-expand requests in kld
  plan     \* the planner

scopeVars == <<trunk, cache, req, plan>>

Serial      == Len(trunk)
Realised(v) == DOMAIN trunk[v]

-----------------------------------------------------------------------------
(* Configuration discovery.                                                *)

(* A set of addresses that next does not lead out of; next maps some       *)
(* addresses to sets.                                                      *)
ClosedUnder(S, next) == \A a \in S \cap DOMAIN next : next[a] \subseteq S

(* The addresses reachable from seeds: the least closed set around them.   *)
Reach(seeds, next) ==
  {a \in Addr : \A S \in SUBSET Addr : (seeds \subseteq S /\ ClosedUnder(S, next)) => a \in S}

(* Tabulated, since a configuration does not change while it is planned.   *)
ScanClosure  == [c \in Configs |-> Reach(c.roots, c.scan)]
GraphClosure == [c \in Configs |-> Reach(c.roots, c.graph)]

(* expandScopedSliceAddresses: always the scan of the files.               *)
SliceTargets(c) == ScanClosure[c]

(* buildIntent's slice candidates: read candidates, and the addresses the  *)
(* client vouches for as possibly undeployed.                              *)
Candidates(c) == IF c.engine = "opentofu" THEN GraphClosure[c] ELSE SliceTargets(c)

(* buildConfigNodes                                                        *)
ConfigNodes(c) == DOMAIN c.graph \cap Candidates(c)

(* buildRemovedCandidates                                                  *)
Removed(c) == {a \in c.roots : a \in c.removed \/ a \notin DOMAIN c.graph}

-----------------------------------------------------------------------------
(* Scope expansion in kld.                                                 *)

(* buildStateEngineGraphSnapshot: a dependency on a base address stands    *)
(* for every realised instance of it.                                      *)
Adjacency(v, a) == {b \in Realised(v) : b \in trunk[v][a] \/ BaseOf[b] \in trunk[v][a]}

\* Mutant of Deps: only the realised graph is walked.
DepsRealisedOnly(c, v, a) == IF a \in Realised(v) THEN Adjacency(v, a) ELSE {}

(* What the walk follows from an address: both graphs.                     *)
Deps(c, v, a) ==
  (IF a \in Realised(v) THEN Adjacency(v, a) ELSE {})
    \cup (IF a \in ConfigNodes(c) THEN c.graph[a] ELSE {})

Known(c, v) == Realised(v) \cup ConfigNodes(c)

(* The contract drawn from a finished walk.                                *)
SelectedWrite(c, v)       == c.roots \cap Realised(v)
Fetch(v, visited)         == visited \cap Realised(v)
ConfigRequired(c, v, visited) == (visited \cap ConfigNodes(c)) \ Realised(v)
UnknownMissing(c, v, visited) ==
  LET missing    == (c.roots \cup Candidates(c)) \ Realised(v)
      unresolved == (UNION {Deps(c, v, a) : a \in visited}) \ Known(c, v)
  IN  ((missing \ Removed(c)) \cup unresolved) \ Candidates(c)

-----------------------------------------------------------------------------
(* From Terraform's plan to the plan spec.                                 *)

Action == {"none", "create", "update", "delete", "replace", "forget"}

(* The instances an address of the configuration stands for.               *)
Instances(b) ==
  LET indexed == {a \in Addr : BaseOf[a] = b /\ a # b}
  IN  IF indexed = {} THEN {b} ELSE indexed

(* What the targeted terraform plan may decide, given the state it sees:   *)
(* the targets and all they depend on are planned; what the configuration  *)
(* no longer has may go, and goes if a removed block says so.              *)
TerraformActions(c, state) ==
  LET planned == UNION {Instances(b) : b \in GraphClosure[c] \cap DOMAIN c.graph}
      orphans == state \ planned
      Fate(a) == IF a \in c.removed THEN {"delete", "forget"} ELSE {"none", "delete"}
      Decided(keep, gone) ==
        [a \in Addr |-> CASE a \in planned \cap state -> keep[a]
                          [] a \in planned \ state    -> "create"
                          [] a \in orphans            -> gone[a]
                          [] OTHER                    -> "none"]
  IN  UNION {{Decided(keep, gone) :
                gone \in {g \in [orphans -> Action] : \A a \in orphans : g[a] \in Fate(a)}} :
             keep \in [planned \cap state -> {"none", "update", "replace"}]}

WriteSet(acts) == {a \in Addr : acts[a] # "none"}

IsMutatingNonDelete(act) == act \in {"create", "update", "replace"}
IsDeleteOrForget(act)    == act \in {"delete", "forget", "replace"}

(* The file that owns an address, where the plan carries ranges.           *)
Owner(c, a) ==
  CASE c.ranges /\ a \in DOMAIN c.graph /\ a \in c.roots -> "selected"
    [] c.ranges /\ a \in DOMAIN c.graph /\ a \notin c.roots -> "other"
    [] OTHER -> "unknown"

(* ApplyFileScope: meta is the contract, or empty sets on the other lanes. *)
Kept(c, meta, acts, a) ==
  \/ Owner(c, a) = "selected"
  \/ Owner(c, a) = "unknown" /\ a \in c.roots
  \/ IsMutatingNonDelete(acts[a]) /\ a \in meta.fetch \cup meta.required

NarrowWrite(c, meta, acts) == {a \in WriteSet(acts) : Kept(c, meta, acts, a)}

DroppedDeletes(c, meta, acts) ==
  {a \in WriteSet(acts) \ NarrowWrite(c, meta, acts) :
     Owner(c, a) = "unknown" /\ IsDeleteOrForget(acts[a]) /\ a \notin meta.required}

\* Mutant of Neighbours: CloseReadSet follows dependencies only.
NeighboursForward(c, a) == IF a \in DOMAIN c.graph THEN c.graph[a] ELSE {}

(* The two passes of CloseReadSet: an edge is followed both ways.          *)
Neighbours(c, a) ==
  (IF a \in DOMAIN c.graph THEN c.graph[a] ELSE {})
    \cup {b \in DOMAIN c.graph : a \in c.graph[b]}

CloseReadSet(c, write) == Reach(write, [a \in Addr |-> Neighbours(c, a)])

ResourceGroup(v, a) == {<<b, trunk[v][b]>> : b \in {x \in Realised(v) : BaseOf[x] = BaseOf[a]}}

\* Mutant of Changed: a group that came into being is not a change.
ChangedInBoth(v, w, read) == {a \in read : ResourceGroup(v, a) \notin {ResourceGroup(w, a), {}}}

(* changedReadSetAddresses, by resource group.                             *)
Changed(v, w, read) == {a \in read : ResourceGroup(v, a) # ResourceGroup(w, a)}

-----------------------------------------------------------------------------
NoContract == [fetch |-> {}, required |-> {}]

(* The planner: cfg is its configuration; pin, the plan's source_serial    *)
(* (0: none); from, the version its state was read from; at, the version   *)
(* of the graph the contract was drawn from; guard, the serial the         *)
(* staleness guard saw.                                                    *)
Idle(c) ==
  [pc |-> "idle", cfg |-> c, at |-> 0, queue |-> {}, visited |-> {}, meta |-> NoContract,
   pin |-> 0, from |-> 0, state |-> {}, acts |-> [a \in Addr |-> "none"],
   write |-> {}, read |-> {}, guard |-> 0]

NoRequest == [pc |-> "none", serial |-> 0, at |-> 0]

ScopeInit ==
  /\ trunk \in {<<g>> : g \in Graphs}
  /\ cache = <<>>
  /\ req = [q \in Request |-> NoRequest]
  /\ plan \in {Idle(c) : c \in Configs}

-----------------------------------------------------------------------------
(* Scope-expand requests in kld: loadStateEngineGraphSnapshot.             *)

Ask(q, pc, upd) == req[q].pc = pc /\ req' = [req EXCEPT ![q] = upd]

(* The serial first, ...                                                   *)
ResolveInfo(q) ==
  /\ q = Mine => plan.pc = "expand"
  /\ Ask(q, "none", [pc |-> "graph", serial |-> Serial, at |-> 0])
  /\ UNCHANGED <<trunk, cache, plan>>

Cached(s) == {i \in DOMAIN cache : cache[i].serial = s}

(* ... then the cached snapshot under it, ...                              *)
CacheHit(q) ==
  /\ \E i \in Cached(req[q].serial) :
       Ask(q, "graph", [req[q] EXCEPT !.pc = "served", !.at = cache[i].at])
  /\ UNCHANGED <<trunk, cache, plan>>

(* ... or the rows that are current by now, ...                            *)
LoadGraph(q) ==
  /\ Cached(req[q].serial) = {}
  /\ Ask(q, "graph", [req[q] EXCEPT !.pc = "put", !.at = Serial])
  /\ UNCHANGED <<trunk, cache, plan>>

Snapshot(q) == [serial |-> req[q].serial, at |-> req[q].at]

(* evictOneLocked: a full cache drops its oldest entry, whichever its key. *)
Evicted == IF Len(cache) >= MaxEntries THEN Tail(cache) ELSE cache

(* A map has one entry per key: the one under serial s goes.               *)
Dropped(entries, s) ==
  IF \E i \in DOMAIN entries : entries[i].serial = s
  THEN RemoveAt(entries, CHOOSE i \in DOMAIN entries : entries[i].serial = s)
  ELSE entries

(* ... which are put under the serial of the beginning.                    *)
PutGraph(q) ==
  /\ Ask(q, "put", [req[q] EXCEPT !.pc = "served"])
  /\ cache' = Append(Dropped(Evicted, req[q].serial), Snapshot(q))
  /\ UNCHANGED <<trunk, plan>>

(* Another client has its answer.                                          *)
Answered(q) ==
  /\ q # Mine
  /\ Ask(q, "served", NoRequest)
  /\ UNCHANGED <<trunk, cache, plan>>

(* The oldest entry's time to live is over.                                *)
Expire ==
  /\ cache # <<>>
  /\ cache' = Tail(cache)
  /\ UNCHANGED <<trunk, req, plan>>

-----------------------------------------------------------------------------
(* The planner.                                                            *)

Go(pc, upd) == plan.pc = pc /\ plan' = upd /\ UNCHANGED <<trunk, cache, req>>

(* The terraform-http lane: the trunk is read up front, and pinned.        *)
FetchTrunkPinned ==
  Go("idle", [plan EXCEPT !.pc = "plan", !.pin = Serial, !.from = Serial, !.at = Serial,
                          !.state = Realised(Serial)])

(* The state-engine lane: the request for the contract leaves.             *)
AskExpand == Go("idle", [plan EXCEPT !.pc = "expand"])

Seeds(c, v) == SelectedWrite(c, v) \cup c.roots \cup Candidates(c)

(* kld has the graph, and seeds the walk with the client's candidates.     *)
StartWalk ==
  /\ plan.pc = "expand" /\ req[Mine].pc = "served"
  /\ plan' = [plan EXCEPT !.pc = "walk", !.at = req[Mine].at,
                           !.queue = Seeds(plan.cfg, req[Mine].at)]
  /\ req' = [req EXCEPT ![Mine] = NoRequest]
  /\ UNCHANGED <<trunk, cache>>

\* Mutant of Pending: an address already visited is queued again.
PendingAgain(a) == (plan.queue \ {a}) \cup (Deps(plan.cfg, plan.at, a) \cap Known(plan.cfg, plan.at))

(* The queue after visiting an address: what it needs and is known of.     *)
Pending(a) ==
  (plan.queue \cup (Deps(plan.cfg, plan.at, a) \cap Known(plan.cfg, plan.at)))
     \ (plan.visited \cup {a})

(* One round of the walk; the seeds come out of Go maps, in any order.     *)
Walk == \E a \in plan.queue :
          Go("walk", [plan EXCEPT !.queue = Pending(a), !.visited = @ \cup {a}])

(* The contract, and the client's verdict on it: an unsafe scope is        *)
(* rejected, it never falls back.                                          *)
Contract ==
  /\ plan.queue = {}
  /\ Go("walk", IF UnknownMissing(plan.cfg, plan.at, plan.visited) # {}
                THEN [plan EXCEPT !.pc = "rejected"]
                ELSE [plan EXCEPT !.pc = "slice",
                        !.meta = [fetch    |-> Fetch(plan.at, plan.visited),
                                  required |-> ConfigRequired(plan.cfg, plan.at, plan.visited)]])

(* handleStateEngineSlice: the serial, ...                                 *)
ResolveSlice == Go("slice", [plan EXCEPT !.pc = "rows", !.pin = Serial])

(* ... then the rows of the contract's addresses that are still current.   *)
Materialise ==
  Go("rows", [plan EXCEPT !.pc = "plan", !.from = Serial,
                          !.state = plan.meta.fetch \cap Realised(Serial)])

(* Any call of the scoped lane fails for another reason than an unsafe     *)
(* scope: the plan reads the full trunk instead and pins no serial.        *)
FallBack ==
  /\ plan.pc \in {"expand", "walk", "slice", "rows"}
  /\ plan' = [Idle(plan.cfg) EXCEPT !.pc = "plan", !.from = Serial, !.state = Realised(Serial)]
  /\ req' = [req EXCEPT ![Mine] = NoRequest]
  /\ UNCHANGED <<trunk, cache>>

(* buildScopedStateSlice: whatever was fetched, by the client's own scan.  *)
StateSlice(c, state) == {a \in state : BaseOf[a] \in SliceTargets(c)}

(* The scoped terraform plan on the slice of the state; it may fail.       *)
TerraformPlan ==
  \/ Go("plan", [plan EXCEPT !.pc = "failed"])
  \/ \E f \in TerraformActions(plan.cfg, StateSlice(plan.cfg, plan.state)) :
       Go("plan", [plan EXCEPT !.pc = "spec", !.acts = f])

(* emitPlanSpec with ApplyFileScope: a delete of unknown ownership, or     *)
(* nothing left to write, is an error.                                     *)
EmitSpec ==
  LET w == NarrowWrite(plan.cfg, plan.meta, plan.acts) IN
  Go("spec", IF DroppedDeletes(plan.cfg, plan.meta, plan.acts) # {} \/ w = {}
             THEN [plan EXCEPT !.pc = "failed"]
             ELSE [plan EXCEPT !.pc = "emitted", !.write = w, !.read = CloseReadSet(plan.cfg, w)])

(* The staleness guard of kl apply; a plan without a serial is let through.*)
Guard ==
  Go("emitted", IF plan.pin > 0 /\ Changed(plan.pin, Serial, plan.read) # {}
                THEN [plan EXCEPT !.pc = "stale"]
                ELSE [plan EXCEPT !.pc = "admitted", !.guard = Serial])

(* Any other writer of the state.                                          *)
Commit ==
  /\ Serial < MaxSerial
  /\ \E g \in Graphs : trunk' = Append(trunk, g)
  /\ UNCHANGED <<cache, req, plan>>

Ended == plan.pc \in {"rejected", "failed", "stale", "admitted"}

Plan ==
  \/ FetchTrunkPinned \/ AskExpand \/ StartWalk \/ Walk \/ Contract
  \/ ResolveSlice \/ Materialise \/ FallBack \/ TerraformPlan \/ EmitSpec \/ Guard

Serve(q) == ResolveInfo(q) \/ CacheHit(q) \/ LoadGraph(q) \/ PutGraph(q)

ScopeNext == Commit \/ Expire \/ Plan \/ \E q \in Request : Serve(q) \/ Answered(q)

(* A running kl plan takes its next step, and kld answers its request.     *)
ScopeSpec == ScopeInit /\ [][ScopeNext]_scopeVars /\ WF_scopeVars(Plan) /\ WF_scopeVars(Serve(Mine))

-----------------------------------------------------------------------------
(* The planner's record and the cache are well formed, and the cache       *)
(* keeps to its capacity with one entry per serial.                        *)
ScopeTypeOK ==
  /\ Serial \in 1..MaxSerial /\ \A v \in 1..Serial : trunk[v] \in Graphs
  /\ Len(cache) <= MaxEntries
  /\ \A i, j \in DOMAIN cache : cache[i].serial = cache[j].serial => i = j
  /\ plan.write \subseteq plan.read /\ plan.read \subseteq Addr
  /\ plan.at \in 0..Serial /\ plan.pin \in 0..Serial /\ plan.from \in 0..Serial

(* A contract the client accepts is closed: an address it fetches, or      *)
(* plans from configuration, has each of its dependencies, recorded in the *)
(* state or declared in the configuration, among the fetched and the       *)
(* configuration-required addresses, or vouched for as undeployed.         *)
ContractClosed ==
  LET scope == plan.meta.fetch \cup plan.meta.required IN
  /\ ScopeTypeOK
  /\ plan.pc \in {"slice", "rows"} =>
       \A a \in scope, d \in Addr :
          \/ a \in Realised(plan.at) /\ d \in Adjacency(plan.at, a)
          \/ a \in ConfigNodes(plan.cfg) /\ d \in plan.cfg.graph[a]
          => d \in scope \/ d \in Candidates(plan.cfg) \ Known(plan.cfg, plan.at)

(* The plan was admitted by the staleness guard on the strength of its     *)
(* source_serial, its writes are of addresses without an index, and the    *)
(* client's scan lists every dependency the configuration declares.        *)
AdmittedOnSerial ==
  /\ plan.pc = "admitted" /\ plan.pin > 0
  /\ GraphClosure[plan.cfg] \subseteq SliceTargets(plan.cfg)
  /\ \A a \in plan.write : BaseOf[a] = a

CreatesAreNew == \A a \in plan.write : plan.acts[a] = "create" => a \notin Realised(plan.guard)

(* What plan.go says of source_serial, "the trunk state serial this plan   *)
(* was computed against": a plan the guard lets through creates only what  *)
(* the trunk does not have, whatever commits land while it is made.        *)
PinnedPlanTrue == AdmittedOnSerial => CreatesAreNew

(* The part of it that holds, when the graph of the contract is of the     *)
(* version the plan pins, no commit having landed between the scope        *)
(* expansion and the slice: what the plan creates is new, or was destroyed *)
(* between the pinned version and the rows, and came back as it was.       *)
AdmittedPlanTrue ==
  AdmittedOnSerial /\ plan.at >= plan.pin =>
    \A a \in plan.write : (plan.acts[a] = "create" /\ a \in Realised(plan.guard)) =>
       a \in Realised(plan.pin) \ Realised(plan.from)

(* Two addresses with a common dependency, or a common dependent, or one   *)
(* of which depends on the other.                                          *)
Linked == [c \in Configs |->
  {e \in Addr \X Addr :
     \/ Reach({e[1]}, c.graph) \cap Reach({e[2]}, c.graph) # {}
     \/ \E d \in Addr : {e[1], e[2]} \subseteq Reach({d}, c.graph)}]

(* An emitted plan reserves, for reading at least, every address linked to *)
(* one it writes: another plan that writes there asks for a conflicting    *)
(* reservation, whichever way the dependency runs.                         *)
LinkedPlansConflict ==
  plan.pc \in {"emitted", "admitted"} =>
    \A e \in Linked[plan.cfg] : e[1] \in plan.write => e[2] \in plan.read

(* Every kl plan ends, although the state's and the configuration's edges  *)
(* together may form a cycle that neither has alone.                       *)
PlanEnds == <>Ended
============================================================================
