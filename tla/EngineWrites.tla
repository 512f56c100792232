---------------------------- MODULE EngineWrites ----------------------------
(***************************************************************************)
(* The state-engine writes to one state: exact-address remove, move and    *)
(* replay, full rollback and the delta commit of a trusted kl apply, each  *)
(* under the coarse lock, beside plain Terraform, kl refresh and the kl    *)
(* apply lane that falls back to snapshots and takes no coarse lock.       *)
(*                                                                         *)
(* A remove, move or replay reads the current document, then the open      *)
(* rows, then inserts the next version, in READ COMMITTED and without a    *)
(* row lock on states: three steps, between which other transactions may   *)
(* commit.  What makes them one mutation is the coarse lock.               *)
(***************************************************************************)
EXTENDS StateStore

CONSTANTS
  Op,                    \* state-engine requests; each brings a fresh lock id
  DependsOn(_, _),       \* DependsOn(attr, a): attr names a as a dependency
  Redirect(_, _, _),     \* Redirect(attr, a, b): attr with dependency a renamed b
  PostedDoc,             \* the documents Terraform and kl refresh write
  Tag,                   \* version tags
  Refs,                  \* the version references in use
  MaxCrash               \* bound: requests that die before they release

ASSUME EngineAssumption ==
  /\ Op \subseteq LockId /\ PostedDoc \subseteq Doc
  /\ Refs \subseteq [kind : {"serial", "back", "tag"}, n : Nat, tag : Tag \cup {"none"}]
  /\ \A ref \in Refs : ref.kind = "tag" => ref.tag \in Tag
  /\ MaxCrash \in Nat

(* Renaming a dependency gives an instance again, and leaves one that does *)
(* not name the old address as it is; what is absent depends on nothing.   *)
ASSUME DependencyAssumption ==
  /\ \A t \in Attr, a, b \in Addr :
       Redirect(t, a, b) \in Attr /\ (~ DependsOn(t, a) => Redirect(t, a, b) = t)
  /\ \A a \in Addr : ~ DependsOn(NoAttr, a)

VARIABLES
  op,       \* the state-engine requests
  tags,     \* state_version_tags: where each tag points, or NoVersion
  refresh,  \* a run of kl refresh
  crashes   \* how many requests died

engineVars == <<storeVars, op, tags, refresh, crashes>>

TfLock == LockId \ Op
None   == "none"
NoRef  == [kind |-> None, n |-> 0, tag |-> None]

(* ref: the version reference of a replay; target: the version it resolved *)
(* to; doc: the patched document; close, reopen: the rows to close and the     *)
(* instances to open; fresh: the trunk a delta commit was built on;        *)
(* serial: the serial reported, 0 if nothing was committed.                *)
IdleOp == [pc |-> "idle", kind |-> None, from |-> None, to |-> None, ref |-> NoRef,
           target |-> 0, doc |-> EmptyDoc, close |-> {}, reopen |-> {}, fresh |-> 0, serial |-> 0]
NoRefresh == [pc |-> "idle", base |-> 0, serial |-> 0, to |-> 0]

EngineInit ==
  /\ StoreInit
  /\ op = [w \in Op |-> IdleOp]
  /\ tags = [t \in Tag |-> NoVersion]
  /\ refresh = NoRefresh
  /\ crashes = 0

-----------------------------------------------------------------------------
(* Version references                                                      *)

(* resolveVersion: a serial (or the UUID of a version, which never         *)
(* changes), @n counted back from the newest version, or a tag.            *)
Resolve(ref) ==
  LET found == {s \in DOMAIN versions :
                  CASE ref.kind = "serial" -> s = ref.n
                    [] ref.kind = "back"   -> Cardinality({v \in DOMAIN versions : v > s}) = ref.n
                    [] ref.kind = "tag"    -> s = tags[ref.tag]}
  IN  IF found = {} THEN NoVersion ELSE CHOOSE s \in found : TRUE

(* SetTag creates or moves a tag, in a transaction of its own that takes   *)
(* no lock of the state.                                                   *)
SetTag(t, ref) ==
  /\ Resolve(ref) # NoVersion
  /\ tags' = [tags EXCEPT ![t] = Resolve(ref)]
  /\ UNCHANGED <<storeVars, op, refresh, crashes>>

UnsetTag(t) ==
  /\ tags[t] # NoVersion
  /\ tags' = [tags EXCEPT ![t] = NoVersion]
  /\ UNCHANGED <<storeVars, op, refresh, crashes>>

-----------------------------------------------------------------------------
(* Patches                                                                 *)

RedirectCell(c, from, to) ==
  IF c = Absent THEN c ELSE [c EXCEPT !.attr = Redirect(c.attr, from, to)]

(* patchStateResource: one address replaced by a cell.                     *)
PatchStateResource(doc, a, cell) == [doc EXCEPT !.res[a] = cell]

(* patchMoveStateResource: the instance at its new address, and every      *)
(* dependency on the old one renamed.                                      *)
PatchMoveStateResource(doc, from, to) ==
  [doc EXCEPT !.res = [a \in Addr |->
     CASE a = from -> Absent
       [] a = to   -> RedirectCell(doc.res[from], from, to)
       [] OTHER    -> RedirectCell(doc.res[a], from, to)]]

Patch(o, doc) ==
  CASE o.kind = "remove" -> PatchStateResource(doc, o.from, Absent)
    [] o.kind = "move"   -> PatchMoveStateResource(doc, o.from, o.to)
    [] o.kind = "replay" -> PatchStateResource(doc, o.from, versions[o.target].res[o.from])

(* loadResourceRowAtSerial, getResourceAtVersion: the content the rows     *)
(* give an address at a serial.                                            *)
AttrAt(a, s) ==
  LET at == {r \in rows : r.addr = a /\ Covers(r, s)}
  IN  IF s <= 0 \/ at = {} THEN NoAttr ELSE (CHOOSE r \in at : TRUE).attr

HasInstance(doc, a) == doc.res[a] # Absent

-----------------------------------------------------------------------------
(* Requests                                                                *)

Set(w, o)    == op' = [op EXCEPT ![w] = o]
Report(w, n) == Set(w, [IdleOp EXCEPT !.pc = "done", !.serial = n])
Done(w)      == Report(w, 0)
At(w, pc)    == op[w].pc = pc

\* Mutant of Begin: the coarse lock is taken beside a lock of Terraform.
BeginBeside(w) ==
  /\ At(w, "idle")
  /\ locks' = [locks EXCEPT ![w] = [kind |-> "engine", source |-> 0]]
  /\ \E a \in Addr : Set(w, [IdleOp EXCEPT !.pc = "locked", !.kind = "remove", !.from = a])
  /\ UNCHANGED <<versions, current, rows, exclusive, tags, refresh, crashes>>

(* withStateEngineMutationLock, acquireStateEngineCoarseLock.  The         *)
(* rollback handler has resolved its target before, and it was not the     *)
(* current version then.                                                   *)
Begin(w) ==
  /\ At(w, "idle")
  /\ AcquireStateEngineLock(w)
  /\ \/ \E a \in Addr : Set(w, [IdleOp EXCEPT !.pc = "locked", !.kind = "remove", !.from = a])
     \/ \E a, b \in Addr : a # b /\ Set(w, [IdleOp EXCEPT !.pc = "locked", !.kind = "move",
                                                          !.from = a, !.to = b])
     \/ \E a \in Addr, ref \in Refs :
          Set(w, [IdleOp EXCEPT !.pc = "locked", !.kind = "replay", !.from = a, !.ref = ref])
     \/ \E s \in DOMAIN versions \ {current} :
          Set(w, [IdleOp EXCEPT !.pc = "locked", !.kind = "rollback", !.target = s])
     \/ Set(w, [IdleOp EXCEPT !.pc = "locked", !.kind = "apply"])
  /\ UNCHANGED <<tags, refresh, crashes>>

(* The preview every mutation runs first finds nothing to do, or a         *)
(* conflict.                                                               *)
NoOp(o) ==
  \/ current = NoVersion
  \/ o.kind = "remove" /\ ~ HasInstance(versions[current], o.from)
  \/ o.kind = "move"   /\ (~ HasInstance(versions[current], o.from) \/ HasInstance(versions[current], o.to))
  \/ o.kind = "replay" /\ (\/ o.target = NoVersion
                            \/ AttrAt(o.from, current) = AttrAt(o.from, o.target))

(* A replay resolves its reference in the preview, and keeps the serial.   *)
Targeted(o) == IF o.kind = "replay" THEN [o EXCEPT !.target = Resolve(o.ref)] ELSE o

\* Mutant of Preview: the early return of a no-op skips the release.
PreviewForgets(w) ==
  /\ At(w, "locked") /\ op[w].kind \in {"remove", "move", "replay"}
  /\ LET o == Targeted(op[w])
     IN  IF NoOp(o) THEN Set(w, IdleOp) ELSE Set(w, [o EXCEPT !.pc = "previewed"])
  /\ UNCHANGED <<storeVars, tags, refresh, crashes>>

Preview(w) ==
  /\ At(w, "locked") /\ op[w].kind \in {"remove", "move", "replay"}
  /\ LET o == Targeted(op[w])
     IN  IF NoOp(o) THEN Done(w) ELSE Set(w, [o EXCEPT !.pc = "previewed"])
  /\ UNCHANGED <<storeVars, tags, refresh, crashes>>

(* The current document is read (again) and patched; an address that       *)
(* vanished since the preview ends the request.  A replay resolves its     *)
(* reference again for the document, while the rows will be those of the   *)
(* serial the preview resolved.                                            *)
ReadDoc(w) ==
  /\ At(w, "previewed")
  /\ LET doc   == versions[current]
         o     == op[w]
         again == Targeted(o)
     IN  IF \/ o.kind \in {"remove", "move"} /\ ~ HasInstance(doc, o.from)
            \/ o.kind = "move" /\ HasInstance(doc, o.to)
            \/ o.kind = "replay" /\ again.target = NoVersion
         THEN Done(w)
         ELSE Set(w, [o EXCEPT !.pc = "patched", !.doc = Patch(again, doc)])
  /\ UNCHANGED <<storeVars, tags, refresh, crashes>>

Dependents(a) == {r \in rows : IsOpen(r) /\ r.addr # a /\ DependsOn(r.attr, a)}
Instances(rs, from, to) == {[addr |-> IF r.addr = from THEN to ELSE r.addr,
                             attr |-> Redirect(r.attr, from, to)] : r \in rs}

\* Mutant of RowChange: a move leaves the dependents' rows alone.
RowChangeOwn(o) ==
  CASE o.kind = "remove" -> [close |-> OpenRows(o.from), reopen |-> {}]
    [] o.kind = "move" ->
         [close |-> OpenRows(o.from), reopen |-> Instances(OpenRows(o.from), o.from, o.to)]
    [] o.kind = "replay" ->
         [close  |-> OpenRows(o.from),
          reopen |-> IF AttrAt(o.from, o.target) = NoAttr THEN {}
                     ELSE {[addr |-> o.from, attr |-> AttrAt(o.from, o.target)]}]

(* The rows a mutation closes and the instances it opens.                  *)
RowChange(o) ==
  CASE o.kind = "remove" -> [close |-> OpenRows(o.from), reopen |-> {}]
    [] o.kind = "move" ->
         LET rs == OpenRows(o.from) \cup Dependents(o.from)
         IN  [close |-> rs, reopen |-> Instances(rs, o.from, o.to)]
    [] o.kind = "replay" ->
         [close  |-> OpenRows(o.from),
          reopen |-> IF AttrAt(o.from, o.target) = NoAttr THEN {}
                     ELSE {[addr |-> o.from, attr |-> AttrAt(o.from, o.target)]}]

(* The rows are read; a remove or move without an open row fails, as does  *)
(* a move to an address with one.                                          *)
ReadRows(w) ==
  /\ At(w, "patched")
  /\ LET o == op[w]
         c == RowChange(o)
     IN  IF \/ o.kind # "replay" /\ OpenRows(o.from) = {}
            \/ o.kind = "move" /\ OpenRows(o.to) # {}
         THEN Done(w)
         ELSE Set(w, [o EXCEPT !.pc = "ready", !.close = c.close, !.reopen = c.reopen])
  /\ UNCHANGED <<storeVars, tags, refresh, crashes>>

(* computeNextStateSerial, insertDerivedStateVersion, closeResources,      *)
(* insertResourceRows, finalizeDerivedStateVersion                         *)
Mutate(w) ==
  /\ At(w, "ready")
  /\ LET o == op[w]
         n == NextSerial
     IN  /\ InsertVersion(n, o.doc)
         /\ rows' = {IF r \in o.close /\ IsOpen(r) THEN [r EXCEPT !.delete = n] ELSE r : r \in rows}
                      \cup {[addr |-> i.addr, attr |-> i.attr, create |-> n, delete |-> Open]
                              : i \in o.reopen}
         /\ Report(w, n)
  /\ UNCHANGED <<locks, exclusive, tags, refresh, crashes>>

(* handleRollback: ReplayVersion under the coarse lock.                    *)
Rollback(w) ==
  /\ At(w, "locked") /\ op[w].kind = "rollback"
  /\ ReplayVersion(op[w].target)
  /\ Report(w, current')
  /\ UNCHANGED <<tags, refresh, crashes>>

(* The trusted lane of kl apply: read the fresh trunk, commit a delta,     *)
(* report fresh serial + 1.                                                *)
ReadTrunk(w) ==
  /\ At(w, "locked") /\ op[w].kind = "apply"
  /\ IF current = NoVersion THEN Done(w)
     ELSE Set(w, [op[w] EXCEPT !.pc = "fresh", !.fresh = current])
  /\ UNCHANGED <<storeVars, tags, refresh, crashes>>

\* Mutant of CommitDelta: the serial of the trunk is reported.
CommitDeltaStale(w) ==
  /\ At(w, "fresh")
  /\ \E doc \in PostedDoc, changed \in SUBSET Addr :
       WriteStateEngineDeltaForApply(doc, changed, {})
  /\ Report(w, op[w].fresh)
  /\ UNCHANGED <<tags, refresh, crashes>>

CommitDelta(w) ==
  /\ At(w, "fresh")
  /\ \E doc \in PostedDoc, changed \in SUBSET Addr :
       WriteStateEngineDeltaForApply(doc, changed, {})
  /\ Report(w, op[w].fresh + 1)
  /\ UNCHANGED <<tags, refresh, crashes>>

(* Any step may fail with a database error, a lost serial race included;   *)
(* a kl apply may fail before it commits.                                  *)
OpFails(w) ==
  /\ op[w].pc \in {"locked", "previewed", "patched", "ready", "fresh"}
  /\ Done(w)
  /\ UNCHANGED <<storeVars, tags, refresh, crashes>>

(* The deferred release.                                                   *)
Finish(w) ==
  /\ At(w, "done")
  /\ ReleaseStateEngineLock(w)
  /\ Set(w, IdleOp)
  /\ UNCHANGED <<tags, refresh, crashes>>

(* kld or kl dies, or the client goes away and the release runs with a     *)
(* cancelled context: the transaction under way is rolled back, the lock   *)
(* stays.                                                                  *)
Crash(w) ==
  /\ op[w].pc \notin {"idle", "dead"} /\ crashes < MaxCrash
  /\ crashes' = crashes + 1
  /\ Set(w, [IdleOp EXCEPT !.pc = "dead"])
  /\ UNCHANGED <<storeVars, tags, refresh>>

Step(w) ==
  \/ Preview(w) \/ ReadDoc(w) \/ ReadRows(w) \/ Mutate(w)
  \/ Rollback(w) \/ ReadTrunk(w) \/ CommitDelta(w) \/ OpFails(w) \/ Finish(w)

-----------------------------------------------------------------------------
(* kl refresh: read the trunk, ask the providers, write without a lock id, *)
(* record serial base + 1 as the version produced.                         *)
RefreshBegin ==
  /\ refresh.pc # "running" /\ current # NoVersion
  /\ refresh' = [NoRefresh EXCEPT !.pc = "running", !.base = current]
  /\ UNCHANGED <<storeVars, op, tags, crashes>>

CommitRefreshedState ==
  /\ refresh.pc = "running"
  /\ \E doc \in PostedDoc : WriteState(NoLockId, doc)
  /\ refresh' = [refresh EXCEPT !.pc = "succeeded", !.serial = current', !.to = refresh.base + 1]
  /\ UNCHANGED <<op, tags, crashes>>

(* A resource failed to refresh, the write was refused, or a dry run: no   *)
(* version is recorded.                                                    *)
RefreshFails ==
  /\ refresh.pc = "running"
  /\ refresh' = NoRefresh
  /\ UNCHANGED <<storeVars, op, tags, crashes>>

-----------------------------------------------------------------------------
(* Plain Terraform and the fallback lane of kl apply.                      *)
Terraform ==
  /\ \/ EnsureCurrentStateInfo
     \/ \E l \in TfLock : AcquireLock(l) \/ ReleaseLock(l)
     \/ ForceReleaseLock
     \/ \E l \in TfLock \cup {NoLockId}, doc \in PostedDoc : WriteState(l, doc)
  /\ UNCHANGED <<op, tags, refresh, crashes>>

FallbackApply ==
  /\ \E n \in CallerSerial, doc \in PostedDoc : WriteStateForApply(n, doc)
  /\ UNCHANGED <<op, tags, refresh, crashes>>

EngineNext ==
  \/ \E w \in Op : Begin(w) \/ Step(w) \/ Crash(w)
  \/ RefreshBegin \/ CommitRefreshedState \/ RefreshFails
  \/ Terraform

(* A request that does not die runs to its end.                            *)
EngineFairness == \A w \in Op : WF_engineVars(Step(w))
EngineSpec     == EngineInit /\ [][EngineNext]_engineVars /\ EngineFairness

(* The same with tags set, moved and removed at any moment.                *)
Tagging(t)  == UnsetTag(t) \/ \E ref \in Refs : SetTag(t, ref)
TagRaceNext == EngineNext \/ \E t \in Tag : Tagging(t)

(* The same with kl apply's fallback lane in use.                          *)
FallbackNext == EngineNext \/ FallbackApply

-----------------------------------------------------------------------------
(* Properties                                                              *)

(* Shapes of the requests and of the refresh run.                          *)
EngineTypeOK ==
  /\ op \in [Op -> [pc : {"idle", "locked", "previewed", "patched", "ready", "fresh", "done", "dead"},
                    kind : {None, "remove", "move", "replay", "rollback", "apply"},
                    from : Addr \cup {None}, to : Addr \cup {None}, ref : Refs \cup {NoRef},
                    target : Nat, doc : Doc,
                    close : SUBSET ResourceRow, reopen : SUBSET [addr : Addr, attr : Attr],
                    fresh : Nat, serial : Nat]]
  /\ refresh \in [pc : {"idle", "running", "succeeded"}, base : Nat, serial : Nat, to : Nat]
  /\ tags \in [Tag -> Nat \cup {NoVersion}]
  /\ crashes \in 0..MaxCrash

(* A mutation patches the version it follows: what it commits is its patch *)
(* of the document that is current at that moment, though it read the      *)
(* document two steps earlier and re-reads nothing.                        *)
MutationsPatchTrunk ==
  [][\A w \in Op : Mutate(w) => versions'[current'] = Patch(op[w], versions[current])]_engineVars

(* The serial a state-engine request reports is that of the version it     *)
(* committed, which nobody has followed yet; tables and requests keep      *)
(* their types on the way.                                                 *)
ReportedSerialIsOurs ==
  /\ EngineTypeOK
  /\ \A w \in Op : (op[w].pc = "done" /\ op[w].serial > 0) => op[w].serial = current

(* The coarse lock blocks the state for ever only if its holder died.      *)
CoarseLockEnds ==
  []<>(\A l \in LockId : locks[l].kind # "engine") \/ <>(crashes > 0)

(* A replay writes the same historical instance into the document and into *)
(* the rows, wherever its tag moves meanwhile: resolveTagToVersionID "runs *)
(* inside the same transaction as the surrounding lookup so a tag move +   *)
(* read can race without producing inconsistent reads" (tags.go).          *)
TagReadsConsistent ==
  [][\A w \in Op : (Mutate(w) /\ op[w].kind = "replay") =>
       op[w].reopen = {[addr |-> a, attr |-> op[w].doc.res[a].attr] :
                         a \in {b \in {op[w].from} : HasInstance(op[w].doc, b)}}]_engineVars

(* The version a finished refresh run names is the one it wrote:           *)
(* newVersionID "is the row id of the state_version that the refresh       *)
(* produced" (refresh.go).                                                 *)
RefreshAuditTruthful == refresh.pc = "succeeded" => refresh.to = refresh.serial
=============================================================================
