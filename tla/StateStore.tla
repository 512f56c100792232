----------------------------- MODULE StateStore -----------------------------
(***************************************************************************)
(* The Postgres-backed store of one Terraform state (pkg/store): its       *)
(* versions, the derived resource lifecycle rows, its locks and its lock   *)
(* mode, with one action per store transaction that changes them.          *)
(*                                                                         *)
(* Every write transaction first upserts the states row and so holds its   *)
(* row lock until it ends, and ReplayVersion contends with it on the       *)
(* unique (state_id, serial) key and on the states row: transactions on    *)
(* one state are serialised, and each one is a single action here.  An     *)
(* error return rolls the transaction back; it changes nothing and is no   *)
(* action.  Deleting the state is not modelled.                            *)
(*                                                                         *)
(* Writers are arbitrary: any document, any held or unheld lock id, and,   *)
(* where the caller supplies the serial, any serial computed from a trunk  *)
(* it once read.                                                           *)
(***************************************************************************)
EXTENDS Integers, FiniteSetsExt, StateDoc

CONSTANTS
  LockId,      \* lock identifiers, chosen by clients
  NoLockId,    \* the empty lock id of a request without one
  MaxSerial    \* bound: no version beyond this serial is written

ASSUME StoreAssumption == NoLockId \notin LockId /\ MaxSerial \in Nat

VARIABLES
  versions,   \* state_versions: serial -> document (raw_state)
  current,    \* states.current_version_id, as a serial, or NoVersion
  rows,       \* resources: the lifecycle rows
  locks,      \* state_locks: lock id -> row, or NoLock
  exclusive   \* states.exclusive_locks

storeVars == <<versions, current, rows, locks, exclusive>>

NoVersion == -1
Open      == -1     \* delete_serial IS NULL
LockRow   == [kind : {"http", "engine"}, source : Nat]
NoLock    == [kind |-> "none", source |-> 0]
ResourceRow == [addr : Addr, attr : Attr, create : Nat, delete : Nat \cup {Open}]

Held == {l \in LockId : locks[l] # NoLock}

StoreInit ==
  /\ versions = [s \in {} |-> EmptyDoc]
  /\ current = NoVersion
  /\ rows = {}
  /\ locks = [l \in LockId |-> NoLock]
  /\ exclusive \in BOOLEAN

-----------------------------------------------------------------------------
(* Normalisation: the lifecycle rows                                       *)

IsOpen(r)     == r.delete = Open
OpenRows(a)   == {r \in rows : r.addr = a /\ IsOpen(r)}
(* The hash of the open row of an address, if it has one.                  *)
OpenAttr(a)   == IF OpenRows(a) = {} THEN NoAttr ELSE (CHOOSE r \in OpenRows(a) : TRUE).attr

(* The addresses whose row must change for the document's resources.       *)
Drifted(res, selected) == {a \in selected : OpenAttr(a) # res[a].attr}

(* closeResources, guarded by delete_serial IS NULL.                       *)
CloseRow(r, drifted, n) ==
  IF IsOpen(r) /\ r.addr \in drifted THEN [r EXCEPT !.delete = n] ELSE r

(* insertResourceRows                                                      *)
NewRow(a, res, n) == [addr |-> a, attr |-> res[a].attr, create |-> n, delete |-> Open]

(* applyResourceDelta (selected = Addr), applyResourceDeltaSelected: close *)
(* the open rows that changed or disappeared, open a row for each changed  *)
(* or new instance.                                                        *)
ResourceDelta(n, res, selected) ==
  LET drifted == Drifted(res, selected)
  IN  {CloseRow(r, drifted, n) : r \in rows}
        \cup {NewRow(a, res, n) : a \in {b \in drifted : res[b].attr # NoAttr}}

(* buildCurrentStateResourcesFromOpenRows, after a selected delta: what    *)
(* the rows know of each instance.  Everything kept only in raw_state is   *)
(* reset.                                                                  *)
RebuiltRes(res, selected) ==
  [a \in Addr |-> LET attr == IF a \in selected THEN res[a].attr ELSE OpenAttr(a)
                  IN  [attr |-> attr, meta |-> NoMeta]]

-----------------------------------------------------------------------------
(* Versions                                                                *)

(* COALESCE(MAX(serial), 0) + 1                                            *)
NextSerial == IF DOMAIN versions = {} THEN 1 ELSE Max(DOMAIN versions) + 1

(* Insert the version row, unless its serial is taken (ErrSerialConflict), *)
(* and move current_version_id to it.                                      *)
InsertVersion(n, doc) ==
  /\ n \notin DOMAIN versions
  /\ n <= MaxSerial
  /\ versions' = [s \in DOMAIN versions \cup {n} |-> IF s = n THEN doc ELSE versions[s]]
  /\ current' = n

(* The tail of a full-document commit: version, normalize, current.        *)
CommitDoc(n, doc) ==
  /\ InsertVersion(n, doc)
  /\ rows' = ResourceDelta(n, doc.res, Addr)

(* The tail of a selected-row commit: only the selected rows are touched   *)
(* and the stored resources are rebuilt from the open rows.                *)
CommitSelected(n, doc, selected) ==
  /\ InsertVersion(n, [doc EXCEPT !.res = RebuiltRes(doc.res, selected)])
  /\ rows' = ResourceDelta(n, doc.res, selected)

(* EnsureCurrentStateInfo on a state without a version: the genesis.       *)
EnsureCurrentStateInfo ==
  /\ current = NoVersion
  /\ CommitDoc(0, EmptyDoc)
  /\ UNCHANGED <<locks, exclusive>>

-----------------------------------------------------------------------------
(* Locks                                                                   *)

(* The current version's serial, 0 for a state without a version.          *)
TrunkSerial == IF current = NoVersion THEN 0 ELSE current

\* Mutant of AcquireLock: exclusive mode admits a second lock.
AcquireLockShared(l) ==
  /\ Held = {} \/ \E m \in Held : locks[m].kind # "engine"
  /\ l \notin Held
  /\ locks' = [locks EXCEPT ![l] = [kind |-> "http", source |-> TrunkSerial]]
  /\ UNCHANGED <<versions, current, rows, exclusive>>

(* AcquireLock (HTTP LOCK).  The oldest lock is probed for a state-engine  *)
(* lock; which one that is does not matter, any may be met.                *)
AcquireLock(l) ==
  /\ Held = {} \/ \E m \in Held : locks[m].kind # "engine"
  /\ exclusive => Held = {}
  /\ l \notin Held
  /\ locks' = [locks EXCEPT ![l] = [kind |-> "http", source |-> TrunkSerial]]
  /\ UNCHANGED <<versions, current, rows, exclusive>>

(* ReleaseLock (HTTP UNLOCK): never a state-engine lock.                   *)
ReleaseLock(l) ==
  /\ locks[l].kind = "http"
  /\ locks' = [locks EXCEPT ![l] = NoLock]
  /\ UNCHANGED <<versions, current, rows, exclusive>>

(* ForceReleaseLock: every lock except a state-engine lock.                *)
ForceReleaseLock ==
  /\ \E l \in LockId : locks[l].kind = "http"
  /\ locks' = [l \in LockId |-> IF locks[l].kind = "engine" THEN locks[l] ELSE NoLock]
  /\ UNCHANGED <<versions, current, rows, exclusive>>

(* AcquireStateEngineLock: the coarse lock of a state-engine write; no     *)
(* other lock may exist.  Repeating it is a no-op.                         *)
AcquireStateEngineLock(l) ==
  /\ Held = {}
  /\ locks' = [locks EXCEPT ![l] = [kind |-> "engine", source |-> 0]]
  /\ UNCHANGED <<versions, current, rows, exclusive>>

ReleaseStateEngineLock(l) ==
  /\ locks[l].kind = "engine"
  /\ locks' = [locks EXCEPT ![l] = NoLock]
  /\ UNCHANGED <<versions, current, rows, exclusive>>

(* SetStateExclusiveLocks: an update of the flag, whatever locks exist.    *)
SetStateExclusiveLocks(on) ==
  /\ exclusive # on
  /\ exclusive' = on
  /\ UNCHANGED <<versions, current, rows, locks>>

-----------------------------------------------------------------------------
(* Writes                                                                  *)

(* checkLockForWrite: some lock row is fetched and must be the caller's.   *)
LockCheckPasses(lid) ==
  IF lid = NoLockId THEN Held = {} ELSE lid \in Held

(* The lock recorded a baseline and the trunk has moved past it.           *)
MustMerge(lid) ==
  /\ lid \in Held
  /\ locks[lid].source > 0
  /\ TrunkSerial > locks[lid].source

\* Mutant of DocToStore: the base of the merge is the trunk, not the lock's baseline.
DocToStoreTrunkBase(lid, doc) ==
  IF ~ exclusive /\ MustMerge(lid)
  THEN MergeStates(versions[current], versions[current], doc)
  ELSE doc

(* What a POST stores: the merge of the optimistic path, else the bytes.   *)
DocToStore(lid, doc) ==
  IF ~ exclusive /\ MustMerge(lid)
  THEN MergeStates(versions[locks[lid].source], versions[current], doc)
  ELSE doc

(* The write-set and lineage checks of the optimistic path.                *)
MergePasses(lid, doc) ==
  (~ exclusive /\ MustMerge(lid)) =>
    MergeAllowed(versions[locks[lid].source], versions[current], doc)

(* WriteState (HTTP POST): check the lock, merge if needed, commit at      *)
(* MAX+1, and advance the lock's baseline to the new version.              *)
WriteState(lid, doc) ==
  /\ LockCheckPasses(lid)
  /\ MergePasses(lid, doc)
  /\ CommitDoc(NextSerial, DocToStore(lid, doc))
  /\ locks' = IF lid \in Held THEN [locks EXCEPT ![lid].source = NextSerial] ELSE locks
  /\ UNCHANGED exclusive

(* The serials a caller of the apply-commit path can present: one past a   *)
(* trunk it read.                                                          *)
CallerSerial == {s + 1 : s \in DOMAIN versions}

\* Mutant of WriteStateForApply: the next free serial replaces the caller's.
WriteStateForApplyGap(n, doc) ==
  /\ CommitDoc(n + 1, doc)
  /\ UNCHANGED <<locks, exclusive>>

(* WriteStateForApply: no lock check, the caller's serial is trusted and   *)
(* its uniqueness detects a concurrent committer.                          *)
WriteStateForApply(n, doc) ==
  /\ CommitDoc(n, doc)
  /\ UNCHANGED <<locks, exclusive>>

(* WriteStateDeltaForApply: the same, touching the named rows only.        *)
WriteStateDeltaForApply(n, doc, changed) ==
  /\ CommitSelected(n, doc, changed)
  /\ UNCHANGED <<locks, exclusive>>

(* mergeOutputDelta: the current outputs with the delta's writes and       *)
(* deletions laid over.                                                    *)
MergeOutputDelta(doc, outs) ==
  [o \in OutName |-> IF o \in outs THEN doc.out[o]
                     ELSE IF current = NoVersion THEN NoOut ELSE versions[current].out[o]]

(* WriteStateEngineDeltaForApply: rows and outputs named by the delta,     *)
(* committed at MAX+1; the caller's base serial is ignored.                *)
WriteStateEngineDeltaForApply(doc, changed, outs) ==
  /\ CommitSelected(NextSerial, [doc EXCEPT !.out = MergeOutputDelta(doc, outs)], changed)
  /\ UNCHANGED <<locks, exclusive>>

(* ReplayVersion: roll back by committing an old document again at MAX+1.  *)
ReplayVersion(s) ==
  /\ CommitDoc(NextSerial, versions[s])
  /\ UNCHANGED <<locks, exclusive>>

-----------------------------------------------------------------------------
LockNext ==
  \/ \E l \in LockId : \/ AcquireLock(l)
                       \/ ReleaseLock(l)
                       \/ AcquireStateEngineLock(l)
                       \/ ReleaseStateEngineLock(l)
  \/ ForceReleaseLock
  \/ \E on \in BOOLEAN : SetStateExclusiveLocks(on)

WriteNext ==
  \/ EnsureCurrentStateInfo
  \/ \E doc \in Doc :
       \/ \E lid \in LockId \cup {NoLockId} : WriteState(lid, doc)
       \/ \E n \in CallerSerial : WriteStateForApply(n, doc)
       \/ \E n \in CallerSerial, changed \in SUBSET Addr :
            WriteStateDeltaForApply(n, doc, changed)
       \/ \E changed \in SUBSET Addr, outs \in SUBSET OutName :
            WriteStateEngineDeltaForApply(doc, changed, outs)
  \/ \E s \in DOMAIN versions : ReplayVersion(s)

StoreNext == LockNext \/ WriteNext
StoreSpec == StoreInit /\ [][StoreNext]_storeVars

-----------------------------------------------------------------------------
(* Properties                                                              *)

(* Shapes of the five tables.                                              *)
StoreTypeOK ==
  /\ DOMAIN versions \subseteq Nat
  /\ versions \in [DOMAIN versions -> Doc]
  /\ current \in Nat \cup {NoVersion}
  /\ rows \subseteq ResourceRow
  /\ locks \in [LockId -> LockRow \cup {NoLock}]
  /\ exclusive \in BOOLEAN

(* The serials are gap-free and current_version_id is the last of them,    *)
(* although the apply path lets its caller choose the serial.  This is     *)
(* what makes "trunk + 1 is still free" the same as "the trunk has not     *)
(* moved", on which the apply orchestrator's retry loop relies.            *)
HistoryGapFree ==
  /\ current = NoVersion <=> DOMAIN versions = {}
  /\ current # NoVersion => /\ current \in DOMAIN versions
                            /\ \A s \in DOMAIN versions : s <= current
                            /\ \A s \in 1..current : s \in DOMAIN versions

(* Lifecycle ranges of one address do not overlap: the constraint the      *)
(* resources table cannot express and leaves to the write path             *)
(* (migrations/0001_baseline.sql).                                         *)
Before(q, r) == ~ IsOpen(q) /\ q.delete <= r.create
LifecyclesDisjoint ==
  /\ \A r \in rows : /\ r.create <= current
                     /\ ~ IsOpen(r) => r.create < r.delete /\ r.delete <= current
  /\ \A q, r \in rows : (q.addr = r.addr /\ q # r) => Before(q, r) \/ Before(r, q)

(* The row covers version s.                                               *)
Covers(r, s) == r.create <= s /\ (~ IsOpen(r) => s < r.delete)

(* The lifecycle rows reproduce every version ever written: at serial s    *)
(* the rows covering s are exactly the instances of the document stored    *)
(* for s, with their hashed content.  Full commits, selected-row commits,  *)
(* merges and rollbacks all have to keep this for every older version too. *)
RowsMatchHistory ==
  \A s \in DOMAIN versions : \A a \in Addr :
    /\ \A r \in rows : (r.addr = a /\ Covers(r, s)) => r.attr = versions[s].res[a].attr
    /\ versions[s].res[a].attr # NoAttr => \E r \in rows : r.addr = a /\ Covers(r, s)

(* A state-engine lock is never held beside another lock: it blocks plain  *)
(* Terraform while a state-engine write is active.                         *)
EngineLockAlone ==
  \A l, m \in LockId : (locks[l].kind = "engine" /\ locks[m] # NoLock) => l = m

(* The merge always finds its base: a recorded baseline is a version of    *)
(* the store, so "read base version" cannot fail.                          *)
BaselineStored ==
  \A l \in LockId : locks[l].source > 0 => locks[l].source \in DOMAIN versions

(* The store implements the append-only version log.                       *)
Log == INSTANCE VersionLog WITH Document <- Doc, Genesis <- EmptyDoc,
                                log <- versions, head <- current
VersionLogSpec == Log!LogSpec
=============================================================================
