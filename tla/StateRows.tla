----------------------------- MODULE StateRows -----------------------------
(***************************************************************************)
(* The states of one environment as rows: created by whoever first locks   *)
(* or writes a name, archived under a label that frees the name, restored, *)
(* suspended and destroyed by name, and counted by the environment quota   *)
(* (pkg/store/state.go, state_lifecycle.go, lock.go, behind the handlers   *)
(* of kld and klc).                                                        *)
(*                                                                         *)
(* A transaction looks a name up first and locks the row only later: with  *)
(* INSERT ... ON CONFLICT DO UPDATE a writer holds the row, or the name it *)
(* inserts, until it commits; a lifecycle change or a deletion holds it    *)
(* for its last statement.  Everything else may happen in between.         *)
(*                                                                         *)
(* A name is its parts: that of the client, then one label per archiving.  *)
(* Client names hold no wildcards of LIKE.  The workspace is active.       *)
(***************************************************************************)
EXTENDS Naturals, FiniteSets, Sequences

CONSTANTS
  Id,          \* ids of state rows
  NameOfState, \* the names clients use
  Label,       \* what archivedLabelName appends
  Lineage, Resource, LockId, Caller,
  SoftLimits,  \* values of max_environment_resources; 0: unlimited
  DefaultLimit, \* the soft limit the schema gives a new tenant
  MaxSerial,   \* bound: serials
  MaxLabels,   \* bound: labels of a name
  MaxChanges,  \* bound: lifecycle changes, deletions and settings
  NoId, NoLock, NoLineage

ASSUME RowsAssumption ==
  /\ IsFiniteSet(Id) /\ IsFiniteSet(Resource)
  /\ SoftLimits \subseteq Nat /\ DefaultLimit \in SoftLimits /\ MaxSerial \in Nat /\ MaxChanges \in Nat
  /\ NoId \notin Id /\ NoLock \notin LockId /\ NoLineage \notin Lineage

VARIABLES
  rows,    \* states: [name, status, lineage, exclusive, serials, current, res, born]
  locks,   \* state_locks: the lock ids of a row
  issued,  \* the Terraform session of a lock id: the name and, as history, the row
  mode,    \* environments.state_lock_default_mode
  limit,   \* tenants.max_environment_resources
  relaxed, \* history: rows whose configuration was set to shared locks
  call,    \* the requests under way
  changes  \* lifecycle changes, deletions and settings so far

rowVars == <<rows, locks, issued, mode, limit, relaxed, call, changes>>

Status  == {"active", "suspended", "archived"}
NoRow   == [name |-> <<>>, status |-> "none", lineage |-> NoLineage, exclusive |-> FALSE,
            serials |-> {}, current |-> 0, res |-> {}, born |-> "none"]
NotIssued == [name |-> <<>>, row |-> NoId]
NoCall  == [pc |-> "idle", op |-> "none", name |-> <<>>, lock |-> NoLock, lineage |-> NoLineage,
            res |-> {}, serial |-> 0, mode |-> "auto", to |-> "none", base |-> NoId, found |-> NoId,
            row |-> NoId, late |-> {}, seen |-> {}, counted |-> 0, hard |-> 0]

In(r, pc)  == call[r].pc = pc
To(r, new) == call' = [call EXCEPT ![r] = new]
Answer(r)  == To(r, NoCall)
Change     == changes < MaxChanges /\ changes' = changes + 1
Live(i)    == rows[i].status \in Status
Plain      == {<<b>> : b \in NameOfState}
Names      == Plain \cup {rows[i].name : i \in {j \in Id : Live(j)}}

RowsInit ==
  /\ rows = [i \in Id |-> NoRow]
  /\ locks = [i \in Id |-> {}]
  /\ issued = [l \in LockId |-> NotIssued]
  /\ mode = "auto" /\ limit = DefaultLimit
  /\ relaxed = {}
  /\ call = [r \in Caller |-> NoCall]
  /\ changes = 0

-----------------------------------------------------------------------------
(* Looking up                                                              *)

Labelled(name, n) == Len(name) > Len(n) /\ SubSeq(name, 1, Len(n)) = n
Exact(n)    == {i \in Id : Live(i) /\ rows[i].name = n}
ArchivedAs(n) == {i \in Id : rows[i].status = "archived" /\ Labelled(rows[i].name, n)}

(* The row by its exact name, or else any archived one.                    *)
Found(n)    == IF Exact(n) # {} THEN Exact(n) ELSE ArchivedAs(n)

(* Whether the upsert goes on from what it found: an inactive row stops    *)
(* it, unless it is an archived one of another, known lineage.             *)
Differs(i, lineage) == NoLineage \notin {rows[i].lineage, lineage} /\ rows[i].lineage # lineage
UpsertAdmits(i, n, lineage) ==
  IF rows[i].name = n THEN rows[i].status = "active" ELSE Differs(i, lineage)

(* What the upsert sees when its transaction begins.                       *)
LookUp(n, lineage) ==
  {i \in Found(n) : UpsertAdmits(i, n, lineage)} \cup {i \in {NoId} : Found(n) = {}}

(* Row locks: a writer past its upsert holds the row, or the name.         *)
Holds(r, i)  == In(r, "entered") /\ call[r].row = i
Free(i)      == \A r \in Caller : ~ Holds(r, i)
NameFree(n)  == \A r \in Caller : ~ (Holds(r, NoId) /\ call[r].name = n)

(* The row the upsert ends at: it looks again, by name only.               *)
Target(n) == IF Exact(n) = {} THEN NoId ELSE CHOOSE i \in Exact(n) : TRUE
MayEnter(n) == NameFree(n) /\ Free(Target(n))

-----------------------------------------------------------------------------
(* Creating a row                                                          *)

\* Mutant of ExclusiveAtBirth: the automatic default is shared locks for everybody.
ExclusiveAtBirthVanillaOnly(default, by) == default = "vanilla"

(* initialStatePolicyForPrincipal, by the default the principal carries.   *)
ExclusiveAtBirth(default, by) ==
  default = "vanilla" \/ (default = "auto" /\ by = "backend")

Creator(op)  == IF op \in {"post", "lock"} THEN "backend" ELSE "kl"
Unused        == {i \in Id : rows[i].status = "none"}
Created(r)   == [NoRow EXCEPT !.name = call[r].name, !.status = "active", !.lineage = call[r].lineage,
                   !.exclusive = ExclusiveAtBirth(call[r].mode, Creator(call[r].op)),
                   !.born = IF call[r].mode = "auto" THEN Creator(call[r].op) ELSE call[r].mode]

-----------------------------------------------------------------------------
(* Locks of Terraform sessions                                             *)

BeginLock(r, n) ==
  /\ In(r, "idle")
  /\ \E i \in LookUp(n, NoLineage) :
       To(r, [NoCall EXCEPT !.pc = "looked", !.op = "lock", !.name = n, !.mode = mode, !.found = i])
  /\ UNCHANGED <<rows, locks, issued, mode, limit, relaxed, changes>>

(* A lock id is fresh; an exclusive state with a lock refuses another.     *)
LockGranted(i, l) == locks' = [locks EXCEPT ![i] = @ \cup {l}]
AcquireLock(r, l) ==
  LET n == call[r].name  i == Target(n) IN
  /\ In(r, "looked") /\ call[r].op = "lock" /\ MayEnter(n)
  /\ issued[l] = NotIssued
  /\ \/ /\ i # NoId /\ (rows[i].exclusive => locks[i] = {})
        /\ LockGranted(i, l) /\ issued' = [issued EXCEPT ![l] = [name |-> n, row |-> i]]
        /\ UNCHANGED rows
     \/ /\ i = NoId
        /\ \E k \in Unused : /\ rows' = [rows EXCEPT ![k] = Created(r)]
                            /\ LockGranted(k, l)
                            /\ issued' = [issued EXCEPT ![l] = [name |-> n, row |-> k]]
  /\ Answer(r)
  /\ UNCHANGED <<mode, limit, relaxed, changes>>

(* By name, and of active states only: the lock of an archived one stays.  *)
ReleaseLock(l) ==
  \E i \in Exact(issued[l].name) :
    /\ rows[i].status = "active" /\ l \in locks[i]
    /\ locks' = [locks EXCEPT ![i] = @ \ {l}]
    /\ UNCHANGED <<rows, issued, mode, limit, relaxed, call, changes>>

ForceReleaseLock(n) ==
  \E i \in Exact(n) :
    /\ rows[i].status = "active" /\ locks[i] # {}
    /\ locks' = [locks EXCEPT ![i] = {}]
    /\ UNCHANGED <<rows, issued, mode, limit, relaxed, call, changes>>

-----------------------------------------------------------------------------
(* Writing                                                                 *)

(* The resources of active states: what the environment quota counts, the  *)
(* state that is written aside.                                            *)
Managed == {p \in Id \X Resource : rows[p[1]].status = "active" /\ p[2] \in rows[p[1]].res}
OtherResources(i) ==
  Cardinality({p \in Managed : p[1] # i})

HardQuota(soft)       == IF soft = 0 THEN 0 ELSE soft + (soft + 1) \div 2
WithinQuota(i, res, hard) == hard = 0 \/ OtherResources(i) + Cardinality(res) <= hard

(* A POST of a session with its lock, or without a lock; any document.     *)
BeginPost(r, n, l, lineage, res) ==
  /\ In(r, "idle")
  /\ l # NoLock => issued[l].name = n
  /\ \E i \in LookUp(n, lineage) :
       To(r, [NoCall EXCEPT !.pc = "looked", !.op = "post", !.name = n, !.lock = l, !.lineage = lineage,
                          !.res = res, !.mode = mode, !.found = i])
  /\ UNCHANGED <<rows, locks, issued, mode, limit, relaxed, changes>>

(* The commit of kl apply: it reads the trunk by name, merges, and writes  *)
(* the result with the next serial.                                        *)
ReadTrunk(r, n) ==
  /\ In(r, "idle")
  /\ \E i \in Exact(n) :
       /\ rows[i].status = "active" /\ rows[i].current \in 1..MaxSerial - 1
       /\ To(r, [NoCall EXCEPT !.pc = "read", !.op = "apply", !.name = n, !.base = i,
                  !.lineage = rows[i].lineage, !.serial = rows[i].current + 1, !.mode = mode])
  /\ UNCHANGED <<rows, locks, issued, mode, limit, relaxed, changes>>

BeginApply(r, res) ==
  /\ In(r, "read")
  /\ \E i \in LookUp(call[r].name, call[r].lineage) :
       To(r, [call[r] EXCEPT !.pc = "looked", !.res = res, !.found = i])
  /\ UNCHANGED <<rows, locks, issued, mode, limit, relaxed, changes>>

(* The upsert, and the quota under its row lock.                           *)
Enter(r) ==
  LET i == Target(call[r].name)  hard == HardQuota(limit) IN
  /\ In(r, "looked") /\ call[r].op \in {"post", "apply"} /\ MayEnter(call[r].name)
  /\ WithinQuota(i, call[r].res, hard)
  /\ To(r, [call[r] EXCEPT !.pc = "entered", !.row = i, !.counted = OtherResources(i), !.hard = hard])
  /\ UNCHANGED <<rows, locks, issued, mode, limit, relaxed, changes>>

\* Mutant of LockAdmits: a stale lock id passes where no lock is held.
LockAdmitsStale(i, l) == locks[i] = {} \/ l \in locks[i]

(* checkLockForWrite and checkAnyLockBlocks: without a lock on the row the *)
(* caller must have none, else it must be the caller's; an exclusive state *)
(* with several compares with any of them, and may refuse.                 *)
LockAdmits(i, l) == IF locks[i] = {} THEN l = NoLock ELSE l \in locks[i]

(* COALESCE(MAX(serial), 0) of the versions of a state.                    *)
TopSerial(row) == CHOOSE s \in row.serials \cup {0} : \A k \in row.serials : k <= s

NextSerial(r, row) == IF call[r].op = "apply" THEN call[r].serial ELSE TopSerial(row) + 1
Written(r, row) ==
  [row EXCEPT !.lineage = IF @ = NoLineage THEN call[r].lineage ELSE @,
              !.res = call[r].res, !.serials = @ \cup {NextSerial(r, row)},
              !.current = NextSerial(r, row)]
Writable(r, row) == NextSerial(r, row) \in (1..MaxSerial) \ row.serials

CommitWrite(r) ==
  LET i == call[r].row IN
  /\ In(r, "entered")
  /\ \/ /\ i # NoId /\ (call[r].op = "post" => LockAdmits(i, call[r].lock))
        /\ Writable(r, rows[i])
        /\ rows' = [rows EXCEPT ![i] = Written(r, @)]
     \/ /\ i = NoId /\ (call[r].op = "post" => call[r].lock = NoLock)
        /\ \E k \in Unused : /\ Writable(r, Created(r))
                            /\ rows' = [rows EXCEPT ![k] = Written(r, Created(r))]
  /\ Answer(r)
  /\ UNCHANGED <<locks, issued, mode, limit, relaxed, changes>>

(* A refusal, a failed statement or a lost connection rolls back.          *)
Fail(r) ==
  /\ ~ In(r, "idle")
  /\ Answer(r)
  /\ UNCHANGED <<rows, locks, issued, mode, limit, relaxed, changes>>

-----------------------------------------------------------------------------
(* Lifecycle and deletion                                                  *)

(* Who writes meanwhile learns nothing of it: history.                     *)
Changed(i, r) ==
  call' = [q \in Caller |->
           IF q = r THEN NoCall
           ELSE [call[q] EXCEPT !.late = @ \cup {k \in {i} : call[q].pc \in {"read", "looked", "entered"}}]]

BeginLifecycle(r, n, to) ==
  /\ In(r, "idle")
  /\ \E i \in Found(n) :
       To(r, [NoCall EXCEPT !.pc = "found", !.op = "lifecycle", !.name = n, !.to = to, !.found = i])
  /\ Change /\ UNCHANGED <<rows, locks, issued, mode, limit, relaxed>>

(* The row found is updated as it is now; the unique index refuses a name  *)
(* that is taken.                                                          *)
SetLifecycleStatus(r) ==
  LET i == call[r].found IN
  /\ In(r, "found") /\ call[r].op = "lifecycle"
  /\ Live(i) /\ Free(i)
  /\ \E name \in IF call[r].to = "archived" THEN {Append(call[r].name, s) : s \in Label} ELSE {call[r].name} :
       /\ Len(name) <= MaxLabels + 1
       /\ NameFree(name) /\ Exact(name) \subseteq {i}
       /\ rows' = [rows EXCEPT ![i].name = name, ![i].status = call[r].to]
  /\ Changed(i, r)
  /\ UNCHANGED <<locks, issued, mode, limit, relaxed, changes>>

BeginDelete(r, n, l) ==
  /\ In(r, "idle")
  /\ l # NoLock => issued[l].name = n
  /\ \E i \in Found(n) :
       To(r, [NoCall EXCEPT !.pc = "found", !.op = "delete", !.name = n, !.lock = l, !.found = i])
  /\ Change /\ UNCHANGED <<rows, locks, issued, mode, limit, relaxed>>

CheckLock(r) ==
  /\ In(r, "found") /\ call[r].op = "delete"
  /\ LockAdmits(call[r].found, call[r].lock)
  /\ To(r, [call[r] EXCEPT !.pc = "checked", !.seen = locks[call[r].found]])
  /\ UNCHANGED <<rows, locks, issued, mode, limit, relaxed, changes>>

(* The row goes with its versions, its locks and all else that refers it.  *)
DeleteState(r) ==
  LET i == call[r].found IN
  /\ In(r, "checked") /\ Live(i) /\ Free(i)
  /\ rows' = [rows EXCEPT ![i] = [NoRow EXCEPT !.status = "gone"]]
  /\ locks' = [locks EXCEPT ![i] = {}]
  /\ Changed(i, r)
  /\ UNCHANGED <<issued, mode, limit, relaxed, changes>>

-----------------------------------------------------------------------------
(* Configuration                                                           *)

SetStateExclusiveLocks(n, on) ==
  \E i \in Exact(n) :
    /\ rows[i].status = "active" /\ Free(i) /\ rows[i].exclusive # on
    /\ rows' = [rows EXCEPT ![i].exclusive = on]
    /\ relaxed' = IF on THEN relaxed ELSE relaxed \cup {i}
    /\ Change /\ UNCHANGED <<locks, issued, mode, limit, call>>

SetEnvironmentStateLockDefaultMode(m) ==
  /\ m # mode /\ mode' = m
  /\ Change /\ UNCHANGED <<rows, locks, issued, limit, relaxed, call>>

SetTenantEntitlements(k) ==
  /\ k # limit /\ limit' = k
  /\ Change /\ UNCHANGED <<rows, locks, issued, mode, relaxed, call>>

-----------------------------------------------------------------------------
Modes == {"auto", "vanilla", "kilolock"}

Writers(r) ==
  \/ \E n \in Plain, l \in LockId \cup {NoLock}, g \in Lineage, res \in SUBSET Resource :
       BeginPost(r, n, l, g, res)
  \/ \E n \in Plain : ReadTrunk(r, n)
  \/ \E res \in SUBSET Resource : BeginApply(r, res)
  \/ Enter(r) \/ CommitWrite(r) \/ Fail(r)

Locking(r) ==
  \/ \E n \in Plain : BeginLock(r, n)
  \/ \E l \in LockId : AcquireLock(r, l)

Administering(r) ==
  \/ \E n \in Names, to \in Status : BeginLifecycle(r, n, to)
  \/ SetLifecycleStatus(r)
  \/ \E n \in Names, l \in LockId \cup {NoLock} : BeginDelete(r, n, l)
  \/ CheckLock(r) \/ DeleteState(r)

Configuring ==
  \/ \E l \in LockId : ReleaseLock(l)
  \/ \E n \in Plain : ForceReleaseLock(n)
  \/ \E n \in Names, on \in BOOLEAN : SetStateExclusiveLocks(n, on)
  \/ \E m \in Modes : SetEnvironmentStateLockDefaultMode(m)
  \/ \E k \in SoftLimits : SetTenantEntitlements(k)

RowsNext == Configuring \/ \E r \in Caller : Writers(r) \/ Locking(r) \/ Administering(r)
RowsSpec == RowsInit /\ [][RowsNext]_rowVars

-----------------------------------------------------------------------------
(* Properties                                                              *)

(* Shapes of the tables and the requests; the unique index on names.       *)
AnyName   == Seq(NameOfState \cup Label)
RowRecord ==
  [name : AnyName, status : Status \cup {"none", "gone"}, lineage : Lineage \cup {NoLineage},
   exclusive : BOOLEAN, serials : SUBSET (1..MaxSerial), current : 0..MaxSerial,
   res : SUBSET Resource, born : {"none", "backend", "kl", "vanilla", "kilolock"}]
CallRecord ==
  [pc : {"idle", "read", "looked", "entered", "found", "checked"},
   op : {"none", "lock", "post", "apply", "lifecycle", "delete"},
   name : AnyName, lock : LockId \cup {NoLock}, lineage : Lineage \cup {NoLineage},
   res : SUBSET Resource, serial : 0..MaxSerial, mode : Modes, to : Status \cup {"none"},
   base : Id \cup {NoId}, found : Id \cup {NoId}, row : Id \cup {NoId}, late : SUBSET Id,
   seen : SUBSET LockId, counted : Nat, hard : Nat]
NamesUnique == \A i, j \in Id : (Live(i) /\ Live(j) /\ rows[i].name = rows[j].name) => i = j

RowsTypeOK ==
  /\ rows \in [Id -> RowRecord]
  /\ locks \in [Id -> SUBSET LockId]
  /\ issued \in [LockId -> [name : AnyName, row : Id \cup {NoId}]]
  /\ mode \in Modes /\ limit \in SoftLimits /\ relaxed \subseteq Id /\ changes \in Nat
  /\ call \in [Caller -> CallRecord]
  /\ NamesUnique

(* Terraform writes serialise unless somebody chose otherwise: a state     *)
(* that a Terraform client created under the automatic default, or anybody *)
(* under the vanilla one, has one lock at most until its configuration     *)
(* says shared locks; a default that changes later, an archiving or a      *)
(* restore does not loosen it (initialStatePolicyForPrincipal, AcquireLock).*)
OneLockUnlessRelaxed ==
  /\ RowsTypeOK
  /\ \A i \in Id \ relaxed : rows[i].born \in {"backend", "vanilla"} =>
       \A l, m \in locks[i] : l = m

Commits(r, i) == In(r, "entered") /\ call'[r].pc = "idle" /\ rows'[i] # rows[i]

(* Locks, reads and writes go by name, and names change hands; still a     *)
(* POST under a lock writes the row the lock was granted on, kl apply the  *)
(* row it read and merged with, and nobody a suspended or archived row,    *)
(* unless the row's status, name or existence changed while the request    *)
(* was under way (writeStateInternal, upsertStateWithCreator).             *)
WritesStay ==
  [][\A r \in Caller, i \in Id : Commits(r, i) =>
       /\ (call[r].op = "post" /\ call[r].lock # NoLock) => i = issued[call[r].lock].row
       /\ call[r].op = "apply" => i = call[r].base \/ call[r].base \in call[r].late
       /\ rows[i].status \in {"none", "active"} \/ i \in call[r].late]_rowVars

(* No second history: a name whose state is archived gets a new row only   *)
(* from a document of another, known lineage than that of the archived row *)
(* the look-up found, or when the archiving raced with the request         *)
(* (upsertStateWithCreator; several archived rows: any one is compared).   *)
FreshBesideArchived ==
  [][\A r \in Caller, i \in Id : (Commits(r, i) /\ rows[i].status = "none") =>
       \/ ArchivedAs(call[r].name) \subseteq call[r].late
       \/ call[r].found \in call[r].late
       \/ call[r].found \in ArchivedAs(call[r].name) /\ Differs(call[r].found, call[r].lineage)]_rowVars

(* A deletion resolves a name, compares the locks in a second statement    *)
(* and deletes by id in a third, while names change hands.  Still one      *)
(* under a session's lock deletes the row that lock was granted on; and    *)
(* of the locks held when it compared, which all go with the row, it takes *)
(* none but its caller's, unless the row was made or set to share locks.   *)
(* A lock granted after that goes down with the row (DeleteState).         *)
Deletes(r, i) == In(r, "checked") /\ call'[r].pc = "idle" /\ Live(i) /\ rows'[i].status = "gone"

DeletesStay ==
  [][\A r \in Caller, i \in Id : Deletes(r, i) =>
       /\ call[r].lock # NoLock => i = issued[call[r].lock].row
       /\ (i \notin relaxed /\ rows[i].born \in {"backend", "vanilla"}) =>
            locks[i] \cap call[r].seen \subseteq {call[r].lock}]_rowVars

(* The environment quota holds over all states of the environment at each  *)
(* write, with the limit of when it was counted, unless another state was  *)
(* written or changed its status between the count and the commit: two     *)
(* writers of two states may both fit (enforceTenantStateLimits).          *)
QuotaKept ==
  [][\A r \in Caller, i \in Id :
       (Commits(r, i) /\ call[r].hard # 0 /\ OtherResources(call[r].row) = call[r].counted) =>
          Cardinality(Managed') <= call[r].hard]_rowVars
=============================================================================
