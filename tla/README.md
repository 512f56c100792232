# TLA+ verification of kilolock

kilolock is a state backend for Terraform and OpenTofu: it keeps Terraform
states as versioned documents in Postgres, serves plain Terraform clients over
the HTTP backend protocol, and lets several `kl apply` runs work on one state in
parallel under reservations of resource addresses. This directory holds TLA+
modules translated from the Go source, the TLC runs that check them and the
TLAPS proofs about them. `PROJECT.json` is the index: components, runs, the
source lines of each definition, findings, hazards and theorems.

## The system

| part | state it keeps | operations | hard part |
|---|---|---|---|
| reservation table (`pkg/store/reservations.go`) | rows (apply, address glob, mode, expiry) | acquire, renew, release | conflict matrix, expiry, purge by others |
| version store (`pkg/store/state.go`, `versions.go`) | `state_versions`, `states.current_version_id` | POST, apply commit, delta commit, engine delta, rollback, genesis | serial races, lost updates, merge base |
| lifecycle rows (`pkg/store/normalize.go`) | `resources` with [create, delete) serial ranges | delta of a full or selected commit | no overlap, every version reproducible |
| locks (`lock.go`, `state_engine_lock.go`, `state_lock_mode.go`) | `state_locks`, `states.exclusive_locks` | LOCK, UNLOCK, force-unlock, coarse engine lock, mode switch | several locks at once, crashed holders |
| merge (`pkg/store/merge.go`) | none | three-way merge of documents | write sets, conflicts |
| apply orchestrator (`internal/apply`) | a process's memory: plan, slice, trunk, retries | guard, Terraform, heartbeat, commit loop | everything between two store calls |
| audit (`pkg/store/apply_runs.go`) | `apply_runs` | begin, finish, abort | truth after crashes and retries |
| HTTP backend (`internal/backend/server.go`) | none of its own | handlers in front of the store | sessions of several clients |
| state-engine protocol (`internal/backend/state_engine.go`, `pkg/store/state_engine*.go`) | none of its own | expand, slice, remove, move, replay, commit | read, then write, with no row lock |
| graph cache (`state_engine_graph_cache.go`) | graphs by serial | get, put, expire, evict | filled after its key was read |
| scoped planning (`internal/plan`, `internal/configscope`, `cmd/kl/cmd_plan.go`) | a process's memory | discover, expand, fetch the slice, plan, close the read set | several requests, each at a serial of its own |
| refresh (`internal/refresh`, `refresh_runs.go`) and providers (`internal/provider`) | `refresh_runs`, `provider_schemas`, child processes | read, open, upgrade, read resource, stop, close, write, look up | goroutines, cancellation at any call, long read-to-write window without a lock |
| routing (`internal/routing`) | pools, LRU order, circuit state | get, evict, close | concurrent opens, caps, eviction in use |
| states by name (`state_lifecycle.go`, `archive_names.go`, `environment_lock_defaults.go`, `state.go`) | `states`, `environments.state_lock_default_mode` | create, archive, restore, suspend, delete, lock and write by name | look-ups older than their effect, names that change hands |
| environments, tenants, ownership (`pkg/store`, `cmd/klc`) | lifecycle status, proposals | create, rename, archive, delete, purge, propose, accept | checks made without a lock; transfers in four steps |
| tokens, roles, sessions (`pkg/store/rbac.go`, `portal_pats.go`, `cmd/klc/server.go`) | API and personal access tokens, grants, the initialisation mark | issue, suspend, grant, revoke, rotate, initialise | the permission is checked by queries older than the effect |
| members of workspaces (`pkg/store/portal.go`) | memberships, invitations, personal workspaces | invite, accept, set role, remove, leave | counts of owners made under the lock of one row |
| operator commands (`cmd/kl/cmd_rollback*.go`, `cmd_tag.go`) and version tags | `state_version_tags` | preview, confirm, write | what was confirmed is computed again |
| `kl apply` from command line to commit (`cmd/kl/cmd_apply.go`) | a process's memory | plan, acknowledge, quota, choice of a lane | three lanes with guards of their own |
| provisioning, migrations (`pkg/provision`, `pkg/migrate`) | the environment's DSN and status, `schema_migrations` | provision, request upgrade, dump, restore, cut over, migrate | nothing locks the row between two steps |
| CLI output, portal pages, configuration | little or none | | I/O |

Interactions: a `kl` process talks to the backend over HTTP and the backend to
Postgres; every store operation is one transaction, and all concurrency is
between transactions. The orchestrator makes about ten separate calls per run,
its heartbeat goroutine makes more beside them, and the operator's
`kl apply abort` adds two. Plain Terraform makes LOCK, GET, POST and UNLOCK as
separate requests. kld reaches the environment's database through the pool
cache. klc, the control plane, changes workspaces, environments, tokens and
memberships in the same database while kld writes states.

## Modules

| module | models | variables ↔ code |
|---|---|---|
| `Globs` | `globsIntersect` | none |
| `Reservations` | the reservation table of one state | `resv` ↔ `resource_reservations`; `ttl` ↔ `expires_at - now()` |
| `StateDoc` | documents, write sets, three-way merge, slices, `buildMergedState`, staleness comparison | none |
| `StateStore` | all store transactions on one state | `versions`, `current`, `rows`, `locks`, `exclusive` ↔ `state_versions`, `states.current_version_id`, `resources`, `state_locks`, `states.exclusive_locks` |
| `VersionLog` | abstract specification: an append-only, gap-free log | |
| `TerraformClients` | plain Terraform sessions on `StateStore`, beside applies, rollbacks, force-unlocks, mode switches | `sess`: one session per lock id |
| `ParallelApply` | `kl apply` runs on `StateStore` and `Reservations` | `run` ↔ the orchestrator's locals, `applyRuns` ↔ `apply_runs` |
| `EngineWrites` | state-engine writes on `StateStore`: remove, move, replay, rollback, delta commit under the coarse lock, and tags, beside Terraform, `kl refresh` and the fallback lane of `kl apply` | `op` ↔ the requests' locals, `tags` ↔ `state_version_tags`, `refresh` ↔ a run and its `refresh_runs` row |
| `Commands` | the commands that show a preview and write after it: `kl rollback`, `kl rollback resource`, `kl state rm`, `kl state mv`, on `EngineWrites` | `cli` ↔ what a command was given and has shown |
| `ApplyClient` | one `kl apply` on `StateStore`, from its plan through gates and quota to the backend, snapshot or native lane | `c` ↔ the locals of `runApply` and of the lane |
| `Scope` | `kl plan --file`: file discovery, scope expansion, slice, plan spec, read-set closure, staleness guard, and kld's graph cache | `trunk` ↔ graphs by serial, `cache` ↔ `stateEngineGraphCache`, `req` ↔ scope-expand requests, `plan` ↔ the planner's locals |
| `Refresh` | one `kl refresh`: main goroutine, one goroutine and one provider process per group, cancellation, commit, audit row | `run`, `gor`, `gctx` ↔ the goroutines and their context, `proc` ↔ child processes, `attrs`, `tally` ↔ `Result`, `row` ↔ `refresh_runs`, `schemas` ↔ `provider_schemas` |
| `Provisioning` | the databases of one environment: provisioning, upgrade, copy, cutover, the migration runner, and kld's routing | `row` ↔ the `environments` row, `data`, `schema` ↔ the states and `schema_migrations` of each database, `proc` ↔ requests, workers and migration runs |
| `PoolCache` | `PoolCache.Get` of `internal/routing` as concurrent requests | `pools`, `byDSN`, `order`, `stats`, `mu` ↔ the fields of that name, `opened` ↔ pgx pools |
| `Transfers` | environments, their states and tokens, ownership transfers | `tenants`, `envs`, `states`, `tokens`, `proposals` ↔ the tables, `req` ↔ requests to klc and kld |
| `Members` | workspaces, memberships, invitations, role changes | `kind`, `personal` ↔ `tenants`, `role` ↔ active `tenant_memberships`, `invitations` ↔ `tenant_invitations` |
| `ControlPlane` | who may do what: administrative requests and their checks, sessions, personal access tokens, initialisation, operator tokens, retention | `tenants`, `envs`, `member`, `tokens`, `grants`, `pats`, `patGrants`, `session`, `initialized` ↔ the tables, `req` ↔ requests under way |
| `StateRows` | the states of one environment as rows: created by the first LOCK or write, archived under a label, restored, deleted, counted by the environment quota | `rows` ↔ `states` with their newest document, `locks` ↔ `state_locks`, `mode` ↔ `environments.state_lock_default_mode`, `limit` ↔ `tenants.max_environment_resources`, `issued` ↔ lock ids of Terraform sessions, `call` ↔ requests under way |
| `*Proofs` | theorems about the module they name; `StateStoreProofs` also about `Reservations` and `Globs`, `StoreClientsProofs` about `TerraformClients`, `EngineWrites` and `Commands`, `EnvironmentsProofs` about `Provisioning`, `Transfers` and `StateRows`, `PlanningProofs` about `Refresh` and `Scope`, `ParallelApplyProofs` also about `ApplyClient` | |
| `MC*` | instances for TLC | |

How the code is abstracted:

- **Transactions are actions.** Every write transaction first upserts the
  `states` row and so holds its row lock to the end; acquiring reservations holds
  the same row `FOR UPDATE`; `ReplayVersion` meets the others on the unique
  `(state_id, serial)` key and on that row. An error rolls back and changes
  nothing.
- **Documents** are a lineage, a cell per resource instance and a value per
  output. A cell separates what the `resources` table stores and hashes (`attr`)
  from what only `raw_state` carries (`meta`: tainted, private, status), because
  several paths rebuild documents from rows.
- **Time** is the remaining lease of each row, cut off at "expired". The three
  classes the SQL distinguishes are kept apart, the boundary included: `> now()`
  can be renewed, `< now()` can be purged, equality is neither. Time itself is
  unbounded.
- **The orchestrator** has one action per store call. What a process remembers is
  dropped at exit or crash. A lost reply of the commit is a step that may or may
  not have committed. `TerraformDone` may end the run with `context.Canceled`:
  the heartbeat renewal that was in flight when the context was cancelled.
- **Requests that read before they write** are split where another transaction
  can commit. A remove, move or replay reads the document, then the rows, then
  inserts; a transfer looks up, accepts, lists and moves; a role change locks and
  counts in one step and commits in another; a migration applies a file and
  records it in two. `StateStore` follows one state from its first version on;
  `StateRows` follows the row around it, where a transaction looks a name up
  before it holds a row lock, so that the look-up is a step of its own.
- **Goroutines and the mutex.** In `PoolCache` an action is what happens between
  two acquisitions of the mutex; opening a pool has none, closing a victim keeps
  it. In `Refresh` a provider call is a step of its own, which answers or fails;
  the child process is started by a goroutine beside `Launch`, as in the code.
- **Graphs and configurations** in `Scope` are functions from addresses to the
  addresses they name; a configuration has the graph its blocks declare and the
  one the regular-expression scan finds, which may miss edges.
- `stray`, `alone`, `raced`, `left`, `retired`, `basis` and `relaxed` are history
  variables that only properties read, as are the row in `issued` and `late`,
  `seen` and `counted` in a `call` of `StateRows`.

The Terraform client and Postgres' clock are outside the repository; their
definitions are marked external in the map.

## Runs

| run | shows | instance |
|---|---|---|
| `TerraformClients` | exclusive lock freezes the trunk; first optimistic POST is a per-cell compare-and-swap; refinement of `VersionLog` | 2 clients, 1 instance, 1 output, serials up to 3 |
| `ApplyTrouble` | isolation and truthful audit under crash, abort, failure and lost reply anywhere; every run ends | 2 conflicting runs, unwritten and imported state, leases of 1 tick, fairness |
| `ApplyClient` | a `kl apply` does what was confirmed, records what it did or has a reason, keeps its scope | 1 client beside other writers, 3 addresses (two of one resource), 2 retries, a soft limit of 1 instance |
| `Commands` | rollbacks and replays do what was shown, also after commits and moved tags; mutations patch the version they follow; rows = history; reported serials are right; the coarse lock ends | 1 request, 1 Terraform lock, 1 tag, 3 addresses (one may depend on another), serials up to 4, the last only for a command with a preview, 1 crash |
| `Scope` | contracts closed; admitted plans true; linked plans conflict; the plan ends | 3 resources, one with an instance, 4 configurations, 1 commit, another client's expansion, a cache of 1 entry |
| `Refresh` | only a complete refresh is written; providers contained; a cancelled run ends | 2 provider groups of 2 and 1 instances, one outdated, one group at a time or both, fail-fast and dry run on or off |
| `Transfers` | states and tokens follow their environment; owners change by proposal only | 2 workspaces (one limited to 1 environment), 2 environments, 2 proposals, 1 token, 2 requests |
| `PoolCache` | limits hold, no pool leaks, requests end, the circuit recovers | 2 requests, 3 databases on 2 instances, one with cap 1, one flaky; 2 pools |
| `Members` | personal workspaces owned, owners kept, joins by invitation | 2 accounts, 2 workspaces, 2 invitations, 2 requests, 3 roles |
| `ControlPlane` | access lists true, initialised systems have an administrator, effects are covered by grants, purges respect retention | 1 account, 2 workspaces, 3 environments, 3 labels, 3 tokens, 3 access tokens, 2 requests, 2 commits, 1 tick, 3 initial situations |
| `Provisioning` | a cutover loses nothing but what finding 14 names; a migration run leaves every file applied | 2 processes, 1 write, 3 migration files, one of them recorded by the baseline |
| `StateRows` | locks stay exclusive, writes and deletions meet the row they were checked for | 2 rows, 1 name, 1 label, 2 lineages, 2 lock ids, 2 requests, serials up to 2, no limit and a limit of 1, 2 changes |

`StateQuota.cfg` (`MCStateRows`) checks the quota with the environment's states
in the same way: 2 rows, 2 names, 2 resources, soft limits none and 1.

*Bounds.* `MaxSerial` stops writes beyond a serial. Three versions allow a base,
a trunk moved by somebody else, and a merge on top; closing and reopening a row
needs three as well; a fourth in `Commands` lets a commit come between the
preview of two versions and the write. Apply runs write at most one version each, so 5 never binds
in the apply runs. Two cells (an instance and an output) are enough to tell "the
edited cell" from "the other cell"; two contents to tell a change from a return
to the old value. Two applies are enough for every pairwise conflict; a third
only repeats it, and for any number of runs there are the theorems. `MaxPosts`
bounds the POSTs of a session: 1 in the run of the compare-and-swap, which is
about the first POST, and 2 in `ClientsRace.cfg`. `MaxCrash` (1) bounds requests
that die, `MaxChurn` (1) renames and changes of status beside transfers,
`MaxCommits` (1) commits beside a refresh, `MaxOrganizations` (1) workspaces that
are not personal, so that an organization and a personal workspace exist side by
side; one of each is enough for every race between two requests. `MaxEntries` (1)
makes the graph cache evict, `MaxPools` (2) and three databases the pool cache;
only instances in `Flaky` ever fail. `Troubled` names the runs that
may crash, be aborted or fail; in `ApplyTrouble` all may. In `ControlPlane`
`MaxCommits` (2) is how many transactions commit, enough for one that undermines
a check and one that relies on it, and `MaxClock` (1) with `Retention` (1) has a
workspace just kept long enough and one not; `Start` lists what exists at the
beginning, so that deep situations need no long history. In `StateRows`
`MaxLabels` (1) is how often a name can be archived before it must be restored,
and `MaxChanges` (2) how many lifecycle changes, deletions and settings there
are: archiving and restoring one state, or archiving it and deleting what took
its name, beside one request that looked it up before.

*Symmetry* is used over lock ids, the requests of `ControlPlane`, the processes
of `Provisioning`, the rows, sessions and requests of `StateRows`, and the ids of
`Transfers` and `Members`, in runs without
liveness.
*Deadlock* is not checked where clients or runs end, or where `MaxSerial` stops
all writes; in `StateRows` an archived name also refuses everyone until it is
restored, which `MaxChanges` may no longer allow.

*Fairness.* `ApplySpec`: the clock advances, and a live process takes its next
step when it can. That is Postgres' `now()` and the operating system's scheduler;
`acquireWithWait` polls until its budget is spent, so an acquisition that stays
possible is made, or the run gives up (`GiveUpWaiting`, which nothing forces).
Nothing is assumed of heartbeats, operators, crashes or patience. A
waiter ends because it acquires, and it does because the holder's rows are
released or, if it crashed, expire and are purged.
`PoolSpec`: a goroutine that waits for the mutex gets it if it is free again and
again (strong fairness: Go's mutex hands over to a waiter after a millisecond),
a request that holds it or uses a pool goes on, and cooldowns pass; opening a
pool ends because of its timeout. `CommandSpec`: a request takes its next step
unless it dies; the operator may stop at any preview. `BoundedSpec` of
`MCCommands` is `CommandSpec` within the bounds, with fairness of the steps that
stay within them. `ScopeSpec`: the planner and the handler of its own request go
on. `RefreshSpec`: the main goroutine and the groups' own steps go on, and a
provider call ends once its context is done, which gRPC guarantees and `Launch`
does by killing the child; before that a call may hang for ever. `Transfers`,
`Members`, `ControlPlane`, `ApplyClient`, `StateRows` and `Provisioning` are checked for
safety only: their steps are short and retried by people.

`Transfers` uses `QuietSpec`: while an acceptance is under way nobody writes
below the environment, issues a token for it or renames it. Without such a
window the code does not keep the properties (findings 7 and 9).

### What the main properties say

- `RowsMatchHistory`: at every serial the rows covering it are exactly the
  instances of the document stored for it, for every version ever written and
  after any mix of full commits, selected-row commits, merges and rollbacks.
- `GlobsSound`, `GlobsPrecise` (proved): two globs that cover a common path
  always intersect, and two that intersect have one, unless both are subtrees.
- `HistoryGapFree` (proved): the apply path lets its caller choose the serial; this is why
  "trunk + 1 is free" is the same as "the trunk has not moved", on which the
  commit loop relies.
- `PostIsCellwiseCas`: the first POST of a session that read the version its lock
  recorded stores the trunk with exactly its edits, or is refused. Excluded, with
  a hazard of their own: baseline 0, later POSTs, and a GET that read a newer
  trunk than the LOCK recorded.
- `CommitIsolated`: a run that still has its reservations when it commits sees
  what its plan saw and adds only its own writes. Runs that lost their
  reservations are the known exception (`ApplyLease`); the property says that
  they are the only source of a stale read.
- `AuditTruthful`: a run writes at most one version, and a row marked committed
  names exactly that one. (A run marked failed or aborted may still have
  written: a lost reply, or an abort after the last check.)
- `AsConfirmed`, `RecordedOrExplained`, `ScopeKept`: Terraform does
  nothing the operator was not shown, on the lane and under the guard that
  promise it; what it did is recorded, or the property names the reason; a commit
  records what Terraform made and changes nothing outside its scope, the very
  addresses on the native lane and their resources, with all instances, on the
  snapshot lane. `NativeAlone` (proved): the native lane is alone with plain Terraform from its
  lock to its release.
- `RollbackAsShown`, `StrictKept`: preview and write are two requests, with any
  number of commits and moved tags in between. A rollback writes the version that
  was shown, and apart from what was committed since it changes the addresses
  listed; a strict replay leaves the resource in place, and only what was
  committed since can depend on it. Excluded is a reference that means another
  version by then: a tag that moved, or `@n` counted from another head (`Moved`,
  finding 17).
- `MutationsPatchTrunk`: a remove, move or replay reads the document two steps
  before it inserts; the coarse lock is what makes it patch the version it
  follows. `CoarseLockEnds`: only a crash leaves that lock behind, which then has
  no lease and is skipped by force-unlock.
- `AdmittedPlanTrue`: a plan that the staleness guard admits creates nothing that
  exists, unless a commit came between expansion and slice (finding 8), or what
  it creates was destroyed between the pinned serial and the rows and came back
  as it was: the guard compares two versions, not what lies between them.
- `LinkedPlansConflict`: two plans whose writes are linked in the configuration
  ask for reservations that conflict.
- `SuccessIsWhole`: groups splice their answers into one shared document as they
  go; a version is written only if a provider answered for every instance.
- `ProvidersContained`: no child outlives its group, whichever step of opening,
  reading or closing fails or is cancelled, but for finding 11.
- `OpenPoolsAccounted`: a pool is open exactly while it is cached or its opener
  has yet to publish it, whoever loses a race or hits a limit.
- `OwnerKept`: excluded are workspaces in which two requests that lower an owner
  overlapped, or an owner accepted an old invitation (finding 10).
- `EffectsCovered`: a request changes only what its principal was entitled to at
  some moment while it ran, although checks and effect are separate queries; a
  label that changes meanwhile is excluded. `InitialisedHasAdmin`: wherever an
  initialisation stops, the next one repairs it or finds an administrator.
- `AccessListTrue`, `PurgeRespectsRetention`: about grants that outlive what they
  depended on, and candidates of a purge that were restored since they were listed.
  `OnePAT` (proved): rotations and revocations may overlap, an account still has one
  access token that works.
- `CutoverComplete`: what a client was told is stored can be read wherever kld
  routes it now; `stray` holds the writes of finding 14, and nothing else may be
  missing. `RunLeavesSchemaWhole`: a migration run applies every file, whoever
  else migrates, but for finding 15.
- `OneLockUnlessRelaxed`: the mode a state is created with depends on who comes
  first and on a default that may have changed since; a state born exclusive has
  one lock at most until its configuration is changed. `WritesStay` and
  `FreshBesideArchived`, an archived name gets no second
  history (proved): every request goes by name and
  looks it up before it locks anything; excluded is only what changed the row
  while the request was under way (`late`). `DeletesStay`: a deletion under a
  session's lock deletes the row that lock was granted on, whatever became of the
  name, and of the locks held when it compared it takes only its caller's, where
  locks are exclusive. Not covered, since the code does not keep it: a lock
  granted after the comparison, and shared locks (finding 18).
  `QuotaKept` (proved): excluded is a write overtaken by one to another state, since the
  count holds no lock on the others.
- Type invariants are conjuncts of `AuditTruthful`, `ReportedSerialIsOurs`,
  `ContractClosed`, `StatesFollowEnvironment`, `LimitsHold`, `AccessListTrue`,
  `OneLockUnlessRelaxed` and `CutoverComplete`; those of the other modules are proved.

## Findings

They are reproduced with `tlc -config <cfg> <module>`, or follow from the model as described.

1. `EveryPostKeepsOthers` (`ClientsRace.cfg`, `MCTerraformClients`): after a merged
   POST the lock's baseline moves to a version the client has never seen
   (`state.go:873`); its next POST reverts what the merge preserved, against
   `merge.go:26` ("everything else is taken from `trunkNow`").
2. A delta commit rebuilds the stored document from rows that do not carry taint, private data,
   create_before_destroy and status, so instances it does not name lose them
   (`MaterialiseRows` of `StateDoc` sets `meta` to its default).
3. `RaceWithApplyIsAConflict` (`ClientsRace.cfg`, `MCTerraformClients`): in
   exclusive mode a POST overwrites a `kl apply` commit and is answered 200,
   where `state.go:374` promises a visible conflict.
4. `ReservationsHeldAtCommit` (`ApplyLease.cfg`, `MCParallelApply`): the
   heartbeat stops before the commit loop; a lease that runs out there can be
   reclaimed before the commit, against `orchestrator.go:34`.
5. `AbortedMeansPreempted` (`ApplyLease.cfg`, `MCParallelApply`): a renewal in
   flight when Terraform returns makes a healthy run end as `aborted`, the status
   `apply_runs.go:22` reserves for pre-emption.
6. `MutationsPatchTrunk` and `RefreshAuditTruthful` (`Commands.cfg` of
   `MCCommands` with `FallbackSpec` as its specification): the fallback lane of `kl apply` takes
   no coarse lock, so a mutation undoes, in the document but not in the rows, a
   commit that lands between its read and its insert; and a refresh records
   serial `SerialBefore + 1` as its own version, which is another writer's when
   the trunk moved.
7. `StatesFollowEnvironment` (`TransferStrands.cfg`, `MCTransfers`): accepting a
   transfer and moving the states are two transactions; a crash between them
   leaves the states under the old workspace, and the acceptance cannot be
   repeated.
8. `PinnedPlanTrue` (`ScopeRace.cfg`, `MCScope`): scope expansion and slice
   resolve a serial each. What a commit deploys between them is missing from the
   slice and present in the version the plan pins, so the plan creates what
   exists and the staleness guard admits it. `plan.go:207` says the serial is the
   one "this plan was computed against".
9. Outside the quiet window of `Transfers`, a state written after the states
   were listed stays behind, a token issued from an earlier read keeps the old
   workspace, and the environment whose states are moved is looked up by the
   label it had when it was proposed, which another may have by then.
10. Two owners who are demoted or removed at once each count the other, and an
    owner who accepts an old invitation takes its role: a workspace can end up
    without an owner. Two who leave at once cannot, thanks to the lock of the
    tenants row.
11. `NoOrphans` (`RefreshCancelled.cfg`, `MCRefresh`): `Launch` kills the child when
    the context is done, but the goroutine that starts it may come later; the
    child then runs with nobody to close it, against `factory.go:73` ("leak no
    resources").
12. `RowFinished` (`RefreshCancelled.cfg`, `MCRefresh`): the audit row is finished with
    the run's own context, so a cancelled refresh stays `running` for ever,
    against `refresh.go:237` ("converge on a single Finish, regardless of which
    path fails"). Likewise a version can be written and the run recorded as
    failed without it, when the look-up fails.
13. Fail fast returns no error from `Run`, where `Options.FailFast` says the
    triggering error is "also returned", and leaves the rest of its group
    uncounted. A read the provider defers counts as checked and as changed.
14. A cutover can lose acknowledged writes (the actions that add to `stray` in
    `Provisioning`): one routed before the upgrade was requested and stored after
    the dump; those of the default database, which `router.go:92` serves while
    its environment is being provisioned; those after a cutover, when a second
    worker, which nothing in `worker.go:19` keeps out, restores the old dump over
    them; and those of a dedicated environment whose upgrade is requested again,
    since the restore begins by cleaning the only database. A DSN written late by
    a request that provisioned can take the row back to the old database.
15. `MigratedIsWhole` (`MigrateBaseline.cfg`, `MCProvisioning`):
    `0001_baseline.sql` records versions 2 to 9 and 12 to 17 as applied. A run
    that stops after the baseline makes all later runs skip them, where
    `migrate.go:6` calls the runner idempotent.
16. `TagReadsConsistent` (`TagRace.cfg`, `MCCommands`): a replay by tag resolves
    the tag twice, once for the document and once for the rows; when the tag
    moves in between, the two differ, where `tags.go` promises that "a tag move +
    read can race without producing inconsistent reads".
17. The preview of a rollback names a version, the write sends the words the
    operator typed: a tag that moved, or `@n` after a commit, makes it write a
    version nobody was shown. `--strict` is judged on the preview only, so a
    resource can be removed, or changed under a new dependent, after all (the
    exceptions of `RollbackAsShown` and `StrictKept`).
18. Deleting a state compares one lock of it, in a statement of its own
    (`state.go:1230`), and removes the row with all its locks (`state.go:1102`):
    in shared mode a session that passes its own lock id takes the others' locks
    along, and any deletion those granted since the comparison.

## Proofs

Checked by TLAPS for every value of the constants that satisfies the named
assumptions (`StoreAssumption`, `DocAssumption`, `ClientAssumption`,
`IntersectsSymmetric`, `IntersectsReflexive`, `MaxLeaseAssumption`,
`ApplyAssumption`, `RoleAssumption`, `NoneAssumption`, `RefreshAssumption`,
`PoolCacheAssumption`, `UnlockedAssumption`, `FileAssumption`,
`ControlAssumption`, `AdminAssumption`, `TransferAssumption`, `EngineAssumption`,
`DependencyAssumption`, `ScopeAssumption`, `RowsAssumption`). They say that bounds are positive, that
names do not clash, that sets of requests and applies are finite and that the
tables a system starts with are well typed; of the overlap relation, that it is
reflexive and symmetric; of the administrator's grant, that a token can hold it;
of dependencies and configurations, that what they name are instances and
addresses; of one client's addresses, that they are finitely many and that
`Needs`, the dependencies "directly or not", is transitive.

- `StateStoreProofs`, on `Reservations` and `Globs` (a section that uses nothing
  of the store): type correctness; `NoConflictingRows` is inductive with the type invariant, because an acquisition removes rows only when expired and
  adds rows only where no remaining row of another apply conflicts;
  `LeasesHonoured` follows step by step. `GlobsSound` and `GlobsPrecise` are about
  the overlap test itself, for any segments and all pairs of the three glob shapes:
  a conflict is never missed, and none is invented but between two subtrees,
  whose prefixes may overlap without a path in common.
- `StateStoreProofs`, on the store: the inductive invariant `StoreInv` is the conjunction of
  types, `HistoryGapFree`, `LifecyclesDisjoint` and `RowsMatchHistory`. None of
  them is inductive alone: that a commit's serial lies above every row needs the
  gap-free history; that an address has one open row needs disjointness; that a
  selected-row commit stores what the rows will say needs the rows to match the
  current version. Every write is reduced to one of two commit forms
  (`CommitDocKeepsInv`, `CommitSelectedKeepsInv`), and those to two facts about
  the delta (`DeltaKeepsDisjoint`, `DeltaKeepsHistory`). `BaselineStored` and the
  refinement of `VersionLog` follow from the invariant, `EngineLockAlone` is
  inductive by itself.
- `StoreClientsProofs`, on `TerraformClients`: `ClientInv` adds the shape of the sessions,
  `ExclusiveLockFreezesTrunk` (inductive: only the single holder can move the
  trunk, and everyone else who could clears `alone`) and `SourceKept`: until its
  first POST a session's lock still records the trunk it locked at. With
  `BaselineStored` that makes the version a client read the base of its merge,
  so the first POST is a compare-and-swap on the edited cells
  (`FirstPostCompareAndSwaps`, `FirstPostIsCas`). Every client step is a store
  step, so the history theorems carry over (`ClientHistoryFaithful`).
- `StoreClientsProofs`, on `EngineWrites` and `Commands`: `CommandInv` says that
  a request which holds the coarse lock holds the only lock there is, and that
  every other writer of `CommandSpec` is refused by it; so the document and the
  rows a request has read are those of the trunk until it writes, and its patch
  in hand is the patch of the version it follows. The genesis is empty, so rows
  and document agree from the start. With that every mutation, which writes
  document and rows from two reads, is a store transaction that keeps `StoreInv`
  (`MutationsKeepHistory`, `MutationsPatch`, `ReportsAreOurs`). What a preview has
  shown stays true while `current` is the serial it was computed from, because
  versions never change and the rows of a past serial do not either; a reference
  that has not moved still means the version shown (`Settled`). What a write
  changes beyond the preview differs between the version previewed on and the
  trunk, so it was committed in between (`RollbacksAsConfirmed`,
  `StrictReplaysKeepPromise`).
- `ParallelApplyProofs`: `ApplyInv` adds the shape of the runs and that the
  serials a run remembers are stored versions (`SerialsStored`). From it every
  step of `ParallelApply` is a step of `StateStore` or leaves it unchanged, and
  the same for `Reservations`, so their theorems carry over to any number of
  parallel runs (`ApplyHistoryFaithful`, `ApplyNeverConflicts`).
  `CommitsIsolated` and `AuditsTruthful` have the hypothesis `WholeGroups`: a run
  writes resource groups with all their instances. The merge replaces groups
  while reservations are per instance, so without it neither holds; it is the gap
  of `apply/merge.go:73`, and every instance without `count` satisfies it.
  `IsolationInv` says that rows carry the mode their run wants, that the version a
  plan was pinned to is stored, and that a run past the staleness guard which
  still has its reservations sees what its plan saw. Another run's commit keeps
  this because it changes only its own write set: if the two sets meet, the rows
  of the two conflict, so the committer must have lost its own and is in `stray`.
  `AuditInv` says that a run which has not committed is the author of nothing,
  that one in `closing` with a reply is the author of exactly the serial it will
  record, and that every lost attempt is paid for: the versions up to the trunk it
  saw last have at least as many other authors (`VersionsAuthored`: every version
  after the first has one).
- `ParallelApplyProofs`, on `ApplyClient`: `ClientInv` (`ClientSafe`) has one part per promise.
  `PlanInv`: the actions shown are Terraform's plan on the version planned on.
  `SpecInv`: the spec lies in the scope and every gate was acknowledged.
  `QuotaInv`: while the trunk is the version planned on, the plan fits the limit;
  this needs the open rows, which the quota counts, to mirror the trunk
  (`RowsMirrorTrunk`, `OpenRowsCounted`, from `StoreInv`). `BaseInv`: past the
  staleness guard the read set is the same in the pinned version and in the trunk
  Terraform ran on, so the replan there is the plan shown (`ReplanShown`).
  `DoneInv`: what was done is part of that replan. `TriesInv`: every retry was lost
  to a version of its own. `LockInv`: under the coarse lock no session has another
  lock. `EndInv`: a run that ends unrecorded has its reason. `AppliesAsConfirmed`,
  `AppliesRecorded` and `NativesAlone` follow from the invariant; `ScopesKept` is a
  step property that needs it, because a delta commit rebuilds the document from
  rows that must mirror the trunk it follows.
- `PoolCacheProofs`: `PoolInv` says what a request holds between the unlock and
  the relock of `Get`: a pool of its own, if it opened one, that no map entry and
  no other request has (`PoolsDistinct`); while it evicts it has the mutex, its
  database is not cached and its instance is below the cap (`MutexOK`). Together
  with the agreement of map, list and counters (`ListOK`, `CountsOK`) that makes
  both limits and `OpenPoolsAccounted` inductive. That there is always a free
  number for a new pool is a counting argument over cached and opened pools.
- `EnvironmentsProofs`, on `Provisioning`: `ProvInv` says what a process brings from one step to the
  next. A copy of the database the row still names has all acknowledged writes,
  in the dump until it is loaded and in the dedicated database then (`CopyOK`); a
  migration run has applied every file it has passed, but for the holes it found,
  and holes are versions the baseline recorded (`RunOK`, `HolesOK`). What the
  gaps of finding 14 may lose is added to `stray` by the step that opens the gap,
  so `StoredOK` is inductive.
- `EnvironmentsProofs`, on `Transfers`: `TransfersInv` says what a request has
  in hand at each query: an acceptance knows the proposal as it still is while
  pending, there is at most one pending proposal per environment, and its source
  is the owner. Between the acceptance and the move all states of the
  environment lie under the old owner, and the quiet window keeps everybody else
  from writing below it; then they are moved as a whole (`StatesMoveAlong`).
  `OwnersChangeByProposal` follows step by step.
- `EnvironmentsProofs`, on `StateRows`: `RowsInv` says which locks a row can have
  and whose they are: a lock id is on the row it was granted on or nowhere, and a
  row born exclusive and not relaxed has one at most (`RowLocksOK`); and what a
  request still knows of the row it looked up: that row, and any row of the name,
  is as it was admitted or in `late` (`Noticed`), kl apply's base still has its
  name unless it is in `late` (`BaseKept`), and from the upsert on the row, or the
  free name, is the request's alone and stays as it was (`RowHeld`, `Holders`),
  because everything that would change it waits for the row lock. A deletion past
  its check was granted its lock on that very row, and saw no other one unless
  locks are shared (`Cleared`), which lasts because a row is born once, a lock id
  is granted on one row and relaxing a configuration is for good (`HistoryKept`).
  `WritesStayOnTheirRow`, `NoSecondHistory` and `DeletesStayOnTheirRow` follow
  from what is known at the commit, `QuotaKeptAlone` step by step; the latter counts the
  resources as those of the other states and those of the document.
- `ControlPlaneProofs`: `ControlInv` says what a request brings from one query of
  its handler to the next. `Admitted`: once it has passed its checks, the grants
  or the role its principal had at some moment since it arrived contain what its
  effect can touch, or the label it asked for has moved; from that
  `EffectsAuthorised`. `HoldsPat`: the access token a rotation or revocation waits for or
  holds is one of its own account, or none was found; with the unique index,
  which admits an insert only beside no other live token, that keeps one per
  account (`PatsInv`, `PatsUnique`). `PurgesPast` and `ClockInv`: the
  cutoff of a purge lies a retention period back, and the time a workspace's
  status changed is not before its last archiving (`PurgesWait`). `AdminInv`: from the step that marks
  the system initialised on, an administrator stands (`AdministratorKept`).
- `MembersProofs`: `MembersInv` says what a request between its check and its
  commit has secured. `Secured` and `RowsHeld`: the row it will write is its own
  and as it was checked, which makes checks older than the commit harmless
  (`AdminsLeaveOwners`). `OneLeaves` and `OneLowers`: unless the workspace is in
  `raced`, one request there lowers an owner and another owner remains
  (`OwnersKept`). `FreeUnused` and `PersonalUninvited`: nothing refers to a
  workspace before it exists, and no invitation names a personal one
  (`PersonalWorkspacesOwned`). `JoinersInvited` follows step by step.
- `PlanningProofs`, on `Refresh`: `RefreshInv` says what a group has settled at each point of
  its goroutine: the entries before the one at hand have failed or were answered,
  and a group leaves its loop early only with a failure counted (`GroupInv`);
  which processes can be alive there (`ProcInv`); and that the main goroutine
  writes or succeeds only when all groups are done and nothing failed
  (`MainInv`). `SuccessIsWhole` follows because then every group was through its
  loop (`RefreshesWhole`); `ProvidersContained` because a process that is alive
  belongs to a group that holds a place of the semaphore
  (`ProvidersAreContained`).
- `PlanningProofs`, on `Scope`: `ScopeInv` says that the walk leaves behind it no
  address whose known dependencies are neither visited nor queued (`WalkInv`), so
  that the contract of a finished walk is closed (`ContractInv`,
  `ContractsClosed`). `BasisInv` relates the three versions a plan mixes, the one
  the contract was drawn from, the pinned one and that of the rows: if the first
  two agree, what the configuration names and both of the last two have is in
  the planned state, and Terraform does not create it. The guard adds that the
  read set has not changed since the pinned version (`GuardInv`), which gives
  `AdmittedPlansTrue`. `LinkedPlansReserve` needs no induction over paths: the
  reachable addresses are the least closed set, and both a read set and its
  complement are closed, since the closure follows an edge both ways.

Proved and not repeated by a run: `ReservationsTypeOK`, `StoreTypeOK`,
`HistoryGapFree`, `LifecyclesDisjoint`, `NoConflictingRows`, `LeasesHonoured`,
`EngineLockAlone`, `BaselineStored`, `CacheConsistent`, `ClientTypeOK`,
`MembersTypeOK`, `GlobsSound`, `GlobsPrecise`, `ScopeTypeOK`, `NativeAlone`,
`OnePAT`, `AdminsLeaveOwnersAlone`, `FreshBesideArchived`, `QuotaKept`.

Every invariant and action property that a passing run checks is stated by a
theorem. Only model-checked, since liveness under fairness is beyond the prover's
reach: `EveryRunEnds`, `EveryRequestEnds`, `CircuitRecovers`, `CoarseLockEnds`,
`PlanEnds` and `CancelledRunEnds`.

## Not modelled

- Generated gRPC code (`internal/grpcwire`, 20,000 of the 65,600 lines), HTML
  pages, CLI flags and output, configuration, migrations: no state of their own
  that outlives a call. The msgpack codec and the wire messages of providers are
  a call that answers or fails.
- Limits of the number of states, environments and tokens, portal accounts and their passwords:
  single-row reads and updates. pg_dump and pg_restore are a read and two writes.
- Shutdown of the pool cache, module selectors and `--target` in scoped planning, the
  Terraform run inside `kl apply` beyond success, failure and interruption.

The map covers three lines in ten, and most of the store,
orchestrator, control-plane and protocol code that keeps state; what is left is
mainly the generated and the presentation code above.

## Plan

1. Groups of several instances and outputs in `ParallelApply`.
2. An abstract specification of the apply: read the trunk and write the write set
   in one step, implemented by runs that keep their reservations.
