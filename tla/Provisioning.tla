---------------------------- MODULE Provisioning ----------------------------
(***************************************************************************)
(* Where the states of one environment live: pkg/provision, pkg/migrate,   *)
(* the routing of kld and the rows of environments they share.             *)
(*                                                                         *)
(* An environment starts in the default database, gets a database of its   *)
(* own on the shared host, and may be moved to a dedicated host: the       *)
(* upgrade is requested, a worker migrates the new database, copies the    *)
(* old one with pg_dump and pg_restore, and switches the DSN.  Meanwhile   *)
(* kld resolves requests by the row it reads, and replicas and a loop      *)
(* migrate the databases.  Nothing locks the row from one step to another. *)
(***************************************************************************)
EXTENDS Integers, FiniteSets

CONSTANTS
  Write,    \* the states clients write, each once
  Proc,     \* requests to kld and klc, workers and migration runs under way
  File,     \* embedded migrations, by number; 1 is the baseline
  Legacy    \* the versions the baseline records besides its own

ASSUME FileAssumption == File \subseteq Nat /\ 1 \in File /\ Legacy \subseteq File

VARIABLES
  row,      \* the environments row: database_dsn, status, source_database_dsn
  data,     \* data[d]: the states in database d
  schema,   \* schema[d]: the migrations applied, and those schema_migrations lists
  proc,     \* the processes
  acked,    \* the writes clients were told succeeded
  stray     \* writes that one of the gaps of the move may lose

provVars == <<row, data, schema, proc, acked, stray>>

Nowhere == "nowhere"
Db      == {"default", "own", "host"}   \* an empty DSN is the default database
Bare    == [files |-> {}, listed |-> {}]
Whole   == [files |-> File, listed |-> File]
Resting == [pc |-> "idle", then |-> Nowhere, db |-> Nowhere, todo |-> {}, hole |-> {},
            ready |-> FALSE, source |-> Nowhere, dump |-> {}, dumped |-> Bare]

Doing(p, pc) == proc[p].pc = pc
Become(p, q) == proc' = [proc EXCEPT ![p] = q]
Ends(p)      == Become(p, Resting)
LowestOf(S)  == CHOOSE m \in S : \A n \in S : m <= n

NewRow(d, s) == [db |-> d, status |-> s, source |-> Nowhere]

Fresh(migrated) ==
  /\ data = [d \in Db |-> {}]
  /\ schema = [d \in Db |-> IF d \in migrated THEN Whole ELSE Bare]
  /\ proc = [p \in Proc |-> Resting]
  /\ acked = {} /\ stray = {}

(* A new environment, of either tier, or one with a database of its own;   *)
(* the default database, which has its row, is migrated.                   *)
ProvInit ==
  /\ row \in {NewRow("default", "ready"), NewRow("default", "provisioning"), NewRow("own", "ready")}
  /\ Fresh({"default", row.db})

(* A new installation.                                                     *)
StartInit == row = NewRow("default", "ready") /\ Fresh({})

-----------------------------------------------------------------------------
(* migrate.Run: read schema_migrations once, then each missing file in     *)
(* order.  A file commits its own transaction, so the runner's INSERT of   *)
(* the version is a second one; the baseline records itself and Legacy.    *)

Hole(d) == schema[d].listed \ schema[d].files

Run(p, d, then, source) ==
  LET todo == File \ schema[d].listed
  IN  Become(p, [Resting EXCEPT !.pc = IF todo = {} THEN then ELSE "migrating", !.then = then,
                                !.db = d, !.todo = todo, !.hole = Hole(d) \cap Legacy,
                                !.source = source])

(* The baseline creates its objects unconditionally, the rest IF NOT       *)
(* EXISTS and on top of it.                                                *)
Applies(m, d) == (m = 1) # (1 \in schema[d].files)

ApplyFile(p) ==
  /\ Doing(p, "migrating")
  /\ LET d == proc[p].db
         m == LowestOf(proc[p].todo)
     IN  /\ Applies(m, d)
         /\ schema' = [schema EXCEPT ![d].files = @ \cup {m},
                                     ![d].listed = @ \cup IF m = 1 THEN {1} \cup Legacy ELSE {}]
         /\ Become(p, [proc[p] EXCEPT !.pc = "recording"])
  /\ UNCHANGED <<row, data, acked, stray>>

\* Mutant of Recorded: everything that was missing is recorded at once.
RecordedAll(p) == proc[p].todo

Recorded(p) == {LowestOf(proc[p].todo)}

RecordFile(p) ==
  /\ Doing(p, "recording")
  /\ LET todo == proc[p].todo \ {LowestOf(proc[p].todo)}
     IN  Become(p, IF todo = {} THEN [proc[p] EXCEPT !.todo = {}, !.hole = {}, !.pc = proc[p].then]
                   ELSE [proc[p] EXCEPT !.todo = todo, !.pc = "migrating"])
  /\ schema' = [schema EXCEPT ![proc[p].db].listed = @ \cup Recorded(p)]
  /\ UNCHANGED <<row, data, acked, stray>>

(* kld serve and klc migrate: the default database.                        *)
StartKld(p) ==
  /\ Doing(p, "idle")
  /\ Run(p, "default", "migrated", Nowhere)
  /\ UNCHANGED <<row, data, schema, acked, stray>>

(* migrateAllEnvironments: the database of an environment that is ready.   *)
MigrateAllEnvironments(p) ==
  /\ Doing(p, "idle")
  /\ row.db # "default" /\ row.status = "ready"
  /\ Run(p, row.db, "migrated", Nowhere)
  /\ UNCHANGED <<row, data, schema, acked, stray>>

Migrated(p) ==
  /\ Doing(p, "migrated")
  /\ Ends(p)
  /\ UNCHANGED <<row, data, schema, acked, stray>>

-----------------------------------------------------------------------------
(* kld: StoreFor resolves a request, which then writes to the database it  *)
(* was given.                                                              *)

Served == row.db = "default" \/ row.status = "ready"

\* Mutant of Routable: the status of an environment with a DSN is not looked at.
RoutableAnyStatus == TRUE

Routable == row.db # "default" => row.status = "ready"

StoreFor(p) ==
  /\ Doing(p, "idle")
  /\ Routable
  /\ Become(p, [Resting EXCEPT !.pc = "writing", !.db = row.db, !.ready = Served])
  /\ UNCHANGED <<row, data, schema, acked, stray>>

(* The first gaps: a request that was resolved before the environment was  *)
(* taken away writes behind the copy, and so does one that was resolved    *)
(* after a late SetEnvironmentDSN made it ready again.                     *)
Copied(d) == \E q \in Proc : proc[q].source = d /\ proc[q].pc \in {"restoring", "loading", "cutover"}

Behind(p) ==
  LET d == proc[p].db
  IN  \/ proc[p].ready /\ ~ (Served /\ row.db = d)
      \/ row.status = "ready" /\ Copied(d)

WriteState(p) ==
  /\ Doing(p, "writing")
  /\ LET d == proc[p].db
     IN  IF 1 \in schema[d].files
         THEN \E w \in Write \ acked :
                /\ data' = [data EXCEPT ![d] = @ \cup {w}]
                /\ acked' = acked \cup {w}
                /\ stray' = IF Behind(p) THEN stray \cup {w} ELSE stray
         ELSE UNCHANGED <<data, acked, stray>>
  /\ Ends(p)
  /\ UNCHANGED <<row, schema>>

-----------------------------------------------------------------------------
(* klc: a database on the shared host (SharedHostEnvironment), at creation *)
(* or, by bootstrapAuthIfConfigured, when kld starts.                      *)
ProvisionEnvironment(p) ==
  /\ Doing(p, "idle")
  /\ row.db = "default"
  /\ Run(p, "own", "switching", Nowhere)
  /\ UNCHANGED <<row, data, schema, acked, stray>>

(* Another gap: what was written to the database the row named before is   *)
(* not carried over.                                                       *)
LeftBehind(d) == IF row.db = d THEN {} ELSE data[row.db]

SetEnvironmentDSN(p) ==
  /\ Doing(p, "switching")
  /\ row' = [row EXCEPT !.db = "own", !.status = "ready"]
  /\ stray' = stray \cup LeftBehind("own")
  /\ Ends(p)
  /\ UNCHANGED <<data, schema, acked>>

(* RequestDedicatedUpgrade: read the row, then update it by id.            *)
CheckUpgrade(p) ==
  /\ Doing(p, "idle")
  /\ row.status # "provisioning"
  /\ Become(p, [Resting EXCEPT !.pc = "upgrading", !.source = IF row.db = "default" THEN Nowhere ELSE row.db])
  /\ UNCHANGED <<row, data, schema, acked, stray>>

RequestDedicatedUpgrade(p) ==
  /\ Doing(p, "upgrading")
  /\ row' = [row EXCEPT !.status = "provisioning", !.source = proc[p].source]
  /\ Ends(p)
  /\ UNCHANGED <<data, schema, acked, stray>>

-----------------------------------------------------------------------------
(* RunDedicatedWorker, for one environment of its list.  Nothing claims    *)
(* the environment: two workers may list it.                               *)

ListDedicatedProvisioning(p) ==
  /\ Doing(p, "idle")
  /\ row.status = "provisioning"
  /\ Run(p, "host", "dumping", row.source)
  /\ UNCHANGED <<row, data, schema, acked, stray>>

(* CopyDatabase, pg_dump: without a source there is nothing to copy.       *)
Dump(p) ==
  /\ Doing(p, "dumping")
  /\ LET q == proc[p]
     IN  Become(p, IF q.source = Nowhere THEN [q EXCEPT !.pc = "cutover"]
                   ELSE [q EXCEPT !.pc = "restoring", !.dump = data[q.source], !.dumped = schema[q.source]])
  /\ UNCHANGED <<row, data, schema, acked, stray>>

(* pg_restore --clean, first the drops.  Two more gaps: another worker is  *)
(* at the same environment, and a dedicated environment is upgraded again, *)
(* so that its only database is dropped to be restored from the dump.      *)
AtRisk(p) ==
  IF row.db = "host" \/ \E q \in Proc \ {p} : proc[q].then = "dumping"
  THEN data["host"] \cup proc[p].dump
  ELSE {}

RestoreClean(p) ==
  /\ Doing(p, "restoring")
  /\ data' = [data EXCEPT !["host"] = {}]
  /\ schema' = [schema EXCEPT !["host"] = Bare]
  /\ Become(p, [proc[p] EXCEPT !.pc = "loading"])
  /\ stray' = stray \cup AtRisk(p)
  /\ UNCHANGED <<row, acked>>

RestoreLoad(p) ==
  /\ Doing(p, "loading")
  /\ data' = [data EXCEPT !["host"] = @ \cup proc[p].dump]
  /\ schema' = [schema EXCEPT !["host"] = proc[p].dumped]
  /\ Become(p, [proc[p] EXCEPT !.pc = "cutover"])
  /\ UNCHANGED <<row, acked, stray>>

(* The row is switched whatever it says by now.  The last gap: it no       *)
(* longer names the database that was copied.                              *)
CompleteDedicatedProvision(p) ==
  /\ Doing(p, "cutover")
  /\ row' = [db |-> "host", status |-> "ready", source |-> Nowhere]
  /\ stray' = IF proc[p].source = row.db THEN stray ELSE stray \cup LeftBehind("host")
  /\ Ends(p)
  /\ UNCHANGED <<data, schema, acked>>

Working(p) == \/ proc[p].then = "dumping" /\ proc[p].pc \in {"migrating", "recording"}
              \/ proc[p].pc \in {"dumping", "restoring", "loading"}

(* ProvisionDedicatedHost fails at any point, at the latest where a file   *)
(* does not apply.                                                         *)
FailDedicatedProvision(p) ==
  /\ Working(p)
  /\ row' = [row EXCEPT !.status = "failed"]
  /\ Ends(p)
  /\ UNCHANGED <<data, schema, acked, stray>>

(* A process dies, or a migration run outside the worker fails.            *)
Dies(p) ==
  /\ ~ Doing(p, "idle")
  /\ Ends(p)
  /\ UNCHANGED <<row, data, schema, acked, stray>>

-----------------------------------------------------------------------------
Migrate(p) == StartKld(p) \/ MigrateAllEnvironments(p) \/ ApplyFile(p) \/ RecordFile(p) \/ Migrated(p)
Upgrade(p) == CheckUpgrade(p) \/ RequestDedicatedUpgrade(p) \/ ProvisionEnvironment(p) \/ SetEnvironmentDSN(p)
Work(p)    == \/ ListDedicatedProvisioning(p) \/ Dump(p) \/ RestoreClean(p) \/ RestoreLoad(p)
              \/ CompleteDedicatedProvision(p) \/ FailDedicatedProvision(p)

ProvNext == \E p \in Proc : Migrate(p) \/ StoreFor(p) \/ WriteState(p) \/ Upgrade(p) \/ Work(p) \/ Dies(p)

ProvSpec == ProvInit /\ [][ProvNext]_provVars

(* Replicas that start on one database, and may die.                       *)
StartNext == \E p \in Proc : StartKld(p) \/ ApplyFile(p) \/ RecordFile(p) \/ Migrated(p) \/ Dies(p)
StartSpec == StartInit /\ [][StartNext]_provVars

-----------------------------------------------------------------------------
(* Properties                                                              *)

(* Shapes.                                                                 *)
ProvTypeOK ==
  /\ row \in [db : Db, status : {"ready", "provisioning", "failed"}, source : Db \cup {Nowhere}]
  /\ data \in [Db -> SUBSET Write] /\ acked \subseteq Write /\ stray \subseteq acked
  /\ schema \in [Db -> [files : SUBSET File, listed : SUBSET File]]

(* What a client was told is stored can be read wherever kld routes it     *)
(* now, through requests for an upgrade, failed, killed and repeated       *)
(* workers and cutovers, but for the gaps marked above: kld's refusal *)
(* of an environment that is not ready (router.go) is what makes the copy  *)
(* complete.                                                               *)
CutoverComplete ==
  /\ ProvTypeOK
  /\ Served => acked \ stray \subseteq data[row.db]

Returned(p) == proc[p].pc \in {"idle", "recording"} /\ proc'[p].pc = proc'[p].then
Excused(p)  == proc[p].hole \cup proc'[p].hole

(* A migration run that returns leaves every file applied, whoever else    *)
(* runs or dies, except the files the baseline had recorded without        *)
(* applying when the run began; in the databases no restore replaces while *)
(* the run is under way, the default one and the environment's own.        *)
RunLeavesSchemaWhole ==
  [][\A p \in Proc : Returned(p) /\ proc'[p].db # "host"
        => File \ Excused(p) \subseteq schema'[proc'[p].db].files]_provVars

(* "The runner is idempotent ... schema_migrations is the single source of *)
(* truth for what's applied" (migrate.go): a run that returned, when no    *)
(* other is under way, leaves a database with every file applied.          *)
MigratedIsWhole ==
  \A p \in Proc : Doing(p, "migrated") /\ (\A q \in Proc \ {p} : Doing(q, "idle"))
                    => schema[proc[p].db].files = File
=============================================================================
