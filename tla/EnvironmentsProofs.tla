------------------------- MODULE EnvironmentsProofs -------------------------
(* Proofs about environments: that the worker's move of one to a dedicated *)
(* database loses no write and every migration run applies every file      *)
(* (Provisioning), that an ownership transfer takes the states and the     *)
(* tokens along (Transfers), and that the states of one keep their locks,  *)
(* their names and their quota (StateRows).  The three are independent.    *)
EXTENDS Provisioning, Transfers, StateRows, FiniteSetTheorems, TLAPS

-----------------------------------------------------------------------------
(* Provisioning                                                            *)

SchemaRecord == [files : SUBSET File, listed : SUBSET File]
ProcRecord ==
  [pc : {"idle", "migrating", "recording", "migrated", "writing", "switching", "upgrading",
         "dumping", "restoring", "loading", "cutover"},
   then : {Nowhere, "migrated", "switching", "dumping"},
   db : Db \cup {Nowhere}, todo : SUBSET File, hole : SUBSET File, ready : BOOLEAN,
   source : Db \cup {Nowhere}, dump : SUBSET Write, dumped : SchemaRecord]

Migrating(q) == q.pc \in {"migrating", "recording"}
Copying(q)   == q.pc \in {"restoring", "loading", "cutover"}

(* What a process carries from one step to the next.  A request was routed *)
(* while the environment was served; a worker is at the dedicated host.    *)
StepOK(q) ==
  /\ Migrating(q) => q.then # Nowhere /\ q.todo # {} /\ q.db \in Db
  /\ q.pc = "writing" => q.ready /\ q.db \in Db
  /\ q.pc = "dumping" \/ Copying(q) => q.then = "dumping"
  /\ q.pc \in {"restoring", "loading"} => q.source # Nowhere
  /\ q.then = "dumping" => q.db = "host"
  /\ q.source # "default" /\ q.dump \subseteq acked

(* Every database holds acknowledged writes only, and the one the row      *)
(* names holds all of them but the stray ones.                             *)
StoredOK ==
  /\ \A d \in Db : data[d] \subseteq acked
  /\ acked \ stray \subseteq data[row.db]
  /\ row.source # "default"

(* A copy of the database the row still names is complete: in the dump     *)
(* until it is loaded, then in the dedicated database.                     *)
CopyOK(q) ==
  q.source = row.db /\ row.db # "host" =>
    /\ q.pc \in {"restoring", "loading"} => acked \ stray \subseteq q.dump
    /\ q.pc = "cutover" => acked \ stray \subseteq data["host"]

(* A migration run has applied what it has passed, but for the holes it    *)
(* found; the holes are versions the baseline recorded.                    *)
RunOK(q) ==
  Migrating(q) /\ q.db # "host" =>
    /\ (File \ q.todo) \ q.hole \subseteq schema[q.db].files
    /\ q.pc = "recording" => LowestOf(q.todo) \in schema[q.db].files

HolesOK == \A d \in Db \ {"host"} : Hole(d) \subseteq Legacy

ProvInv ==
  /\ ProvTypeOK
  /\ proc \in [Proc -> ProcRecord]
  /\ StoredOK
  /\ HolesOK
  /\ \A p \in Proc : StepOK(proc[p]) /\ CopyOK(proc[p]) /\ RunOK(proc[p])

-----------------------------------------------------------------------------
(* Lemmas                                                                  *)

(* The runner finds a next file as long as one is missing.                 *)
LEMMA LowestMissing ==
  ASSUME NEW S \in SUBSET File, S # {}
  PROVE  LowestOf(S) \in S
<1> DEFINE R == {ss \in Nat \X Nat : ss[1] < ss[2]}
<1>1. IsWellFoundedOn(R, Nat)
  BY NatLessThanWellFounded DEF OpToRel
<1>2. S \subseteq Nat
  BY FileAssumption
<1>3. \E m \in S : \A n \in S : <<n, m>> \notin R
  <2> HIDE DEF R
  <2> QED BY <1>1, <1>2, WFMin
<1>4. \A m \in S, n \in S : <<n, m>> \notin R => m <= n
  BY <1>2
<1>5. \E m \in S : \A n \in S : m <= n
  <2> HIDE DEF R
  <2> QED BY <1>3, <1>4
<1> QED BY <1>5 DEF LowestOf

LEMMA RestingShape == Resting \in ProcRecord
BY DEF Resting, ProcRecord, SchemaRecord, Bare

(* A process changes its own record; the shared facts carry the others.    *)
LEMMA StepKeeps ==
  ASSUME ProvInv, NEW p \in Proc, NEW v \in ProcRecord, Become(p, v),
         ProvTypeOK', StoredOK', HolesOK', acked \subseteq acked',
         \A d \in Db \ {"host"} : schema[d].files \subseteq schema'[d].files,
         \A q \in Proc \ {p} : CopyOK(proc[q])',
         StepOK(v)', CopyOK(v)', RunOK(v)'
  PROVE  ProvInv'
<1>1. proc \in [Proc -> ProcRecord] /\ \A q \in Proc : StepOK(proc[q]) /\ RunOK(proc[q])
  BY DEF ProvInv
<1>2. proc' \in [Proc -> ProcRecord] /\ proc'[p] = v /\ \A q \in Proc \ {p} : proc'[q] = proc[q]
  BY <1>1 DEF Become
<1>3. \A q \in Proc \ {p} : StepOK(proc[q])'
  BY <1>1, <1>2 DEF StepOK, Migrating, Copying
<1>4. \A q \in Proc \ {p} : RunOK(proc[q])'
  <2> SUFFICES ASSUME NEW q \in Proc \ {p} PROVE RunOK(proc[q])'
    OBVIOUS
  <2>1. proc'[q] = proc[q] /\ RunOK(proc[q]) /\ StepOK(proc[q])
    BY <1>1, <1>2
  <2> QED BY <2>1 DEF RunOK, StepOK, Migrating
<1>5. (StepOK(proc[p]) /\ CopyOK(proc[p]) /\ RunOK(proc[p]))'
  BY <1>2 DEF StepOK, CopyOK, RunOK, Migrating, Copying
<1>6. \A q \in Proc : (StepOK(proc[q]) /\ CopyOK(proc[q]) /\ RunOK(proc[q]))'
  BY <1>3, <1>4, <1>5
<1> QED BY <1>2, <1>6 DEF ProvInv

(* A copy stays complete while its row and its database do, and no write   *)
(* is added to those that count.                                           *)
LEMMA CopiesKeep ==
  ASSUME ProvInv, NEW p \in Proc, NEW v \in ProcRecord, Become(p, v),
         row'.db = row.db, acked' \ stray' \subseteq acked \ stray, data["host"] \subseteq data'["host"]
  PROVE  \A q \in Proc \ {p} : CopyOK(proc[q])'
<1>1. proc \in [Proc -> ProcRecord] /\ \A q \in Proc : CopyOK(proc[q])
  BY DEF ProvInv
<1>2. \A q \in Proc \ {p} : proc'[q] = proc[q]
  BY <1>1 DEF Become
<1> QED BY <1>1, <1>2 DEF CopyOK

(* A step that only moves its process along.                               *)
LEMMA QuietKeeps ==
  ASSUME ProvInv, NEW p \in Proc, NEW v \in ProcRecord, Become(p, v),
         UNCHANGED <<row, data, schema, acked, stray>>,
         StepOK(v), CopyOK(v), RunOK(v)
  PROVE  ProvInv'
<1>1. (ProvTypeOK /\ StoredOK /\ HolesOK)'
  BY DEF ProvInv, ProvTypeOK, StoredOK, HolesOK, Hole
<1>2. (StepOK(v) /\ CopyOK(v) /\ RunOK(v))'
  BY DEF StepOK, CopyOK, RunOK
<1>3. \A q \in Proc \ {p} : CopyOK(proc[q])'
  BY CopiesKeep
<1> QED BY <1>1, <1>2, <1>3, StepKeeps

(* An idle process has nothing to answer for.                              *)
LEMMA RestingOK == StepOK(Resting) /\ CopyOK(Resting) /\ RunOK(Resting)
BY DEF StepOK, CopyOK, RunOK, Resting, Migrating, Copying, Nowhere

LEMMA RestingOKNext == (StepOK(Resting) /\ CopyOK(Resting) /\ RunOK(Resting))'
BY DEF StepOK, CopyOK, RunOK, Resting, Migrating, Copying, Nowhere

LEMMA EndKeeps ==
  ASSUME ProvInv, NEW p \in Proc, Ends(p), UNCHANGED <<row, data, schema, acked, stray>>
  PROVE  ProvInv'
BY QuietKeeps, RestingOK, RestingShape DEF Ends

(* A migration run begins: what the database lists but the baseline did    *)
(* not apply is the hole, the rest of what it lists is applied.            *)
LEMMA RunKeeps ==
  ASSUME ProvInv, NEW p \in Proc, NEW d \in Db, NEW then \in {"migrated", "switching", "dumping"},
         NEW source \in (Db \cup {Nowhere}) \ {"default"}, then = "dumping" => d = "host",
         Run(p, d, then, source), UNCHANGED <<row, data, schema, acked, stray>>
  PROVE  ProvInv'
<1> DEFINE todo == File \ schema[d].listed
           hole == Hole(d) \cap Legacy
           pc   == IF todo = {} THEN then ELSE "migrating"
           v    == [Resting EXCEPT !.pc = pc, !.then = then, !.db = d, !.todo = todo,
                                   !.hole = hole, !.source = source]
<1>1. schema[d] \in SchemaRecord /\ HolesOK
  BY DEF ProvInv, ProvTypeOK, SchemaRecord
<1>2. todo \in SUBSET File /\ hole \in SUBSET File
  BY <1>1 DEF SchemaRecord, Hole
<1>3. pc \in {"migrating", "migrated", "switching", "dumping"}
      /\ (pc = "migrating" => todo # {}) /\ (pc = "dumping" => then = "dumping")
  OBVIOUS
<1>4. d # "host" => (File \ todo) \ hole \subseteq schema[d].files
  BY <1>1 DEF HolesOK, Hole, SchemaRecord
<1>5. Become(p, v)
  BY DEF Run
<1> HIDE DEF todo, hole, pc
<1>6. v \in ProcRecord
  BY <1>2, <1>3, RestingShape DEF ProcRecord
<1>7. /\ v.pc = pc /\ v.then = then /\ v.db = d /\ v.todo = todo /\ v.hole = hole
      /\ v.source = source /\ v.dump = {}
  BY RestingShape DEF ProcRecord, Resting
<1> HIDE DEF v
<1>8. StepOK(v) /\ CopyOK(v) /\ RunOK(v)
  BY <1>3, <1>4, <1>7 DEF StepOK, CopyOK, RunOK, Migrating, Copying, Nowhere
<1> QED BY <1>5, <1>6, <1>8, QuietKeeps

-----------------------------------------------------------------------------
(* The steps of a migration run                                            *)

LEMMA ApplyKeeps ==
  ASSUME ProvInv, NEW p \in Proc, ApplyFile(p)
  PROVE  ProvInv'
<1>0. PICK r : r = proc[p]
  OBVIOUS
<1> DEFINE d == r.db
           m == LowestOf(r.todo)
           v == [r EXCEPT !.pc = "recording"]
           more == {1} \cup Legacy
<1>1. /\ ProvTypeOK /\ StoredOK /\ HolesOK /\ proc \in [Proc -> ProcRecord]
      /\ r \in ProcRecord /\ StepOK(r) /\ CopyOK(r) /\ RunOK(r)
  BY <1>0 DEF ProvInv
<1>2. /\ r.pc = "migrating" /\ Become(p, v)
      /\ schema' = [schema EXCEPT ![d].files = @ \cup {m},
                                  ![d].listed = @ \cup IF m = 1 THEN more ELSE {}]
      /\ UNCHANGED <<row, data, acked, stray>>
  BY <1>0 DEF ApplyFile, Doing
<1>3. d \in Db /\ r.todo \in SUBSET File /\ r.todo # {} /\ r.then # Nowhere
  BY <1>1, <1>2 DEF StepOK, Migrating, ProcRecord
<1>4. m \in File /\ more \subseteq File
  BY <1>3, LowestMissing, FileAssumption
<1> HIDE DEF m, more
<1>5. schema \in [Db -> SchemaRecord]
  BY <1>1 DEF ProvTypeOK, SchemaRecord
<1>6. /\ schema'[d].files = schema[d].files \cup {m}
      /\ schema'[d].listed = schema[d].listed \cup IF m = 1 THEN more ELSE {}
      /\ \A e \in Db \ {d} : schema'[e] = schema[e]
      /\ schema' \in [Db -> SchemaRecord]
  BY <1>2, <1>3, <1>4, <1>5 DEF SchemaRecord
<1>7. ProvTypeOK' /\ StoredOK'
  BY <1>1, <1>2, <1>6 DEF ProvTypeOK, StoredOK, SchemaRecord
<1>8. HolesOK'
  <2>1. Hole(d)' \subseteq Hole(d) \cup (more \ {m})
    BY <1>6 DEF Hole
  <2>2. m = 1 => more \ {m} \subseteq Legacy
    BY DEF more
  <2>3. m # 1 => Hole(d)' \subseteq Hole(d)
    BY <1>6 DEF Hole
  <2>4. \A e \in Db \ {d} : Hole(e)' = Hole(e)
    BY <1>6 DEF Hole
  <2> QED BY <1>1, <2>1, <2>2, <2>3, <2>4 DEF HolesOK
<1>9. v \in ProcRecord /\ v.pc = "recording" /\ v.then = r.then /\ v.db = d /\ v.todo = r.todo
      /\ v.hole = r.hole /\ v.source = r.source /\ v.dump = r.dump
  BY <1>1 DEF ProcRecord
<1> HIDE DEF v
<1>10. StepOK(v)' /\ CopyOK(v)'
  BY <1>1, <1>2, <1>3, <1>9 DEF StepOK, CopyOK, Migrating, Copying
<1>11. RunOK(v)'
  BY <1>1, <1>2, <1>6, <1>9 DEF RunOK, Migrating, m
<1>12. \A q \in Proc \ {p} : CopyOK(proc[q])'
  BY <1>2, <1>9, CopiesKeep
<1>13. acked \subseteq acked' /\ \A e \in Db \ {"host"} : schema[e].files \subseteq schema'[e].files
  BY <1>2, <1>6
<1> QED BY <1>2, <1>7, <1>8, <1>9, <1>10, <1>11, <1>12, <1>13, StepKeeps

LEMMA RecordKeeps ==
  ASSUME ProvInv, NEW p \in Proc, RecordFile(p)
  PROVE  ProvInv'
<1>0. PICK r : r = proc[p]
  OBVIOUS
<1> DEFINE d == r.db
           m == LowestOf(r.todo)
           todo == r.todo \ {m}
           last == [r EXCEPT !.todo = {}, !.hole = {}, !.pc = r.then]
           more == [r EXCEPT !.todo = todo, !.pc = "migrating"]
           v == IF todo = {} THEN last ELSE more
<1>1. /\ ProvTypeOK /\ StoredOK /\ HolesOK /\ proc \in [Proc -> ProcRecord]
      /\ r \in ProcRecord /\ StepOK(r) /\ CopyOK(r) /\ RunOK(r)
  BY <1>0 DEF ProvInv
<1>2. /\ r.pc = "recording" /\ Become(p, v)
      /\ schema' = [schema EXCEPT ![d].listed = @ \cup {m}]
      /\ UNCHANGED <<row, data, acked, stray>>
  BY <1>0 DEF RecordFile, Recorded, Doing
<1>3. d \in Db /\ r.todo \in SUBSET File /\ r.todo # {} /\ r.then \in {"migrated", "switching", "dumping"}
  BY <1>1, <1>2 DEF StepOK, Migrating, ProcRecord
<1>4. m \in File /\ m \in r.todo
  BY <1>3, LowestMissing
<1>5. d # "host" => m \in schema[d].files
  BY <1>1, <1>2 DEF RunOK, Migrating
<1> HIDE DEF m
<1>6. schema \in [Db -> SchemaRecord]
  BY <1>1 DEF ProvTypeOK, SchemaRecord
<1>7. /\ schema'[d].files = schema[d].files /\ schema'[d].listed = schema[d].listed \cup {m}
      /\ \A e \in Db \ {d} : schema'[e] = schema[e]
      /\ schema' \in [Db -> SchemaRecord]
  BY <1>2, <1>3, <1>4, <1>6 DEF SchemaRecord
<1>8. ProvTypeOK' /\ StoredOK'
  BY <1>1, <1>2, <1>7 DEF ProvTypeOK, StoredOK, SchemaRecord
<1>9. HolesOK'
  <2>1. d # "host" => Hole(d)' \subseteq Hole(d)
    BY <1>5, <1>7 DEF Hole
  <2>2. \A e \in Db \ {d} : Hole(e)' = Hole(e)
    BY <1>7 DEF Hole
  <2> QED BY <1>1, <2>1, <2>2 DEF HolesOK
<1>10. \A q \in Proc \ {p} : CopyOK(proc[q])'
  <2>1. v \in ProcRecord
    BY <1>1, <1>3 DEF ProcRecord
  <2> HIDE DEF v
  <2> QED BY <1>2, <2>1, CopiesKeep
<1>11. acked \subseteq acked' /\ \A e \in Db \ {"host"} : schema[e].files \subseteq schema'[e].files
  BY <1>2, <1>7
<1>12. CASE todo = {}
  <2>1. last \in ProcRecord /\ last.pc = r.then /\ last.then = r.then /\ last.db = d
        /\ last.source = r.source /\ last.dump = r.dump
    BY <1>1, <1>3 DEF ProcRecord
  <2>2. Become(p, last)
    BY <1>2, <1>12
  <2> HIDE DEF last
  <2>3. StepOK(last)' /\ CopyOK(last)' /\ RunOK(last)'
    BY <1>1, <1>2, <1>3, <2>1 DEF StepOK, CopyOK, RunOK, Migrating, Copying
  <2> QED BY <1>8, <1>9, <1>10, <1>11, <2>1, <2>2, <2>3, StepKeeps
<1>13. CASE todo # {}
  <2>1. more \in ProcRecord /\ more.pc = "migrating" /\ more.then = r.then /\ more.db = d
        /\ more.todo = todo /\ more.hole = r.hole /\ more.source = r.source /\ more.dump = r.dump
    BY <1>1, <1>3 DEF ProcRecord
  <2>2. Become(p, more)
    BY <1>2, <1>13
  <2> HIDE DEF more
  <2>3. StepOK(more)' /\ CopyOK(more)'
    BY <1>1, <1>2, <1>3, <1>13, <2>1 DEF StepOK, CopyOK, Migrating, Copying, Nowhere
  <2>4. RunOK(more)'
    <3>1. d # "host" => (File \ todo) \ r.hole \subseteq schema'[d].files
      BY <1>1, <1>2, <1>5, <1>7 DEF RunOK, Migrating
    <3> HIDE DEF todo
    <3> QED BY <2>1, <3>1 DEF RunOK, Migrating
  <2> QED BY <1>8, <1>9, <1>10, <1>11, <2>1, <2>2, <2>3, <2>4, StepKeeps
<1> QED BY <1>12, <1>13

LEMMA MigrateKeeps ==
  ASSUME ProvInv, NEW p \in Proc, Migrate(p)
  PROVE  ProvInv'
<1>1. row.db \in Db
  BY DEF ProvInv, ProvTypeOK
<1>2. "default" \in Db /\ Nowhere # "default"
  BY DEF Db, Nowhere
<1>3. CASE StartKld(p)
  BY <1>2, <1>3, RunKeeps DEF StartKld
<1>4. CASE MigrateAllEnvironments(p)
  BY <1>1, <1>2, <1>4, RunKeeps DEF MigrateAllEnvironments
<1>5. CASE ApplyFile(p)
  BY <1>5, ApplyKeeps
<1>6. CASE RecordFile(p)
  BY <1>6, RecordKeeps
<1>7. CASE Migrated(p)
  BY <1>7, EndKeeps DEF Migrated
<1> QED BY <1>3, <1>4, <1>5, <1>6, <1>7 DEF Migrate

-----------------------------------------------------------------------------
(* Requests: what is routed while the environment is served, and written   *)

LEMMA ResolveKeeps ==
  ASSUME ProvInv, NEW p \in Proc, StoreFor(p)
  PROVE  ProvInv'
<1> DEFINE v == [Resting EXCEPT !.pc = "writing", !.db = row.db, !.ready = Served]
<1>1. Become(p, v) /\ UNCHANGED <<row, data, schema, acked, stray>>
  BY DEF StoreFor
<1>2. Served /\ row.db \in Db /\ row.status \in {"ready", "provisioning", "failed"}
  BY DEF StoreFor, Routable, Served, ProvInv, ProvTypeOK
<1>3. v \in ProcRecord /\ v.pc = "writing" /\ v.then = Nowhere /\ v.db = row.db /\ v.ready
      /\ v.source = Nowhere /\ v.dump = {}
  BY <1>2, RestingShape DEF ProcRecord, Resting
<1> HIDE DEF v
<1>4. StepOK(v) /\ CopyOK(v) /\ RunOK(v)
  BY <1>2, <1>3 DEF StepOK, CopyOK, RunOK, Migrating, Copying, Nowhere, Db
<1> QED BY <1>1, <1>3, <1>4, QuietKeeps

(* A write that counts went to the database the row names, while no copy   *)
(* of it was under way: a copied environment is served only from the       *)
(* default database, which is never a source.                              *)
LEMMA WriteKeeps ==
  ASSUME ProvInv, NEW p \in Proc, WriteState(p)
  PROVE  ProvInv'
<1>1. /\ ProvTypeOK /\ StoredOK /\ HolesOK /\ proc \in [Proc -> ProcRecord]
      /\ \A q \in Proc : StepOK(proc[q]) /\ CopyOK(proc[q])
  BY DEF ProvInv
<1>2. proc[p].pc = "writing" /\ proc[p].ready /\ proc[p].db \in Db /\ Ends(p) /\ UNCHANGED <<row, schema>>
  BY <1>1 DEF WriteState, Doing, StepOK
<1>3. CASE UNCHANGED <<data, acked, stray>>
  BY <1>2, <1>3, EndKeeps
<1>4. CASE \E w \in Write \ acked :
             /\ data' = [data EXCEPT ![proc[p].db] = @ \cup {w}]
             /\ acked' = acked \cup {w}
             /\ stray' = IF Behind(p) THEN stray \cup {w} ELSE stray
  <2>1. PICK w \in Write \ acked, d \in Db :
             /\ d = proc[p].db
             /\ data' = [data EXCEPT ![d] = @ \cup {w}]
             /\ acked' = acked \cup {w}
             /\ stray' = IF Behind(p) THEN stray \cup {w} ELSE stray
    BY <1>2, <1>4
  <2>2. /\ data \in [Db -> SUBSET Write] /\ stray \subseteq acked /\ acked \subseteq Write
        /\ row \in [db : Db, status : {"ready", "provisioning", "failed"}, source : Db \cup {Nowhere}]
    BY <1>1 DEF ProvTypeOK
  <2>3. /\ data' \in [Db -> SUBSET Write] /\ data'[d] = data[d] \cup {w}
        /\ \A e \in Db \ {d} : data'[e] = data[e]
    BY <2>1, <2>2
  <2>4. ProvTypeOK' /\ HolesOK'
    BY <1>1, <1>2, <2>1, <2>2, <2>3 DEF ProvTypeOK, HolesOK, Hole
  <2>5. ~ Behind(p) => d = row.db /\ Served /\ (row.status = "ready" => ~ Copied(d))
    BY <1>2, <2>1 DEF Behind
  <2>6. StoredOK'
    <3>1. \A e \in Db : data'[e] \subseteq acked'
      BY <1>1, <2>1, <2>3 DEF StoredOK
    <3>2. (acked \ stray)' \subseteq data'[row.db]
      BY <1>1, <2>1, <2>2, <2>3, <2>5 DEF StoredOK
    <3> QED BY <1>1, <1>2, <3>1, <3>2 DEF StoredOK
  <2>7. \A q \in Proc \ {p} : CopyOK(proc[q])'
    <3>1. CASE Behind(p)
      <4>1. acked' \ stray' \subseteq acked \ stray
        BY <2>1, <3>1
      <4>2. row'.db = row.db /\ data["host"] \subseteq data'["host"] /\ Become(p, Resting)
        BY <1>2, <2>3 DEF Db, Ends
      <4> QED BY <4>1, <4>2, RestingShape, CopiesKeep
    <3>2. CASE ~ Behind(p)
      <4> SUFFICES ASSUME NEW q \in Proc \ {p}, Copying(proc[q]), proc[q].source = row.db, row.db # "host"
                   PROVE  FALSE
        BY <1>1, <1>2 DEF CopyOK, Copying, Ends, Become
      <4>1. Copied(d)
        BY <2>5, <3>2 DEF Copied, Copying
      <4>2. row.db = "default"
        BY <2>5, <3>2, <4>1 DEF Served
      <4> QED BY <1>1, <4>2 DEF StepOK
    <3> QED BY <3>1, <3>2
  <2>8. acked \subseteq acked' /\ \A e \in Db \ {"host"} : schema[e].files \subseteq schema'[e].files
    BY <1>2, <2>1
  <2> QED BY <1>2, <2>4, <2>6, <2>7, <2>8, RestingShape, RestingOKNext, StepKeeps DEF Ends
<1> QED BY <1>2, <1>3, <1>4 DEF WriteState

-----------------------------------------------------------------------------
(* The row of the environment is changed                                   *)

LEMMA SwitchKeeps ==
  ASSUME ProvInv, NEW p \in Proc, SetEnvironmentDSN(p)
  PROVE  ProvInv'
<1>1. ProvTypeOK /\ StoredOK /\ HolesOK /\ proc \in [Proc -> ProcRecord]
  BY DEF ProvInv
<1>2. /\ Become(p, Resting) /\ UNCHANGED <<data, schema, acked>>
      /\ row' = [row EXCEPT !.db = "own", !.status = "ready"]
      /\ stray' = stray \cup LeftBehind("own")
  BY DEF SetEnvironmentDSN, Ends
<1>3. /\ data \in [Db -> SUBSET Write] /\ stray \subseteq acked /\ acked \subseteq Write /\ row.db \in Db
      /\ row \in [db : Db, status : {"ready", "provisioning", "failed"}, source : Db \cup {Nowhere}]
      /\ \A e \in Db : data[e] \subseteq acked
  BY <1>1 DEF ProvTypeOK, StoredOK
<1>4. /\ row' \in [db : Db, status : {"ready", "provisioning", "failed"}, source : Db \cup {Nowhere}]
      /\ row'.db = "own" /\ row'.source = row.source
  BY <1>2, <1>3 DEF Db
<1>5. LeftBehind("own") \subseteq acked
  BY <1>3 DEF LeftBehind
<1>6. ProvTypeOK' /\ HolesOK'
  BY <1>1, <1>2, <1>4, <1>5 DEF ProvTypeOK, HolesOK, Hole
<1>7. row.db # "own" => acked' \ stray' = {}
  BY <1>1, <1>2 DEF LeftBehind, StoredOK
<1>8. acked' \ stray' \subseteq acked \ stray
  BY <1>2
<1>9. StoredOK'
  BY <1>1, <1>2, <1>4, <1>7, <1>8 DEF StoredOK
<1>10. \A q \in Proc \ {p} : CopyOK(proc[q])'
  <2>1. CASE row.db = "own"
    BY <1>2, <1>4, <1>8, <2>1, RestingShape, CopiesKeep
  <2>2. CASE row.db # "own"
    BY <1>7, <2>2 DEF CopyOK
  <2> QED BY <2>1, <2>2
<1> QED BY <1>2, <1>6, <1>9, <1>10, RestingShape, RestingOKNext, StepKeeps

LEMMA CheckKeeps ==
  ASSUME ProvInv, NEW p \in Proc, CheckUpgrade(p)
  PROVE  ProvInv'
<1> DEFINE source == IF row.db = "default" THEN Nowhere ELSE row.db
           v == [Resting EXCEPT !.pc = "upgrading", !.source = source]
<1>1. Become(p, v) /\ UNCHANGED <<row, data, schema, acked, stray>>
  BY DEF CheckUpgrade
<1>2. row.db \in Db
  BY DEF ProvInv, ProvTypeOK
<1>3. source \in Db \cup {Nowhere} /\ source # "default"
  BY <1>2 DEF Nowhere
<1> HIDE DEF source
<1>4. v \in ProcRecord /\ v.pc = "upgrading" /\ v.then = Nowhere /\ v.source = source /\ v.dump = {}
  BY <1>3, RestingShape DEF ProcRecord, Resting
<1> HIDE DEF v
<1>5. StepOK(v) /\ CopyOK(v) /\ RunOK(v)
  BY <1>3, <1>4 DEF StepOK, CopyOK, RunOK, Migrating, Copying, Nowhere
<1> QED BY <1>1, <1>4, <1>5, QuietKeeps

(* The status and the source do not say which database holds the states.   *)
LEMMA RestatusKeeps ==
  ASSUME ProvInv, NEW p \in Proc, Ends(p), UNCHANGED <<data, schema, acked, stray>>,
         NEW st \in {"ready", "provisioning", "failed"},
         NEW source \in (Db \cup {Nowhere}) \ {"default"},
         row' = [row EXCEPT !.status = st, !.source = source]
  PROVE  ProvInv'
<1>1. ProvTypeOK /\ StoredOK /\ HolesOK /\ proc \in [Proc -> ProcRecord]
  BY DEF ProvInv
<1>2. Become(p, Resting)
  BY DEF Ends
<1>3. /\ row' \in [db : Db, status : {"ready", "provisioning", "failed"}, source : Db \cup {Nowhere}]
      /\ row'.db = row.db /\ row'.source = source
  BY <1>1 DEF ProvTypeOK
<1>4. ProvTypeOK' /\ HolesOK' /\ StoredOK'
  BY <1>1, <1>3 DEF ProvTypeOK, HolesOK, Hole, StoredOK
<1>5. \A q \in Proc \ {p} : CopyOK(proc[q])'
  BY <1>2, <1>3, RestingShape, CopiesKeep
<1> QED BY <1>2, <1>4, <1>5, RestingShape, RestingOKNext, StepKeeps

LEMMA RequestKeeps ==
  ASSUME ProvInv, NEW p \in Proc, RequestDedicatedUpgrade(p)
  PROVE  ProvInv'
<1>1. proc[p].source \in (Db \cup {Nowhere}) \ {"default"}
  BY DEF ProvInv, ProcRecord, StepOK
<1> QED BY <1>1, RestatusKeeps DEF RequestDedicatedUpgrade

LEMMA FailKeeps ==
  ASSUME ProvInv, NEW p \in Proc, FailDedicatedProvision(p)
  PROVE  ProvInv'
<1>1. row.source \in (Db \cup {Nowhere}) \ {"default"}
      /\ row \in [db : Db, status : {"ready", "provisioning", "failed"}, source : Db \cup {Nowhere}]
  BY DEF ProvInv, ProvTypeOK, StoredOK
<1>2. [row EXCEPT !.status = "failed"] = [row EXCEPT !.status = "failed", !.source = row.source]
  BY <1>1
<1>3. row' = [row EXCEPT !.status = "failed", !.source = row.source]
  BY <1>2 DEF FailDedicatedProvision
<1> QED BY <1>1, <1>3, RestatusKeeps DEF FailDedicatedProvision

-----------------------------------------------------------------------------
(* The worker's copy                                                       *)

LEMMA DumpKeeps ==
  ASSUME ProvInv, NEW p \in Proc, Dump(p)
  PROVE  ProvInv'
<1>0. PICK r : r = proc[p]
  OBVIOUS
<1>1. /\ ProvTypeOK /\ StoredOK /\ r \in ProcRecord /\ StepOK(r)
  BY <1>0 DEF ProvInv
<1>2. r.pc = "dumping" /\ UNCHANGED <<row, data, schema, acked, stray>>
  BY <1>0 DEF Dump, Doing
<1>3. r.then = "dumping" /\ r.db = "host" /\ r.source # "default" /\ r.source \in Db \cup {Nowhere}
      /\ r.dump \subseteq acked
  BY <1>1, <1>2 DEF StepOK, ProcRecord
<1>4. CASE r.source = Nowhere
  <2> DEFINE v == [r EXCEPT !.pc = "cutover"]
  <2>1. v \in ProcRecord /\ v.pc = "cutover" /\ v.then = r.then /\ v.db = r.db /\ v.source = r.source
        /\ v.dump = r.dump
    BY <1>1 DEF ProcRecord
  <2>2. Become(p, v)
    BY <1>0, <1>4 DEF Dump
  <2> HIDE DEF v
  <2>3. r.source # row.db
    BY <1>1, <1>4 DEF ProvTypeOK, Db, Nowhere
  <2>4. StepOK(v) /\ CopyOK(v) /\ RunOK(v)
    BY <1>3, <2>1, <2>3 DEF StepOK, CopyOK, RunOK, Migrating, Copying
  <2> QED BY <1>2, <2>1, <2>2, <2>4, QuietKeeps
<1>5. CASE r.source # Nowhere
  <2> DEFINE v == [r EXCEPT !.pc = "restoring", !.dump = data[r.source], !.dumped = schema[r.source]]
  <2>1. data[r.source] \in SUBSET Write /\ schema[r.source] \in SchemaRecord
        /\ data[r.source] \subseteq acked
    BY <1>1, <1>3, <1>5 DEF ProvTypeOK, StoredOK, SchemaRecord
  <2>2. v \in ProcRecord /\ v.pc = "restoring" /\ v.then = r.then /\ v.db = r.db /\ v.source = r.source
        /\ v.dump = data[r.source]
    BY <1>1, <2>1 DEF ProcRecord
  <2>3. Become(p, v)
    BY <1>0, <1>5 DEF Dump
  <2> HIDE DEF v
  <2>4. StepOK(v) /\ CopyOK(v) /\ RunOK(v)
    BY <1>1, <1>3, <1>5, <2>1, <2>2 DEF StepOK, CopyOK, RunOK, Migrating, Copying, StoredOK
  <2> QED BY <1>2, <2>2, <2>3, <2>4, QuietKeeps
<1> QED BY <1>4, <1>5

LEMMA CleanKeeps ==
  ASSUME ProvInv, NEW p \in Proc, RestoreClean(p)
  PROVE  ProvInv'
<1>0. PICK r : r = proc[p]
  OBVIOUS
<1> DEFINE v == [r EXCEPT !.pc = "loading"]
<1>1. /\ ProvTypeOK /\ StoredOK /\ HolesOK /\ proc \in [Proc -> ProcRecord]
      /\ r \in ProcRecord /\ StepOK(r) /\ CopyOK(r)
      /\ \A q \in Proc : StepOK(proc[q]) /\ CopyOK(proc[q])
  BY <1>0 DEF ProvInv
<1>2. /\ r.pc = "restoring" /\ Become(p, v) /\ UNCHANGED <<row, acked>>
      /\ data' = [data EXCEPT !["host"] = {}] /\ schema' = [schema EXCEPT !["host"] = Bare]
      /\ stray' = stray \cup AtRisk(p)
  BY <1>0 DEF RestoreClean, Doing
<1>3. /\ data \in [Db -> SUBSET Write] /\ stray \subseteq acked /\ acked \subseteq Write /\ row.db \in Db
      /\ schema \in [Db -> SchemaRecord] /\ \A e \in Db : data[e] \subseteq acked
      /\ "host" \in Db
  BY <1>1 DEF ProvTypeOK, StoredOK, SchemaRecord, Db
<1>4. /\ data' \in [Db -> SUBSET Write] /\ data'["host"] = {}
      /\ schema' \in [Db -> SchemaRecord]
      /\ \A e \in Db \ {"host"} : data'[e] = data[e] /\ schema'[e] = schema[e]
  BY <1>2, <1>3 DEF SchemaRecord, Bare
<1>5. r.dump \subseteq acked /\ r.then = "dumping" /\ r.source # Nowhere /\ r.source # "default"
      /\ r.db = "host"
  BY <1>1, <1>2 DEF StepOK, Copying
<1>6. AtRisk(p) \subseteq acked
  BY <1>0, <1>3, <1>5 DEF AtRisk
<1>7. row.db = "host" \/ (\E q \in Proc \ {p} : proc[q].then = "dumping")
        => data["host"] \subseteq stray'
  BY <1>2 DEF AtRisk
<1>8. ProvTypeOK' /\ HolesOK'
  BY <1>1, <1>2, <1>3, <1>4, <1>6 DEF ProvTypeOK, HolesOK, Hole, SchemaRecord
<1>9. StoredOK'
  <2>1. acked \ stray \subseteq data[row.db]
    BY <1>1 DEF StoredOK
  <2>2. (acked \ stray)' \subseteq data'[row.db]
    BY <1>2, <1>3, <1>4, <1>7, <2>1
  <2>3. \A e \in Db : data'[e] \subseteq acked'
    BY <1>2, <1>3, <1>4
  <2> QED BY <1>1, <1>2, <2>2, <2>3 DEF StoredOK
<1>10. v \in ProcRecord /\ v.pc = "loading" /\ v.then = r.then /\ v.db = r.db /\ v.source = r.source
       /\ v.dump = r.dump
  BY <1>1 DEF ProcRecord
<1> HIDE DEF v
<1>11. StepOK(v)' /\ CopyOK(v)' /\ RunOK(v)'
  BY <1>1, <1>2, <1>5, <1>10 DEF StepOK, CopyOK, RunOK, Migrating, Copying
<1>12. \A q \in Proc \ {p} : CopyOK(proc[q])'
  <2> SUFFICES ASSUME NEW q \in Proc \ {p} PROVE CopyOK(proc[q])'
    OBVIOUS
  <2>1. proc'[q] = proc[q] /\ StepOK(proc[q]) /\ CopyOK(proc[q])
    BY <1>1, <1>2 DEF Become
  <2>2. proc[q].pc = "cutover" => data["host"] \subseteq stray'
    BY <1>7, <2>1 DEF StepOK, Copying
  <2> QED BY <1>2, <2>1, <2>2 DEF CopyOK
<1>13. acked \subseteq acked' /\ \A e \in Db \ {"host"} : schema[e].files \subseteq schema'[e].files
  BY <1>2, <1>4
<1> QED BY <1>2, <1>8, <1>9, <1>10, <1>11, <1>12, <1>13, StepKeeps

LEMMA LoadKeeps ==
  ASSUME ProvInv, NEW p \in Proc, RestoreLoad(p)
  PROVE  ProvInv'
<1>0. PICK r : r = proc[p]
  OBVIOUS
<1> DEFINE v == [r EXCEPT !.pc = "cutover"]
<1>1. /\ ProvTypeOK /\ StoredOK /\ HolesOK /\ proc \in [Proc -> ProcRecord]
      /\ r \in ProcRecord /\ StepOK(r) /\ CopyOK(r)
  BY <1>0 DEF ProvInv
<1>2. /\ r.pc = "loading" /\ Become(p, v) /\ UNCHANGED <<row, acked, stray>>
      /\ data' = [data EXCEPT !["host"] = @ \cup r.dump]
      /\ schema' = [schema EXCEPT !["host"] = r.dumped]
  BY <1>0 DEF RestoreLoad, Doing
<1>3. /\ data \in [Db -> SUBSET Write] /\ schema \in [Db -> SchemaRecord]
      /\ r.dump \in SUBSET Write /\ r.dumped \in SchemaRecord /\ "host" \in Db
  BY <1>1 DEF ProvTypeOK, SchemaRecord, Db, ProcRecord
<1>4. /\ data' \in [Db -> SUBSET Write] /\ data'["host"] = data["host"] \cup r.dump
      /\ schema' \in [Db -> SchemaRecord]
      /\ \A e \in Db \ {"host"} : data'[e] = data[e] /\ schema'[e] = schema[e]
  BY <1>2, <1>3
<1>5. r.dump \subseteq acked /\ r.then = "dumping" /\ r.source # "default" /\ r.db = "host"
  BY <1>1, <1>2 DEF StepOK, Copying
<1>6. ProvTypeOK' /\ HolesOK' /\ StoredOK'
  BY <1>1, <1>2, <1>3, <1>4, <1>5 DEF ProvTypeOK, HolesOK, Hole, SchemaRecord, StoredOK
<1>7. v \in ProcRecord /\ v.pc = "cutover" /\ v.then = r.then /\ v.db = r.db /\ v.source = r.source
      /\ v.dump = r.dump
  BY <1>1 DEF ProcRecord
<1> HIDE DEF v
<1>8. StepOK(v)' /\ CopyOK(v)' /\ RunOK(v)'
  BY <1>1, <1>2, <1>4, <1>5, <1>7 DEF StepOK, CopyOK, RunOK, Migrating, Copying
<1>9. \A q \in Proc \ {p} : CopyOK(proc[q])'
  BY <1>2, <1>4, <1>7, CopiesKeep
<1>10. acked \subseteq acked' /\ \A e \in Db \ {"host"} : schema[e].files \subseteq schema'[e].files
  BY <1>2, <1>4
<1> QED BY <1>2, <1>6, <1>7, <1>8, <1>9, <1>10, StepKeeps

LEMMA CompleteKeeps ==
  ASSUME ProvInv, NEW p \in Proc, CompleteDedicatedProvision(p)
  PROVE  ProvInv'
<1>1. /\ ProvTypeOK /\ StoredOK /\ HolesOK /\ proc \in [Proc -> ProcRecord] /\ CopyOK(proc[p])
  BY DEF ProvInv
<1>2. /\ proc[p].pc = "cutover" /\ Become(p, Resting) /\ UNCHANGED <<data, schema, acked>>
      /\ row' = [db |-> "host", status |-> "ready", source |-> Nowhere]
      /\ stray' = IF proc[p].source = row.db THEN stray ELSE stray \cup LeftBehind("host")
  BY DEF CompleteDedicatedProvision, Doing, Ends
<1>3. row.db \in Db /\ \A e \in Db : data[e] \subseteq acked
  BY <1>1 DEF ProvTypeOK, StoredOK
<1>4. stray' \subseteq acked
  BY <1>1, <1>2, <1>3 DEF ProvTypeOK, LeftBehind
<1>5. ProvTypeOK' /\ HolesOK'
  BY <1>1, <1>2, <1>4 DEF ProvTypeOK, HolesOK, Hole, Db
<1>6. acked \ stray' \subseteq data["host"]
  BY <1>1, <1>2 DEF StoredOK, CopyOK, LeftBehind
<1>7. StoredOK'
  BY <1>1, <1>2, <1>6 DEF StoredOK, Nowhere
<1>8. \A q \in Proc \ {p} : CopyOK(proc[q])'
  BY <1>2 DEF CopyOK
<1> QED BY <1>2, <1>5, <1>7, <1>8, RestingShape, RestingOKNext, StepKeeps

-----------------------------------------------------------------------------
(* Runs that return                                                        *)

(* A run that finds nothing to do returns at once: all that is listed is   *)
(* applied or a hole.                                                      *)
LEMMA NothingToDo ==
  ASSUME ProvInv, NEW p \in Proc, NEW d \in Db, NEW then \in {"migrated", "switching", "dumping"},
         NEW source, then = "dumping" => d = "host",
         Run(p, d, then, source), UNCHANGED schema, Returned(p), proc'[p].db # "host"
  PROVE  File \ Excused(p) \subseteq schema'[proc'[p].db].files
<1> DEFINE todo == File \ schema[d].listed
           hole == Hole(d) \cap Legacy
           pc   == IF todo = {} THEN then ELSE "migrating"
           v    == [Resting EXCEPT !.pc = pc, !.then = then, !.db = d, !.todo = todo,
                                   !.hole = hole, !.source = source]
<1>1. proc' = [proc EXCEPT ![p] = v] /\ proc \in [Proc -> ProcRecord] /\ HolesOK
      /\ schema[d] \in SchemaRecord
  BY DEF Run, Become, ProvInv, ProvTypeOK, SchemaRecord
<1>2. proc'[p] = v
  BY <1>1
<1>3. v.pc = pc /\ v.then = then /\ v.db = d /\ v.hole = hole
  BY DEF Resting
<1>4. todo = {}
  <2>1. pc = then
    BY <1>2, <1>3 DEF Returned
  <2> QED BY <2>1
<1> HIDE DEF v
<1>5. d # "host"
  BY <1>2, <1>3
<1>6. File \ hole \subseteq schema[d].files
  BY <1>1, <1>4, <1>5 DEF HolesOK, Hole, SchemaRecord
<1> HIDE DEF hole
<1> QED BY <1>2, <1>3, <1>6 DEF Excused

(* A run that records its last file has applied all but its holes.         *)
LEMMA LastRecorded ==
  ASSUME ProvInv, NEW p \in Proc, RecordFile(p), Returned(p), proc'[p].db # "host"
  PROVE  File \ Excused(p) \subseteq schema'[proc'[p].db].files
<1>0. PICK r : r = proc[p]
  OBVIOUS
<1> DEFINE m == LowestOf(r.todo)
           todo == r.todo \ {m}
           last == [r EXCEPT !.todo = {}, !.hole = {}, !.pc = r.then]
           more == [r EXCEPT !.todo = todo, !.pc = "migrating"]
           v == IF todo = {} THEN last ELSE more
<1>1. /\ ProvTypeOK /\ proc \in [Proc -> ProcRecord] /\ r \in ProcRecord /\ StepOK(r) /\ RunOK(r)
  BY <1>0 DEF ProvInv
<1>2. /\ r.pc = "recording" /\ Become(p, v)
      /\ schema' = [schema EXCEPT ![r.db].listed = @ \cup {m}]
  BY <1>0 DEF RecordFile, Recorded, Doing
<1>3. r.then \in {"migrated", "switching", "dumping"} /\ r.db \in Db
  BY <1>1, <1>2 DEF StepOK, Migrating, ProcRecord
<1>4. proc'[p] = v
  BY <1>1, <1>2 DEF Become
<1>5. last.pc = r.then /\ last.db = r.db /\ more.pc = "migrating" /\ more.then = r.then
  BY <1>1 DEF ProcRecord
<1>6. todo = {}
  <2> SUFFICES ASSUME todo # {} PROVE FALSE
    OBVIOUS
  <2>1. proc'[p] = more
    BY <1>4
  <2> HIDE DEF more
  <2> QED BY <1>3, <1>5, <2>1 DEF Returned
<1>7. proc'[p] = last
  BY <1>4, <1>6
<1> HIDE DEF last
<1>8. schema'[r.db].files = schema[r.db].files
  BY <1>1, <1>2, <1>3 DEF ProvTypeOK
<1>9. (File \ todo) \ r.hole \subseteq schema[r.db].files
  BY <1>1, <1>2, <1>5, <1>7 DEF RunOK, Migrating
<1> HIDE DEF todo
<1> QED BY <1>0, <1>5, <1>6, <1>7, <1>8, <1>9 DEF Excused

(* Nothing else is the return of a run.                                    *)
LEMMA ReturnsAreRuns ==
  ASSUME ProvInv, [ProvNext]_provVars, NEW p \in Proc, Returned(p)
  PROVE  \/ StartKld(p) \/ MigrateAllEnvironments(p) \/ RecordFile(p)
         \/ ProvisionEnvironment(p) \/ ListDedicatedProvisioning(p)
<1>1. proc \in [Proc -> ProcRecord]
  BY DEF ProvInv
<1>3. proc'[p] # proc[p]
  BY <1>1 DEF Returned, ProcRecord, Nowhere
<1>4. PICK q \in Proc : Migrate(q) \/ StoreFor(q) \/ WriteState(q) \/ Upgrade(q) \/ Work(q) \/ Dies(q)
  BY <1>3 DEF ProvNext, provVars
<1>5. \A v : Become(q, v) /\ q # p => proc'[p] = proc[p]
  BY <1>1 DEF Become
<1>6. \E v : Become(q, v)
  <2>1. CASE ApplyFile(q)
    BY <2>1 DEF ApplyFile
  <2>2. CASE RecordFile(q)
    BY <2>2 DEF RecordFile
  <2>3. CASE Dump(q)
    BY <2>3 DEF Dump
  <2>4. CASE RestoreClean(q) \/ RestoreLoad(q) \/ CompleteDedicatedProvision(q)
             \/ FailDedicatedProvision(q) \/ ListDedicatedProvisioning(q)
    BY <2>4 DEF RestoreClean, RestoreLoad, CompleteDedicatedProvision, FailDedicatedProvision,
                ListDedicatedProvisioning, Run, Ends
  <2>5. CASE StartKld(q) \/ MigrateAllEnvironments(q) \/ Migrated(q) \/ StoreFor(q) \/ Dies(q)
    BY <2>5 DEF StartKld, MigrateAllEnvironments, Migrated, StoreFor, Dies, Run, Ends
  <2>6. CASE WriteState(q)
    BY <2>6 DEF WriteState, Ends
  <2>7. CASE Upgrade(q)
    BY <2>7 DEF Upgrade, CheckUpgrade, RequestDedicatedUpgrade, ProvisionEnvironment, SetEnvironmentDSN,
                Run, Ends
  <2> QED BY <1>4, <2>1, <2>2, <2>3, <2>4, <2>5, <2>6, <2>7 DEF Migrate, Work
<1>7. q = p
  BY <1>3, <1>5, <1>6
<1>8. proc[p].pc \in {"idle", "recording"}
  BY DEF Returned
<1>9. ~ Ends(p)
  BY <1>1 DEF Ends, Become, Resting, Returned, Nowhere
<1>10. ~ StoreFor(p) /\ ~ CheckUpgrade(p)
  BY <1>1 DEF StoreFor, CheckUpgrade, Become, Resting, Returned, Nowhere
<1> QED
  BY <1>4, <1>7, <1>8, <1>9, <1>10
     DEF Migrate, Upgrade, Work, Doing, ApplyFile, Migrated, WriteState, Dies, RequestDedicatedUpgrade,
         SetEnvironmentDSN, Dump, RestoreClean, RestoreLoad, CompleteDedicatedProvision, FailDedicatedProvision

-----------------------------------------------------------------------------
(* Theorems                                                                *)

LEMMA ProvStarts == ASSUME ProvInit PROVE ProvInv
<1>1. /\ data = [d \in Db |-> {}] /\ proc = [p \in Proc |-> Resting] /\ acked = {} /\ stray = {}
      /\ schema = [d \in Db |-> IF d \in {"default", row.db} THEN Whole ELSE Bare]
  BY DEF ProvInit, Fresh
<1>2. Whole \in SchemaRecord /\ Bare \in SchemaRecord
  BY DEF Whole, Bare, SchemaRecord
<1>3. row \in [db : Db, status : {"ready", "provisioning", "failed"}, source : Db \cup {Nowhere}]
      /\ row.source = Nowhere
  BY DEF ProvInit, NewRow, Db
<1>4. ProvTypeOK
  BY <1>1, <1>2, <1>3 DEF ProvTypeOK, SchemaRecord
<1>5. StoredOK
  BY <1>1, <1>3 DEF StoredOK, Nowhere
<1>6. HolesOK
  BY <1>1 DEF HolesOK, Hole, Whole, Bare
<1>7. proc \in [Proc -> ProcRecord] /\ \A p \in Proc : StepOK(proc[p]) /\ CopyOK(proc[p]) /\ RunOK(proc[p])
  BY <1>1, RestingShape, RestingOK
<1> QED BY <1>4, <1>5, <1>6, <1>7 DEF ProvInv

LEMMA ProvKeeps == ASSUME ProvInv, [ProvNext]_provVars PROVE ProvInv'
<1>1. CASE UNCHANGED provVars
  BY <1>1 DEF provVars, ProvInv, ProvTypeOK, StoredOK, HolesOK, Hole, StepOK, CopyOK, RunOK, Migrating, Copying
<1>2. CASE ProvNext
  <2> SUFFICES ASSUME NEW p \in Proc,
                      Migrate(p) \/ StoreFor(p) \/ WriteState(p) \/ Upgrade(p) \/ Work(p) \/ Dies(p)
               PROVE  ProvInv'
    BY <1>2 DEF ProvNext
  <2>1. row.db \in Db /\ row.source \in (Db \cup {Nowhere}) \ {"default"}
    BY DEF ProvInv, ProvTypeOK, StoredOK
  <2>2. "own" \in Db /\ "host" \in Db /\ Nowhere \in (Db \cup {Nowhere}) \ {"default"}
    BY DEF Db, Nowhere
  <2>3. CASE Migrate(p)
    BY <2>3, MigrateKeeps
  <2>4. CASE StoreFor(p)
    BY <2>4, ResolveKeeps
  <2>5. CASE WriteState(p)
    BY <2>5, WriteKeeps
  <2>6. CASE Upgrade(p)
    <3>1. CASE ProvisionEnvironment(p)
      BY <2>2, <3>1, RunKeeps DEF ProvisionEnvironment
    <3> QED BY <2>6, <3>1, CheckKeeps, RequestKeeps, SwitchKeeps DEF Upgrade
  <2>7. CASE Work(p)
    <3>1. CASE ListDedicatedProvisioning(p)
      BY <2>1, <2>2, <3>1, RunKeeps DEF ListDedicatedProvisioning
    <3> QED BY <2>7, <3>1, DumpKeeps, CleanKeeps, LoadKeeps, CompleteKeeps, FailKeeps DEF Work
  <2>8. CASE Dies(p)
    BY <2>8, EndKeeps DEF Dies
  <2> QED BY <2>3, <2>4, <2>5, <2>6, <2>7, <2>8
<1> QED BY <1>1, <1>2

(* Through any interleaving of requests, upgrades, workers, migration runs *)
(* and deaths, the databases, the row and the copies under way fit.        *)
THEOREM ProvisioningSafe == ProvSpec => []ProvInv
<1>1. ProvInit => ProvInv
  BY ProvStarts
<1>2. ProvInv /\ [ProvNext]_provVars => ProvInv'
  BY ProvKeeps
<1> QED BY <1>1, <1>2, PTL DEF ProvSpec

(* What a client was told is stored is readable wherever kld routes it     *)
(* now, but for the gaps Provisioning marks: for any number of processes,  *)
(* writes and migrations.                                                  *)
THEOREM CutoversComplete == ProvSpec => []CutoverComplete
<1>1. ProvInv => CutoverComplete
  BY DEF ProvInv, CutoverComplete, StoredOK
<1> QED BY <1>1, ProvisioningSafe, PTL

(* A migration run that returns leaves every file applied but those that   *)
(* the baseline had recorded without applying when the run began.          *)
THEOREM RunsLeaveSchemasWhole == ProvSpec => RunLeavesSchemaWhole
<1>1. ASSUME ProvInv, [ProvNext]_provVars, NEW p \in Proc, Returned(p), proc'[p].db # "host"
      PROVE  File \ Excused(p) \subseteq schema'[proc'[p].db].files
  <2>1. row.db \in Db /\ "default" \in Db /\ "own" \in Db /\ "host" \in Db
    BY <1>1 DEF ProvInv, ProvTypeOK, Db
  <2>2. CASE StartKld(p)
    BY <1>1, <2>1, <2>2, NothingToDo DEF StartKld
  <2>3. CASE MigrateAllEnvironments(p)
    BY <1>1, <2>1, <2>3, NothingToDo DEF MigrateAllEnvironments
  <2>4. CASE ProvisionEnvironment(p)
    BY <1>1, <2>1, <2>4, NothingToDo DEF ProvisionEnvironment
  <2>5. CASE ListDedicatedProvisioning(p)
    BY <1>1, <2>1, <2>5, NothingToDo DEF ListDedicatedProvisioning
  <2>6. CASE RecordFile(p)
    BY <1>1, <2>6, LastRecorded
  <2> QED BY <1>1, <2>2, <2>3, <2>4, <2>5, <2>6, ReturnsAreRuns
<1>2. ProvInv /\ [ProvNext]_provVars => [\A p \in Proc : Returned(p) /\ proc'[p].db # "host"
        => File \ Excused(p) \subseteq schema'[proc'[p].db].files]_provVars
  BY <1>1
<1> QED BY <1>2, ProvisioningSafe, PTL DEF ProvSpec, RunLeavesSchemaWhole

-----------------------------------------------------------------------------
(* Ownership transfers                                                     *)

StateRow == [ws : Tenant, env : Env, name : Name, doc : Content]
RequestRecord ==
  [pc : {"idle", "creating", "issuing", "writing", "proposing", "accepting", "accepted", "moving"},
   tenant : Tenant \cup {None}, env : Env \cup {None}, slug : Labels \cup {None},
   target : Tenant \cup {None}, prop : Proposal \cup {None}, moving : SUBSET StateRow]

Owns(t, e)   == Exists(e) /\ envs[e].owner = t
Rehoming(r)  == req[r].pc \in {"accepted", "moving"}
Undecided(p) == proposals[p].status = "pending"

(* What a request knows of the tables at each point.                       *)
Shape(r) ==
  LET q == req[r] IN
  /\ q.pc # "idle" => q.tenant \in Tenant
  /\ q.pc = "creating" => q.slug \in Slug
  /\ q.pc \in {"issuing", "writing"} => q.env \in Env /\ Owns(q.tenant, q.env)
  /\ q.pc = "proposing" => /\ q.env \in Env /\ Owns(q.tenant, q.env) /\ q.slug = envs[q.env].slug
                           /\ q.target \in Tenant /\ q.target # q.tenant /\ Pending(q.env) = {}
  /\ q.pc = "accepting" => /\ q.env \in Env /\ q.prop \in Proposal /\ proposals[q.prop] # NoProposal
                           /\ q.tenant = proposals[q.prop].source /\ q.target = proposals[q.prop].target
                           /\ Undecided(q.prop) => q.env = proposals[q.prop].env
  /\ Rehoming(r) => /\ q.env \in Env /\ q.target \in Tenant /\ q.target # q.tenant
                    /\ Owns(q.target, q.env) /\ Pending(q.env) = {}
                    /\ \A s \in states : s.env = q.env => s.ws = q.tenant
  /\ q.pc = "moving" => q.moving = StatesOf(q.tenant, q.env)

TypeInv == TransfersTypeOK /\ req \in [Request -> RequestRecord]

(* An id is the label of its own environment only: the one archiving gives *)
(* can never stand in the way of another environment.                      *)
LabelInv == \A e \in Env : envs[e].slug \in Env => envs[e].slug = e

(* Proposals are made one at a time and an environment moves by one request*)
(* at a time; nobody writes while a transfer is under way.                 *)
RequestsInv ==
  /\ \A r \in Request : Shape(r)
  /\ \A r, s \in Request : At(r, "proposing") /\ At(s, "proposing") => r = s
  /\ \A r, s \in Request : Rehoming(r) /\ Rehoming(s) /\ req[r].env = req[s].env => r = s
  /\ \A r, s \in Request : Rehoming(r) /\ At(s, "proposing") => req[r].env # req[s].env
  /\ ~ (Accepting /\ Writing)

(* An undecided proposal is still true, and the only one for its           *)
(* environment.                                                            *)
ProposalsInv ==
  /\ \A p \in Proposal : Undecided(p) =>
       /\ Owns(proposals[p].source, proposals[p].env)
       /\ proposals[p].name = envs[proposals[p].env].slug
       /\ proposals[p].source # proposals[p].target
  /\ \A p, q \in Proposal : Undecided(p) /\ Undecided(q) /\ proposals[p].env = proposals[q].env => p = q

(* A state lies under the owner of its environment unless it is about to   *)
(* be moved there.                                                         *)
StatesInv ==
  \A s \in states :
    /\ Exists(s.env)
    /\ s.ws = envs[s.env].owner \/ \E r \in Request : Rehoming(r) /\ req[r].env = s.env

(* A token always names the owner of its environment.                      *)
TokensInv == \A k \in Token : tokens[k] # NoToken => Owns(tokens[k].tenant, tokens[k].env)

(* The inductive invariant.                                                *)
TransfersInv ==
  /\ TypeInv /\ LabelInv /\ RequestsInv /\ ProposalsInv /\ StatesInv /\ TokensInv

-----------------------------------------------------------------------------
(* Lemmas                                                                  *)

tables == <<tenants, envs, states, tokens, proposals, churn>>

(* An environment or a token that exists has typed fields.                 *)
LEMMA Fields ==
  ASSUME TypeInv
  PROVE  /\ \A e \in Env : Exists(e) <=> envs[e].owner \in Tenant
         /\ \A e \in Env : Exists(e) => envs[e] \in [owner : Tenant, slug : Labels, status : Lifecycle]
         /\ \A e \in Env : envs[e].status \in Lifecycle => Exists(e)
         /\ \A k \in Token : tokens[k] # NoToken =>
              tokens[k] \in [tenant : Tenant, env : Env, status : OnOff]
         /\ \A p \in Proposal : proposals[p] # NoProposal =>
              proposals[p] \in [env : Env, name : Labels, source : Tenant, target : Tenant,
                                status : {"pending", "accepted", "rejected", "cancelled"}]
         /\ \A p \in Proposal : Undecided(p) => proposals[p] # NoProposal
BY TransferAssumption DEF TypeInv, TransfersTypeOK, Exists, NoEnv, NoToken, NoProposal, None, Undecided,
   Lifecycle

(* A request that goes on by itself.                                       *)
LEMMA RequestGoesOn ==
  ASSUME TransfersInv, NEW r \in Request, NEW q \in RequestRecord, Set(r, q), UNCHANGED tables,
         Shape(r)',
         q.pc = "proposing" => /\ \A s \in Request : ~ At(s, "proposing")
                               /\ \A s \in Request : ~ Rehoming(s),
         q.pc \in {"accepted", "moving"} => Rehoming(r) /\ q.env = req[r].env,
         Rehoming(r) /\ q.pc \notin {"accepted", "moving"} =>
           \A s \in states : s.env = req[r].env => s.ws = envs[s.env].owner,
         ~ (Accepting' /\ Writing')
  PROVE  TransfersInv'
<1>1. /\ req' \in [Request -> RequestRecord] /\ req'[r] = q
      /\ \A s \in Request \ {r} : req'[s] = req[s]
  BY DEF TransfersInv, TypeInv, Set
<1>2. TypeInv' /\ LabelInv' /\ ProposalsInv' /\ TokensInv'
  BY <1>1 DEF TransfersInv, TypeInv, TransfersTypeOK, LabelInv, ProposalsInv, TokensInv, tables, Exists,
              Undecided, Owns
<1>3. \A s \in Request : Shape(s)'
  <2> SUFFICES ASSUME NEW s \in Request, s # r
               PROVE  Shape(s)'
    OBVIOUS
  <2>1. Shape(s)
    BY DEF TransfersInv, RequestsInv
  <2> QED
    BY <1>1, <2>1 DEF Shape, tables, Owns, Exists, Pending, Rehoming, Undecided, StatesOf
<1>4. RequestsInv'
  BY <1>1, <1>3 DEF TransfersInv, RequestsInv, Rehoming, At
<1>5. StatesInv'
  <2> SUFFICES ASSUME NEW s \in states
               PROVE  /\ Exists(s.env)
                      /\ s.ws = envs[s.env].owner \/ \E t \in Request : Rehoming(t)' /\ req'[t].env = s.env
    BY DEF StatesInv, tables, Exists
  <2>1. /\ Exists(s.env)
        /\ s.ws = envs[s.env].owner \/ \E t \in Request : Rehoming(t) /\ req[t].env = s.env
    BY DEF TransfersInv, StatesInv
  <2> QED
    BY <1>1, <2>1 DEF Rehoming
<1> QED
  BY <1>2, <1>4, <1>5 DEF TransfersInv

(* Tables that no invariant is about.                                      *)
LEMMA TenantsChange ==
  ASSUME TransfersInv, tenants' \in [Tenant -> OnOff], UNCHANGED <<envs, states, tokens, proposals, req>>
  PROVE  TransfersInv'
<1>1. TypeInv'
  BY DEF TransfersInv, TypeInv, TransfersTypeOK, Exists
<1>2. RequestsInv'
  BY DEF TransfersInv, RequestsInv, Shape, Owns, Exists, Pending, Rehoming, Undecided, StatesOf, At,
         Accepting, Writing
<1> QED
  BY <1>1, <1>2 DEF TransfersInv, LabelInv, ProposalsInv, StatesInv, TokensInv, Owns, Exists, Undecided,
                    Rehoming

-----------------------------------------------------------------------------
(* Environments                                                            *)

(* An environment nobody transfers gets a label and a status; its owner    *)
(* stays, and so do the tokens but for their status.                       *)
LEMMA RelabelWell ==
  ASSUME TransfersInv, NEW e \in Env, ~ OnOffer(e), Relabel(e)
  PROVE  TransfersInv' /\ \A f \in Env : envs'[f].owner = envs[f].owner
<1>1. Exists(e) /\ envs[e] \in [owner : Tenant, slug : Labels, status : Lifecycle]
  BY Fields DEF Relabel, RenameEnvironment, SetEnvironmentLifecycleStatus, DeleteEnvironment, TransfersInv
<1>2. PICK l \in Labels, st \in Lifecycle :
        /\ envs' = [envs EXCEPT ![e].slug = l, ![e].status = st]
        /\ l = e \/ l = envs[e].slug \/ (l \in Slug /\ SlugFree(envs[e].owner, l))
  <2>1. CASE \E s \in Slug : RenameEnvironment(e, s)
    <3>1. PICK s \in Slug : RenameEnvironment(e, s)
      BY <2>1
    <3>2. envs' = [envs EXCEPT ![e].slug = s, ![e].status = envs[e].status]
      BY <1>1, <3>1 DEF RenameEnvironment, TransfersInv, TypeInv, TransfersTypeOK
    <3> QED
      BY <1>1, <3>1, <3>2 DEF RenameEnvironment, Labels
  <2>2. CASE \E l \in Lifecycle : SetEnvironmentLifecycleStatus(e, l)
    <3>1. PICK l \in Lifecycle : SetEnvironmentLifecycleStatus(e, l)
      BY <2>2
    <3>2. envs' = [envs EXCEPT ![e].slug = IF l = "archived" THEN e ELSE envs[e].slug, ![e].status = l]
      BY <1>1, <3>1 DEF SetEnvironmentLifecycleStatus, TransfersInv, TypeInv, TransfersTypeOK, Archived
    <3> QED
      BY <1>1, <3>1, <3>2 DEF Labels
  <2>3. CASE DeleteEnvironment(e)
    <3>1. envs' = [envs EXCEPT ![e].slug = e, ![e].status = "archived"]
      BY <1>1, <2>3 DEF DeleteEnvironment, TransfersInv, TypeInv, TransfersTypeOK, Archived
    <3> QED
      BY <1>1, <3>1 DEF Labels, Lifecycle
  <2> QED
    BY <2>1, <2>2, <2>3 DEF Relabel
<1>3. UNCHANGED <<tenants, states, proposals, req>>
  BY DEF Relabel, RenameEnvironment, SetEnvironmentLifecycleStatus, DeleteEnvironment
<1>4. /\ tokens' \in [Token -> [tenant : Tenant, env : Env, status : OnOff] \cup {NoToken}]
      /\ \A k \in Token : tokens'[k] # NoToken =>
           tokens[k] # NoToken /\ tokens'[k].tenant = tokens[k].tenant /\ tokens'[k].env = tokens[k].env
  <2>1. CASE UNCHANGED tokens
    BY <2>1 DEF TransfersInv, TypeInv, TransfersTypeOK
  <2>2. CASE DeleteEnvironment(e)
    <3>1. \A k \in Token : tokens[k].env = e => tokens[k] # NoToken
      BY TransferAssumption DEF NoToken
    <3>2. tokens' = [k \in Token |-> IF tokens[k].env = e THEN [tokens[k] EXCEPT !.status = "inactive"]
                                     ELSE tokens[k]]
      BY <2>2 DEF DeleteEnvironment
    <3>3. \A k \in Token : tokens[k] # NoToken =>
            /\ tokens[k] \in [tenant : Tenant, env : Env, status : OnOff]
            /\ [tokens[k] EXCEPT !.status = "inactive"] \in [tenant : Tenant, env : Env, status : OnOff]
            /\ [tokens[k] EXCEPT !.status = "inactive"].tenant = tokens[k].tenant
            /\ [tokens[k] EXCEPT !.status = "inactive"].env = tokens[k].env
      BY Fields DEF TransfersInv, OnOff
    <3> QED
      BY <3>1, <3>2, <3>3
  <2> QED
    BY <2>1, <2>2 DEF Relabel, RenameEnvironment, SetEnvironmentLifecycleStatus
<1>5. /\ envs' \in [Env -> [owner : Tenant, slug : Labels, status : Lifecycle] \cup {NoEnv}]
      /\ \A f \in Env : envs'[f].owner = envs[f].owner /\ (Exists(f)' <=> Exists(f))
      /\ \A f \in Env \ {e} : envs'[f] = envs[f]
      /\ envs'[e].slug = l
  <2>1. envs' \in [Env -> [owner : Tenant, slug : Labels, status : Lifecycle] \cup {NoEnv}]
    BY <1>1, <1>2 DEF TransfersInv, TypeInv, TransfersTypeOK
  <2>2. /\ \A f \in Env \ {e} : envs'[f] = envs[f]
        /\ envs'[e].slug = l /\ envs'[e].owner = envs[e].owner /\ envs[e].owner \in Tenant
    BY <1>1, <1>2 DEF TransfersInv, TypeInv, TransfersTypeOK
  <2>3. Exists(e)'
    BY <2>2, TransferAssumption DEF Exists, NoEnv
  <2> QED
    BY <1>1, <2>1, <2>2, <2>3 DEF Exists
<1>6. \A f, g \in Env : (Exists(f)' /\ envs'[f].owner = envs'[g].owner /\ envs'[f].slug = envs'[g].slug)
        => f = g
  <2>1. \A f \in Env \ {e} : envs[f].owner = envs[e].owner => envs[f].slug # l
    BY <1>1, <1>2, Fields DEF TransfersInv, TypeInv, TransfersTypeOK, LabelInv, SlugFree, Exists
  <2> QED
    BY <1>1, <1>5, <2>1 DEF TransfersInv, TypeInv, TransfersTypeOK
<1>7. TypeInv' /\ LabelInv'
  <2>1. TransfersTypeOK'
    BY <1>3, <1>4, <1>5, <1>6 DEF TransfersInv, TypeInv, TransfersTypeOK
  <2>2. LabelInv'
    BY <1>1, <1>2, <1>5, TransferAssumption DEF TransfersInv, LabelInv
  <2> QED
    BY <1>3, <2>1, <2>2 DEF TypeInv, TransfersInv
<1>8. RequestsInv'
  <2>1. \A r \in Request : Shape(r)'
    <3> SUFFICES ASSUME NEW r \in Request
                 PROVE  Shape(r)'
      OBVIOUS
    <3>1. Shape(r) /\ (req[r].pc = "proposing" => req[r].env # e)
      BY DEF TransfersInv, RequestsInv, OnOffer
    <3> QED
      BY <1>3, <1>5, <3>1 DEF Shape, Owns, Pending, Rehoming, Undecided, StatesOf
  <2> QED
    BY <1>3, <2>1 DEF TransfersInv, RequestsInv, Rehoming, At, Accepting, Writing
<1>9. ProposalsInv'
  <2>1. \A p \in Proposal : Undecided(p) => proposals[p].env # e /\ proposals[p].env \in Env
    BY Fields DEF OnOffer, Pending, Undecided, TransfersInv
  <2> QED
    BY <1>3, <1>5, <2>1 DEF TransfersInv, ProposalsInv, Undecided, Owns
<1>10. StatesInv'
  BY <1>3, <1>5 DEF TransfersInv, StatesInv, Rehoming, TypeInv, TransfersTypeOK
<1>11. TokensInv'
  BY <1>4, <1>5, Fields DEF TransfersInv, TokensInv, Owns
<1> QED
  BY <1>5, <1>7, <1>8, <1>9, <1>10, <1>11 DEF TransfersInv

(* A new environment: nothing refers to its id yet.                        *)
LEMMA InsertEnvWell ==
  ASSUME TransfersInv, NEW r \in Request, InsertEnv(r)
  PROVE  TransfersInv' /\ \A f \in Env : Exists(f) => envs'[f].owner = envs[f].owner
<1>1. Idle \in RequestRecord
  BY DEF Idle, RequestRecord
<1>2. Shape(r)' /\ ~ (Accepting' /\ Writing')
  BY <1>1 DEF InsertEnv, Return, Set, Shape, Rehoming, Idle, TransfersInv, TypeInv, RequestsInv, Accepting,
              Writing, RequestRecord
<1>3. CASE UNCHANGED envs
  <2>1. UNCHANGED tables /\ Set(r, Idle)
    BY <1>3 DEF InsertEnv, Return, tables
  <2> QED
    BY <1>1, <1>2, <1>3, <2>1, RequestGoesOn DEF Idle, Rehoming, InsertEnv, At
<1>4. CASE envs' # envs
  <2> DEFINE t == req[r].tenant
             s == req[r].slug
             new == [owner |-> t, slug |-> s, status |-> "active"]
  <2>1. PICK e \in Env : ~ Exists(e) /\ SlugFree(t, s) /\ envs' = [envs EXCEPT ![e] = new]
    BY <1>4 DEF InsertEnv
  <2>2. t \in Tenant /\ s \in Slug
    BY DEF InsertEnv, At, TransfersInv, RequestsInv, Shape
  <2> HIDE DEF t, s
  <2>3. UNCHANGED <<tenants, states, tokens, proposals>> /\ Set(r, Idle)
    BY DEF InsertEnv, Return
  <2>4. /\ req' \in [Request -> RequestRecord] /\ req'[r] = Idle
        /\ \A u \in Request \ {r} : req'[u] = req[u]
    BY <1>1, <2>3 DEF TransfersInv, TypeInv, Set
  <2>5. /\ \A f \in Env \ {e} : envs'[f] = envs[f] /\ (Exists(f)' <=> Exists(f))
        /\ envs'[e] = new /\ Exists(e)'
        /\ \A f \in Env : Exists(f) => f # e
    BY <2>1, <2>2, TransferAssumption DEF TransfersInv, TypeInv, TransfersTypeOK, Exists, NoEnv
  <2>6. TypeInv' /\ LabelInv'
    <3>1. envs' \in [Env -> [owner : Tenant, slug : Labels, status : Lifecycle] \cup {NoEnv}]
      BY <2>1, <2>2 DEF TransfersInv, TypeInv, TransfersTypeOK, Labels, Lifecycle
    <3>2. \A f, g \in Env : (Exists(f)' /\ envs'[f].owner = envs'[g].owner /\ envs'[f].slug = envs'[g].slug)
            => f = g
      BY <2>1, <2>5 DEF TransfersInv, TypeInv, TransfersTypeOK, SlugFree
    <3>3. TransfersTypeOK'
      BY <2>3, <3>1, <3>2 DEF TransfersInv, TypeInv, TransfersTypeOK
    <3>4. LabelInv'
      BY <2>2, <2>5, TransferAssumption DEF TransfersInv, LabelInv
    <3> QED
      BY <2>4, <3>3, <3>4 DEF TypeInv
  <2>7. RequestsInv'
    <3>1. \A u \in Request : Shape(u)'
      <4> SUFFICES ASSUME NEW u \in Request, u # r
                   PROVE  Shape(u)'
        BY <1>2
      <4>1. Shape(u)
        BY DEF TransfersInv, RequestsInv
      <4> QED
        BY <2>3, <2>4, <2>5, <4>1 DEF Shape, Owns, Pending, Rehoming, Undecided, StatesOf
    <3> QED
      BY <1>2, <2>4, <3>1 DEF TransfersInv, RequestsInv, Rehoming, At, Idle
  <2>8. ProposalsInv'
    BY <2>3, <2>5, Fields DEF TransfersInv, ProposalsInv, Undecided, Owns
  <2>9. StatesInv'
    <3> SUFFICES ASSUME NEW u \in states
                 PROVE  /\ Exists(u.env)'
                        /\ u.ws = envs'[u.env].owner \/ \E v \in Request : Rehoming(v)' /\ req'[v].env = u.env
      BY <2>3 DEF StatesInv
    <3>1. /\ Exists(u.env) /\ u.env \in Env
          /\ u.ws = envs[u.env].owner \/ \E v \in Request : Rehoming(v) /\ req[v].env = u.env
      BY DEF TransfersInv, StatesInv, TypeInv, TransfersTypeOK
    <3> QED
      BY <2>4, <2>5, <3>1 DEF Rehoming, InsertEnv, At
  <2>10. TokensInv'
    BY <2>3, <2>5, Fields DEF TransfersInv, TokensInv, Owns
  <2> QED
    BY <2>5, <2>6, <2>7, <2>8, <2>9, <2>10 DEF TransfersInv
<1> QED
  BY <1>3, <1>4

-----------------------------------------------------------------------------
(* Tokens                                                                  *)

(* The tokens change, and each still names the owner of its environment.   *)
LEMMA TokensChange ==
  ASSUME TransfersInv, UNCHANGED <<tenants, envs, states, proposals>>,
         tokens' \in [Token -> [tenant : Tenant, env : Env, status : OnOff] \cup {NoToken}],
         \A k \in Token : tokens'[k] # NoToken => Owns(tokens'[k].tenant, tokens'[k].env),
         UNCHANGED req \/ \E r \in Request : At(r, "issuing") /\ Return(r)
  PROVE  TransfersInv'
<1>1. /\ req' \in [Request -> RequestRecord]
      /\ \A s \in Request : req'[s] = req[s] \/ (req'[s] = Idle /\ At(s, "issuing"))
  <2>1. Idle \in RequestRecord
    BY DEF Idle, RequestRecord
  <2> QED
    BY <2>1 DEF TransfersInv, TypeInv, Return, Set, At
<1>2. TypeInv'
  BY <1>1 DEF TransfersInv, TypeInv, TransfersTypeOK, Exists
<1>3. \A s \in Request : Shape(s)'
  <2> SUFFICES ASSUME NEW s \in Request
               PROVE  Shape(s)'
    OBVIOUS
  <2>1. Shape(s)
    BY DEF TransfersInv, RequestsInv
  <2>2. CASE req'[s] = req[s]
    BY <2>1, <2>2 DEF Shape, Owns, Exists, Pending, Rehoming, Undecided, StatesOf
  <2>3. CASE req'[s] = Idle
    BY <2>3 DEF Shape, Rehoming, Idle
  <2> QED
    BY <1>1, <2>2, <2>3
<1>4. RequestsInv'
  BY <1>1, <1>3 DEF TransfersInv, RequestsInv, Rehoming, At, Accepting, Writing, Idle
<1>5. StatesInv'
  <2> SUFFICES ASSUME NEW s \in states
               PROVE  /\ Exists(s.env)
                      /\ s.ws = envs[s.env].owner \/ \E t \in Request : Rehoming(t)' /\ req'[t].env = s.env
    BY DEF StatesInv, Exists
  <2>1. /\ Exists(s.env)
        /\ s.ws = envs[s.env].owner \/ \E t \in Request : Rehoming(t) /\ req[t].env = s.env
    BY DEF TransfersInv, StatesInv
  <2> QED
    BY <1>1, <2>1 DEF Rehoming, At
<1> QED
  BY <1>2, <1>4, <1>5 DEF TransfersInv, LabelInv, ProposalsInv, TokensInv, Owns, Exists, Undecided

LEMMA TokenStepWell ==
  ASSUME TransfersInv,
         \/ \E k \in Token : DeleteAPIToken(k) \/ \E l \in OnOff : SetAPITokenLifecycleStatus(k, l)
         \/ \E r \in Request : InsertToken(r)
  PROVE  TransfersInv'
<1>1. CASE \E k \in Token : DeleteAPIToken(k)
  <2>1. PICK k \in Token : DeleteAPIToken(k)
    BY <1>1
  <2>2. \A j \in Token : tokens'[j] = IF j = k THEN NoToken ELSE tokens[j]
    BY <2>1 DEF DeleteAPIToken, TransfersInv, TypeInv, TransfersTypeOK
  <2> QED
    BY <2>1, <2>2, TokensChange DEF DeleteAPIToken, TransfersInv, TypeInv, TransfersTypeOK, TokensInv
<1>2. CASE \E k \in Token : \E l \in OnOff : SetAPITokenLifecycleStatus(k, l)
  <2>1. PICK k \in Token, l \in OnOff : SetAPITokenLifecycleStatus(k, l)
    BY <1>2
  <2>2. tokens[k] \in [tenant : Tenant, env : Env, status : OnOff]
    BY <2>1, Fields DEF SetAPITokenLifecycleStatus, TransfersInv
  <2>3. \A j \in Token : tokens'[j] = IF j = k THEN [tokens[k] EXCEPT !.status = l] ELSE tokens[j]
    BY <2>1 DEF SetAPITokenLifecycleStatus, TransfersInv, TypeInv, TransfersTypeOK
  <2>4. tokens' \in [Token -> [tenant : Tenant, env : Env, status : OnOff] \cup {NoToken}]
    BY <2>1, <2>2 DEF SetAPITokenLifecycleStatus, TransfersInv, TypeInv, TransfersTypeOK
  <2>5. \A j \in Token : tokens'[j] # NoToken => Owns(tokens'[j].tenant, tokens'[j].env)
    BY <2>1, <2>2, <2>3 DEF SetAPITokenLifecycleStatus, TransfersInv, TokensInv
  <2> QED
    BY <2>1, <2>4, <2>5, TokensChange DEF SetAPITokenLifecycleStatus
<1>3. CASE \E r \in Request : InsertToken(r)
  <2>1. PICK r \in Request : InsertToken(r)
    BY <1>3
  <2> DEFINE new == [tenant |-> req[r].tenant, env |-> req[r].env, status |-> "active"]
  <2>2. PICK k \in Token : tokens' = [tokens EXCEPT ![k] = new]
    BY <2>1 DEF InsertToken
  <2>3. req[r].tenant \in Tenant /\ req[r].env \in Env /\ Owns(req[r].tenant, req[r].env)
    BY <2>1 DEF InsertToken, At, TransfersInv, RequestsInv, Shape
  <2>4. new \in [tenant : Tenant, env : Env, status : OnOff] /\ Owns(new.tenant, new.env)
    BY <2>3 DEF OnOff
  <2> HIDE DEF new
  <2>5. tokens' \in [Token -> [tenant : Tenant, env : Env, status : OnOff] \cup {NoToken}]
    BY <2>2, <2>4 DEF TransfersInv, TypeInv, TransfersTypeOK
  <2>6. \A j \in Token : tokens'[j] # NoToken => Owns(tokens'[j].tenant, tokens'[j].env)
    BY <2>2, <2>4 DEF TransfersInv, TypeInv, TransfersTypeOK, TokensInv
  <2> QED
    BY <2>1, <2>5, <2>6, TokensChange DEF InsertToken
<1> QED
  BY <1>1, <1>2, <1>3

-----------------------------------------------------------------------------
(* Requests that check before they act                                     *)

LEMMA StartWell ==
  ASSUME TransfersInv, NEW r \in Request,
         \/ \E t \in Tenant, s \in Slug : CheckCreate(r, t, s)
         \/ ~ Accepting /\ \E e \in Env : CheckToken(r, e)
         \/ ~ Accepting /\ \E k \in Token : Authenticate(r, k)
         \/ ~ Accepting /\ ~ Proposing /\ \E e \in Env, t \in Tenant : CheckPropose(r, e, t)
         \/ ~ Writing /\ \E p \in Proposal : LookUpSource(r, p)
  PROVE  TransfersInv' /\ UNCHANGED tables
<1> USE DEF At
<1>1. UNCHANGED tables
  BY DEF CheckCreate, CheckToken, Authenticate, CheckPropose, LookUpSource, tables
<1>2. req[r].pc = "idle" /\ ~ Rehoming(r)
  BY DEF CheckCreate, CheckToken, Authenticate, CheckPropose, LookUpSource, Rehoming
<1>3. CASE \E t \in Tenant, s \in Slug : CheckCreate(r, t, s)
  <2>1. PICK t \in Tenant, s \in Slug : Set(r, [Idle EXCEPT !.pc = "creating", !.tenant = t, !.slug = s])
    BY <1>3 DEF CheckCreate
  <2> DEFINE q == [Idle EXCEPT !.pc = "creating", !.tenant = t, !.slug = s]
  <2>2. q \in RequestRecord
    BY DEF Idle, RequestRecord, Labels
  <2>3. q.pc = "creating" /\ q.tenant = t /\ q.slug = s
    BY DEF Idle
  <2> HIDE DEF q
  <2>4. req'[r] = q /\ \A u \in Request \ {r} : req'[u] = req[u]
    BY <2>1, <2>2 DEF Set, TransfersInv, TypeInv, q
  <2>5. Shape(r)' /\ ~ (Accepting' /\ Writing')
    BY <2>3, <2>4 DEF Shape, Rehoming, Accepting, Writing, TransfersInv, RequestsInv
  <2> QED
    BY <1>1, <1>2, <2>1, <2>2, <2>3, <2>5, RequestGoesOn DEF q
<1>4. CASE \/ ~ Accepting /\ \E e \in Env : CheckToken(r, e)
           \/ ~ Accepting /\ \E k \in Token : Authenticate(r, k)
  <2>1. PICK t \in Tenant, e \in Env, pc \in {"issuing", "writing"} :
          ~ Accepting /\ Owns(t, e) /\ Set(r, [Idle EXCEPT !.pc = pc, !.tenant = t, !.env = e])
    <3>1. CASE \E e \in Env : ~ Accepting /\ CheckToken(r, e)
      <4>1. PICK e \in Env : ~ Accepting /\ CheckToken(r, e)
        BY <3>1
      <4>2. Owns(envs[e].owner, e) /\ envs[e].owner \in Tenant
        BY <4>1, Fields DEF CheckToken, TransfersInv, Owns, Lifecycle
      <4>3. Set(r, [Idle EXCEPT !.pc = "issuing", !.tenant = envs[e].owner, !.env = e])
        BY <4>1 DEF CheckToken
      <4> QED
        BY <4>1, <4>2, <4>3
    <3>2. CASE \E k \in Token : ~ Accepting /\ Authenticate(r, k)
      <4>1. PICK k \in Token : ~ Accepting /\ Authenticate(r, k)
        BY <3>2
      <4>2. tokens[k] # NoToken
        <5>1. tokens[k].status = "active"
          BY <4>1 DEF Authenticate
        <5> QED
          BY <5>1 DEF NoToken, None
      <4>3. tokens[k].tenant \in Tenant /\ tokens[k].env \in Env /\ Owns(tokens[k].tenant, tokens[k].env)
        BY <4>2, Fields DEF TransfersInv, TokensInv
      <4>4. Set(r, [Idle EXCEPT !.pc = "writing", !.tenant = tokens[k].tenant, !.env = tokens[k].env])
        BY <4>1 DEF Authenticate
      <4> QED
        BY <4>1, <4>3, <4>4
    <3> QED
      BY <1>4, <3>1, <3>2
  <2> DEFINE q == [Idle EXCEPT !.pc = pc, !.tenant = t, !.env = e]
  <2>2. q \in RequestRecord
    BY DEF Idle, RequestRecord
  <2>3. q.pc = pc /\ q.tenant = t /\ q.env = e
    BY DEF Idle
  <2> HIDE DEF q
  <2>4. req'[r] = q /\ \A u \in Request \ {r} : req'[u] = req[u]
    BY <2>1, <2>2 DEF Set, TransfersInv, TypeInv, q
  <2>5. Shape(r)' /\ ~ Accepting'
    BY <1>1, <2>1, <2>3, <2>4 DEF Shape, Rehoming, Accepting, tables, Owns, Exists
  <2> QED
    BY <1>1, <1>2, <2>1, <2>2, <2>3, <2>5, RequestGoesOn DEF q
<1>5. CASE ~ Accepting /\ ~ Proposing /\ \E e \in Env, t \in Tenant : CheckPropose(r, e, t)
  <2>1. PICK e \in Env, t \in Tenant : CheckPropose(r, e, t)
    BY <1>5
  <2>2. envs[e].owner \in Tenant /\ envs[e].slug \in Labels /\ Owns(envs[e].owner, e)
    BY <2>1, Fields DEF CheckPropose, TransfersInv, Owns
  <2> DEFINE q == [Idle EXCEPT !.pc = "proposing", !.tenant = envs[e].owner, !.env = e,
                               !.slug = envs[e].slug, !.target = t]
  <2>3. q \in RequestRecord
    BY <2>2 DEF Idle, RequestRecord
  <2>4. /\ q.pc = "proposing" /\ q.tenant = envs[e].owner /\ q.env = e /\ q.slug = envs[e].slug
        /\ q.target = t
    BY DEF Idle
  <2>5. Set(r, q)
    BY <2>1 DEF CheckPropose
  <2> HIDE DEF q
  <2>6. req'[r] = q /\ \A u \in Request \ {r} : req'[u] = req[u]
    BY <2>3, <2>5 DEF Set, TransfersInv, TypeInv
  <2>7. Shape(r)' /\ ~ Accepting'
    BY <1>1, <1>5, <2>1, <2>2, <2>4, <2>6
    DEF Shape, Rehoming, Accepting, tables, Owns, Exists, CheckPropose, Pending
  <2> QED
    BY <1>1, <1>2, <1>5, <2>3, <2>4, <2>5, <2>7, RequestGoesOn DEF Proposing, Accepting, Rehoming
<1>6. CASE ~ Writing /\ \E p \in Proposal : LookUpSource(r, p)
  <2>1. PICK p \in Proposal : LookUpSource(r, p)
    BY <1>6
  <2>2. PICK e \in Lookup(proposals[p].source, proposals[p].name) :
          /\ envs[e].status = "active"
          /\ Set(r, [Idle EXCEPT !.pc = "accepting", !.prop = p, !.env = e,
                                 !.tenant = proposals[p].source, !.target = proposals[p].target])
    BY <2>1 DEF LookUpSource
  <2>3. proposals[p] # NoProposal /\ proposals[p].source \in Tenant /\ proposals[p].target \in Tenant
    BY <2>1, Fields DEF LookUpSource, TransfersInv
  <2>4. e \in Env /\ envs[e].owner = proposals[p].source /\ envs[e].slug = proposals[p].name /\ Exists(e)
    BY <2>2, <2>3, Fields DEF Lookup, TransfersInv, Lifecycle
  <2>5. Undecided(p) => e = proposals[p].env
    BY <2>4, Fields DEF TransfersInv, ProposalsInv, TypeInv, TransfersTypeOK, Owns
  <2> DEFINE q == [Idle EXCEPT !.pc = "accepting", !.prop = p, !.env = e,
                               !.tenant = proposals[p].source, !.target = proposals[p].target]
  <2>6. q \in RequestRecord
    BY <2>3, <2>4 DEF Idle, RequestRecord
  <2>7. /\ q.pc = "accepting" /\ q.prop = p /\ q.env = e /\ q.tenant = proposals[p].source
        /\ q.target = proposals[p].target
    BY DEF Idle
  <2>8. Set(r, q)
    BY <2>2
  <2> HIDE DEF q
  <2>9. req'[r] = q /\ \A u \in Request \ {r} : req'[u] = req[u]
    BY <2>6, <2>8 DEF Set, TransfersInv, TypeInv
  <2>10. Shape(r)' /\ ~ Writing'
    BY <1>1, <1>6, <2>3, <2>4, <2>5, <2>7, <2>9 DEF Shape, Rehoming, Writing, tables, Undecided
  <2> QED
    BY <1>1, <1>2, <2>6, <2>7, <2>8, <2>10, RequestGoesOn
<1> QED
  BY <1>1, <1>3, <1>4, <1>5, <1>6

-----------------------------------------------------------------------------
(* States, proposals and the transfer                                      *)

(* What happens to a request that comes to its end.                        *)
LEMMA Ended ==
  ASSUME TypeInv, NEW r \in Request, Return(r)
  PROVE  /\ req' \in [Request -> RequestRecord] /\ req'[r] = Idle
         /\ \A s \in Request \ {r} : req'[s] = req[s]
<1>1. Idle \in RequestRecord
  BY DEF Idle, RequestRecord
<1> QED
  BY <1>1 DEF TypeInv, Return, Set

LEMMA UpsertStateWell ==
  ASSUME TransfersInv, NEW r \in Request, UpsertState(r)
  PROVE  TransfersInv'
<1> DEFINE t == req[r].tenant
           e == req[r].env
<1>1. t \in Tenant /\ e \in Env /\ Owns(t, e) /\ ~ Accepting
  BY DEF UpsertState, At, TransfersInv, RequestsInv, Shape, Writing
<1> HIDE DEF t, e
<1>2. /\ req' \in [Request -> RequestRecord] /\ req'[r] = Idle
      /\ \A s \in Request \ {r} : req'[s] = req[s]
  BY Ended DEF UpsertState, TransfersInv
<1>3. UNCHANGED <<tenants, envs, tokens, proposals, churn>>
  BY DEF UpsertState
<1>4. /\ states' \subseteq StateRow
      /\ \A s, u \in states' : (s.ws = u.ws /\ s.env = u.env /\ s.name = u.name) => s = u
      /\ \A s \in states' : s \in states \/ (s.ws = t /\ s.env = e)
  <2>1. CASE UNCHANGED states
    BY <2>1 DEF TransfersInv, TypeInv, TransfersTypeOK, StateRow
  <2>2. CASE states' # states
    <3>1. PICK n \in Name, d \in Content :
            states' = {s \in states : ~ (s.ws = t /\ s.env = e /\ s.name = n)}
                        \cup {[ws |-> t, env |-> e, name |-> n, doc |-> d]}
      BY <2>2 DEF UpsertState, t, e
    <3> QED
      BY <1>1, <3>1 DEF TransfersInv, TypeInv, TransfersTypeOK, StateRow
  <2> QED
    BY <2>1, <2>2
<1>5. TypeInv'
  BY <1>2, <1>3, <1>4 DEF TransfersInv, TypeInv, TransfersTypeOK, Exists, StateRow
<1>6. \A s \in Request : ~ Rehoming(s) /\ ~ Rehoming(s)' /\ ~ At(s, "accepting")
  BY <1>1, <1>2 DEF Accepting, Rehoming, Idle, At
<1>7. RequestsInv'
  <2>1. \A s \in Request : Shape(s)'
    <3> SUFFICES ASSUME NEW s \in Request
                 PROVE  Shape(s)'
      OBVIOUS
    <3>1. Shape(s)
      BY DEF TransfersInv, RequestsInv
    <3>2. CASE req'[s] = req[s]
      BY <1>3, <1>6, <3>1, <3>2 DEF Shape, Owns, Exists, Pending, Rehoming, Undecided
    <3>3. CASE req'[s] = Idle
      BY <3>3 DEF Shape, Rehoming, Idle
    <3> QED
      BY <1>2, <3>2, <3>3
  <2> QED
    BY <1>1, <1>2, <1>6, <2>1 DEF TransfersInv, RequestsInv, At, Idle, Accepting
<1>8. StatesInv'
  BY <1>1, <1>3, <1>4, <1>6 DEF TransfersInv, StatesInv, Owns, Exists
<1> QED
  BY <1>3, <1>5, <1>7, <1>8 DEF TransfersInv, LabelInv, ProposalsInv, TokensInv, Owns, Exists, Undecided

LEMMA InsertProposalWell ==
  ASSUME TransfersInv, NEW r \in Request, InsertProposal(r)
  PROVE  /\ TransfersInv' /\ UNCHANGED envs
         /\ \A p \in Proposal : proposals[p] # NoProposal => proposals'[p] = proposals[p]
<1> DEFINE q   == req[r]
           new == [env |-> q.env, name |-> q.slug, source |-> q.tenant, target |-> q.target,
                   status |-> "pending"]
<1>1. PICK p \in Proposal : proposals[p] = NoProposal /\ proposals' = [proposals EXCEPT ![p] = new]
  BY DEF InsertProposal
<1>2. /\ q.env \in Env /\ q.tenant \in Tenant /\ q.target \in Tenant /\ q.target # q.tenant
      /\ Owns(q.tenant, q.env) /\ q.slug = envs[q.env].slug /\ Pending(q.env) = {}
      /\ q.pc = "proposing"
  BY DEF InsertProposal, At, TransfersInv, RequestsInv, Shape
<1>3. new \in [env : Env, name : Labels, source : Tenant, target : Tenant,
               status : {"pending", "accepted", "rejected", "cancelled"}]
  BY <1>2, Fields DEF TransfersInv, Owns
<1>4. /\ new.env = q.env /\ new.name = q.slug /\ new.source = q.tenant /\ new.target = q.target
      /\ new.status = "pending"
  OBVIOUS
<1> HIDE DEF q, new
<1>5. /\ req' \in [Request -> RequestRecord] /\ req'[r] = Idle
      /\ \A s \in Request \ {r} : req'[s] = req[s]
  BY Ended DEF InsertProposal, TransfersInv
<1>6. UNCHANGED <<tenants, envs, states, tokens, churn>>
  BY DEF InsertProposal
<1>7. /\ proposals'[p] = new /\ Undecided(p)' /\ ~ Undecided(p)
      /\ \A o \in Proposal \ {p} : proposals'[o] = proposals[o]
  BY <1>1, <1>4 DEF TransfersInv, TypeInv, TransfersTypeOK, Undecided, NoProposal, None
<1>8. TypeInv'
  BY <1>1, <1>3, <1>5, <1>6 DEF TransfersInv, TypeInv, TransfersTypeOK, Exists
<1>9. \A e \in Env \ {q.env} : Pending(e)' = Pending(e)
  BY <1>4, <1>7 DEF Pending, Undecided
<1>10. \A s \in Request \ {r} : Rehoming(s) \/ At(s, "proposing") => req[s].env # q.env
  BY <1>2 DEF TransfersInv, RequestsInv, At, q
<1>11. RequestsInv'
  <2>1. \A s \in Request : Shape(s)'
    <3> SUFFICES ASSUME NEW s \in Request
                 PROVE  Shape(s)'
      OBVIOUS
    <3>1. Shape(s)
      BY DEF TransfersInv, RequestsInv
    <3>2. CASE s # r
      <4>1. req[s].pc = "accepting" => req[s].prop # p
        BY <1>1, <3>1 DEF Shape
      <4>2. req[s].pc = "proposing" \/ Rehoming(s) => Pending(req[s].env)' = Pending(req[s].env)
        BY <1>5, <1>9, <1>10, <3>1, <3>2 DEF Shape, At
      <4>3. req[s].pc = "accepting" => proposals'[req[s].prop] = proposals[req[s].prop]
        BY <1>7, <3>1, <4>1 DEF Shape
      <4> QED
        BY <1>5, <1>6, <3>1, <3>2, <4>2, <4>3 DEF Shape, Owns, Exists, Rehoming, Undecided, StatesOf
    <3>3. CASE s = r
      BY <1>5, <3>3 DEF Shape, Rehoming, Idle
    <3> QED
      BY <3>2, <3>3
  <2> QED
    BY <1>5, <2>1 DEF TransfersInv, RequestsInv, Rehoming, At, Accepting, Writing, Idle
<1>12. ProposalsInv'
  BY <1>2, <1>4, <1>6, <1>7, Fields DEF TransfersInv, ProposalsInv, Owns, Exists, Undecided, Pending
<1>13. StatesInv'
  <2> SUFFICES ASSUME NEW s \in states
               PROVE  /\ Exists(s.env)
                      /\ s.ws = envs[s.env].owner \/ \E t \in Request : Rehoming(t)' /\ req'[t].env = s.env
    BY <1>6 DEF StatesInv, Exists
  <2>1. /\ Exists(s.env)
        /\ s.ws = envs[s.env].owner \/ \E t \in Request : Rehoming(t) /\ req[t].env = s.env
    BY DEF TransfersInv, StatesInv
  <2> QED
    BY <1>2, <1>5, <2>1 DEF Rehoming, q
<1> QED
  BY <1>1, <1>6, <1>7, <1>8, <1>11, <1>12, <1>13 DEF TransfersInv, LabelInv, TokensInv, Owns, Exists

LEMMA DeclineWell ==
  ASSUME TransfersInv, NEW p \in Proposal, NEW o \in {"rejected", "cancelled"}, Decline(p, o)
  PROVE  /\ TransfersInv' /\ UNCHANGED envs
         /\ \A x \in Proposal \ {p} : proposals'[x] = proposals[x]
         /\ Undecided(p)
<1>1. Undecided(p) /\ UNCHANGED <<tenants, envs, states, tokens, req, churn>>
  BY DEF Decline, Undecided
<1>2. /\ proposals'[p] = [proposals[p] EXCEPT !.status = o] /\ ~ Undecided(p)'
      /\ \A x \in Proposal \ {p} : proposals'[x] = proposals[x]
      /\ \A x \in Proposal : proposals'[x].env = proposals[x].env
      /\ \A x \in Proposal : proposals'[x].source = proposals[x].source
      /\ \A x \in Proposal : proposals'[x].target = proposals[x].target
      /\ \A x \in Proposal : proposals[x] # NoProposal => proposals'[x] # NoProposal
      /\ proposals' \in [Proposal -> [env : Env, name : Labels, source : Tenant, target : Tenant,
                                      status : {"pending", "accepted", "rejected", "cancelled"}]
                                       \cup {NoProposal}]
  <2>1. proposals[p] \in [env : Env, name : Labels, source : Tenant, target : Tenant,
                          status : {"pending", "accepted", "rejected", "cancelled"}]
    BY <1>1, Fields DEF TransfersInv
  <2>2. proposals' = [proposals EXCEPT ![p] = [proposals[p] EXCEPT !.status = o]]
    BY DEF Decline
  <2> DEFINE new == [proposals[p] EXCEPT !.status = o]
  <2>3. /\ new \in [env : Env, name : Labels, source : Tenant, target : Tenant,
                    status : {"pending", "accepted", "rejected", "cancelled"}]
        /\ new.env = proposals[p].env /\ new.source = proposals[p].source /\ new.target = proposals[p].target
        /\ new.status # "pending" /\ new # NoProposal
    BY <2>1 DEF NoProposal, None
  <2> HIDE DEF new
  <2> QED
    BY <2>2, <2>3 DEF TransfersInv, TypeInv, TransfersTypeOK, Undecided, new
<1>3. TypeInv'
  BY <1>1, <1>2 DEF TransfersInv, TypeInv, TransfersTypeOK, Exists
<1>4. \A e \in Env : Pending(e)' \subseteq Pending(e)
  BY <1>2 DEF Pending, Undecided
<1>5. \A x \in Proposal : Undecided(x)' => Undecided(x) /\ proposals'[x] = proposals[x]
  BY <1>2 DEF Undecided
<1>6. RequestsInv'
  <2>1. \A s \in Request : Shape(s)'
    <3> SUFFICES ASSUME NEW s \in Request
                 PROVE  Shape(s)'
      OBVIOUS
    <3>1. Shape(s)
      BY DEF TransfersInv, RequestsInv
    <3>2. req[s].pc = "proposing" \/ Rehoming(s) => Pending(req[s].env)' = {}
      BY <1>1, <1>4, <3>1 DEF Shape
    <3> QED
      BY <1>1, <1>2, <1>5, <3>1, <3>2 DEF Shape, Owns, Exists, Rehoming, StatesOf
  <2> QED
    BY <1>1, <2>1 DEF TransfersInv, RequestsInv, Rehoming, At, Accepting, Writing
<1>7. ProposalsInv'
  BY <1>1, <1>2, <1>5 DEF TransfersInv, ProposalsInv, Owns, Exists
<1> QED
  BY <1>1, <1>2, <1>3, <1>6, <1>7 DEF TransfersInv, LabelInv, StatesInv, TokensInv, Owns, Exists, Rehoming

(* A request to accept that comes too late, or finds no room.              *)
LEMMA RefusedWell ==
  ASSUME TransfersInv, NEW r \in Request, ~ Rehoming(r), Return(r), UNCHANGED tables
  PROVE  TransfersInv'
<1>1. Idle \in RequestRecord
  BY DEF Idle, RequestRecord
<1>2. /\ req' \in [Request -> RequestRecord] /\ req'[r] = Idle
      /\ \A s \in Request \ {r} : req'[s] = req[s]
  BY Ended DEF TransfersInv
<1>3. Shape(r)' /\ ~ (Accepting' /\ Writing')
  BY <1>2 DEF Shape, Rehoming, Idle, TransfersInv, RequestsInv, Accepting, Writing
<1> QED
  BY <1>1, <1>3, RequestGoesOn DEF Return, Idle

(* The environment of an accepted proposal changes hands with its tokens;  *)
(* its states stay where they are until the request moves them.            *)
Accepted(r, p, e, t, s) ==
  /\ p = req[r].prop /\ e = proposals[p].env /\ t = proposals[p].target
  /\ MayAccept(p, s) /\ (s \in Slug \/ s = proposals[p].name)
  /\ envs' = [envs EXCEPT ![e].owner = t, ![e].slug = s]
  /\ tokens' = TokensMoved({k \in Token : tokens[k].env = e}, t)
  /\ proposals' = [proposals EXCEPT ![p].status = "accepted"]
  /\ Set(r, [req[r] EXCEPT !.pc = "accepted"])

LEMMA AcceptedWell ==
  ASSUME TransfersInv, NEW r \in Request, Accept(r), NEW p \in Proposal, NEW e \in Env,
         NEW t \in Tenant, NEW s \in Labels, Accepted(r, p, e, t, s)
  PROVE  TransfersInv'
<1>1. /\ req[r].pc = "accepting" /\ Undecided(p) /\ req[r].env = e
      /\ req[r].tenant = proposals[p].source /\ req[r].target = t
  BY DEF Accepted, Accept, At, TransfersInv, RequestsInv, Shape, MayAccept, Undecided
<1>2. /\ proposals[p] \in [env : Env, name : Labels, source : Tenant, target : Tenant,
                           status : {"pending", "accepted", "rejected", "cancelled"}]
      /\ Owns(proposals[p].source, e) /\ proposals[p].name = envs[e].slug
      /\ t # proposals[p].source /\ proposals[p].env = e /\ proposals[p].target = t
  BY <1>1, Fields DEF TransfersInv, ProposalsInv, Accepted
<1>3. UNCHANGED <<tenants, states, churn>>
  BY DEF Accept
<1>4. /\ envs[e] \in [owner : Tenant, slug : Labels, status : Lifecycle]
      /\ envs' = [envs EXCEPT ![e] = [envs[e] EXCEPT !.owner = t, !.slug = s]]
  <2>1. envs[e] \in [owner : Tenant, slug : Labels, status : Lifecycle]
    BY <1>2, Fields DEF TransfersInv, Owns
  <2> QED
    BY <2>1 DEF Accepted, TransfersInv, TypeInv, TransfersTypeOK
<1>5. /\ envs' \in [Env -> [owner : Tenant, slug : Labels, status : Lifecycle] \cup {NoEnv}]
      /\ envs'[e].owner = t /\ envs'[e].slug = s /\ Exists(e)'
      /\ \A f \in Env \ {e} : envs'[f] = envs[f] /\ (Exists(f)' <=> Exists(f))
  <2> DEFINE given == [envs[e] EXCEPT !.owner = t, !.slug = s]
  <2>1. given \in [owner : Tenant, slug : Labels, status : Lifecycle] /\ given.owner = t /\ given.slug = s
    BY <1>4
  <2>2. given # NoEnv
    BY <2>1, TransferAssumption DEF NoEnv
  <2>3. envs' = [envs EXCEPT ![e] = given]
    BY <1>4
  <2> HIDE DEF given
  <2> QED
    BY <2>1, <2>2, <2>3 DEF TransfersInv, TypeInv, TransfersTypeOK, Exists
<1>6. /\ tokens' \in [Token -> [tenant : Tenant, env : Env, status : OnOff] \cup {NoToken}]
      /\ \A k \in Token : tokens'[k] = IF tokens[k].env = e THEN [tokens[k] EXCEPT !.tenant = t] ELSE tokens[k]
      /\ \A k \in Token : tokens[k].env = e => tokens[k] # NoToken
  <2>1. \A k \in Token : tokens[k].env = e => tokens[k] # NoToken
    BY TransferAssumption DEF NoToken
  <2>2. \A k \in Token : tokens'[k] = IF tokens[k].env = e THEN [tokens[k] EXCEPT !.tenant = t] ELSE tokens[k]
    BY DEF TokensMoved, Accepted
  <2>3. \A k \in Token : tokens'[k] \in [tenant : Tenant, env : Env, status : OnOff] \cup {NoToken}
    BY <1>2, <2>1, <2>2, Fields DEF TransfersInv
  <2>4. tokens' = [k \in Token |-> tokens'[k]]
    BY DEF TokensMoved, Accepted
  <2> QED
    BY <2>1, <2>2, <2>3, <2>4
<1>7. /\ proposals' \in [Proposal -> [env : Env, name : Labels, source : Tenant, target : Tenant,
                                      status : {"pending", "accepted", "rejected", "cancelled"}]
                                       \cup {NoProposal}]
      /\ proposals'[p] = [proposals[p] EXCEPT !.status = "accepted"] /\ ~ Undecided(p)'
      /\ proposals'[p] # NoProposal
      /\ \A x \in Proposal \ {p} : proposals'[x] = proposals[x]
  <2> DEFINE new == [proposals[p] EXCEPT !.status = "accepted"]
  <2>1. /\ new \in [env : Env, name : Labels, source : Tenant, target : Tenant,
                    status : {"pending", "accepted", "rejected", "cancelled"}]
        /\ new.status = "accepted" /\ new # NoProposal
    BY <1>2 DEF NoProposal, None
  <2>2. proposals' = [proposals EXCEPT ![p] = new]
    BY DEF Accepted
  <2>3. proposals' = [proposals EXCEPT ![p] = new] /\ proposals \in [Proposal ->
           [env : Env, name : Labels, source : Tenant, target : Tenant,
            status : {"pending", "accepted", "rejected", "cancelled"}] \cup {NoProposal}]
    BY <2>2 DEF TransfersInv, TypeInv, TransfersTypeOK
  <2> QED
    <3>1. proposals'[p] = new
      BY <2>3
    <3> HIDE DEF new
    <3> QED
      BY <2>1, <2>3, <3>1 DEF Undecided, new
<1>8. /\ req' \in [Request -> RequestRecord] /\ req'[r] = [req[r] EXCEPT !.pc = "accepted"]
      /\ \A u \in Request \ {r} : req'[u] = req[u]
  BY DEF Accepted, Set, TransfersInv, TypeInv, RequestRecord
<1>9. TypeInv'
  <2>1. \A f, g \in Env : (Exists(f)' /\ envs'[f].owner = envs'[g].owner /\ envs'[f].slug = envs'[g].slug)
          => f = g
    <3>1. \A f \in Env \ {e} : ~ (envs[f].owner = t /\ envs[f].slug = s)
      BY <1>2 DEF MayAccept, Accepted
    <3> QED
      BY <1>5, <3>1 DEF TransfersInv, TypeInv, TransfersTypeOK, Exists
  <2>2. TransfersTypeOK'
    BY <1>3, <1>5, <1>6, <1>7, <2>1 DEF TransfersInv, TypeInv, TransfersTypeOK
  <2> QED
    BY <1>8, <2>2 DEF TypeInv
<1>10. LabelInv'
  <2>1. s \in Slug \/ s = envs[e].slug
    BY <1>2 DEF Accepted
  <2> QED
    BY <1>5, <2>1, TransferAssumption DEF TransfersInv, LabelInv
<1>11. /\ \A x \in Proposal : Undecided(x) /\ proposals[x].env = e => x = p
       /\ \A x \in Proposal : Undecided(x)' => Undecided(x) /\ x # p /\ proposals'[x] = proposals[x]
       /\ Pending(e)' = {}
       /\ \A f \in Env : Pending(f)' \subseteq Pending(f)
  <2>1. \A x \in Proposal : Undecided(x) /\ proposals[x].env = e => x = p
    BY <1>1, <1>2 DEF TransfersInv, ProposalsInv
  <2>2. \A x \in Proposal : Undecided(x)' => Undecided(x) /\ x # p /\ proposals'[x] = proposals[x]
    BY <1>7 DEF Undecided
  <2> QED
    BY <2>1, <2>2 DEF Pending, Undecided
<1>12. /\ p \in Pending(e)
       /\ \A u \in Request : Rehoming(u) \/ At(u, "proposing") => req[u].env # e
  <2>1. p \in Pending(e)
    BY <1>1, <1>2 DEF Pending, Undecided
  <2> QED
    BY <2>1 DEF TransfersInv, RequestsInv, Shape, At
<1>13. Accepting /\ ~ Writing
  BY <1>1 DEF Accepting, TransfersInv, RequestsInv
<1>14. \A u \in states : u.env = e => u.ws = req[r].tenant
  BY <1>1, <1>2, <1>12 DEF TransfersInv, StatesInv, Owns
<1>15. /\ req'[r].pc = "accepted" /\ req'[r].env = e /\ req'[r].target = t
       /\ req'[r].tenant = req[r].tenant /\ req[r].tenant \in Tenant
       /\ req'[r].moving = req[r].moving
  <2>1. req[r] \in RequestRecord
    BY DEF TransfersInv, TypeInv
  <2> QED
    BY <1>1, <1>2, <1>8, <2>1 DEF RequestRecord
<1>16. RequestsInv'
  <2>1. Shape(r)'
    BY <1>1, <1>2, <1>3, <1>5, <1>11, <1>14, <1>15 DEF Shape, Owns, Rehoming
  <2>2. \A u \in Request \ {r} : Shape(u)'
    <3> SUFFICES ASSUME NEW u \in Request \ {r}
                 PROVE  Shape(u)'
      OBVIOUS
    <3>1. Shape(u) /\ req'[u] = req[u]
      BY <1>8 DEF TransfersInv, RequestsInv
    <3>2. req[u].pc \notin {"issuing", "writing"}
      BY <1>13 DEF Writing
    <3>3. req[u].pc = "proposing" \/ Rehoming(u) =>
            /\ req[u].env # e /\ Pending(req[u].env)' = {}
            /\ envs'[req[u].env] = envs[req[u].env] /\ (Exists(req[u].env)' <=> Exists(req[u].env))
      BY <1>5, <1>11, <1>12, <3>1 DEF Shape, At
    <3>4. req[u].pc = "accepting" =>
            /\ proposals'[req[u].prop] # NoProposal
            /\ proposals'[req[u].prop].source = proposals[req[u].prop].source
            /\ proposals'[req[u].prop].target = proposals[req[u].prop].target
            /\ proposals'[req[u].prop].env = proposals[req[u].prop].env
      BY <1>2, <1>7, <3>1 DEF Shape
    <3>5. req[u].pc = "accepting" => (Undecided(req[u].prop)' => Undecided(req[u].prop))
      BY <1>11, <3>1 DEF Shape
    <3> QED
      BY <1>3, <3>1, <3>2, <3>3, <3>4, <3>5 DEF Shape, Owns, Rehoming, StatesOf
  <2>3. \A u \in Request : Rehoming(u)' => u = r \/ (Rehoming(u) /\ req'[u] = req[u])
    BY <1>8 DEF Rehoming
  <2>4. \A u \in Request : At(u, "proposing")' => At(u, "proposing") /\ req'[u] = req[u] /\ u # r
    BY <1>8, <1>15 DEF At
  <2>5. ~ Writing'
    BY <1>8, <1>13, <1>15 DEF Writing
  <2> QED
    BY <1>12, <1>15, <2>1, <2>2, <2>3, <2>4, <2>5 DEF TransfersInv, RequestsInv
<1>17. ProposalsInv'
  <2>1. \A x \in Proposal : Undecided(x)' => proposals[x].env # e /\ proposals[x].env \in Env
    BY <1>11, Fields DEF TransfersInv
  <2> QED
    BY <1>5, <1>11, <2>1 DEF TransfersInv, ProposalsInv, Owns
<1>18. StatesInv'
  <2> SUFFICES ASSUME NEW u \in states
               PROVE  /\ Exists(u.env)'
                      /\ u.ws = envs'[u.env].owner \/ \E v \in Request : Rehoming(v)' /\ req'[v].env = u.env
    BY <1>3 DEF StatesInv
  <2>1. /\ Exists(u.env) /\ u.env \in Env
        /\ u.ws = envs[u.env].owner \/ \E v \in Request : Rehoming(v) /\ req[v].env = u.env
    BY DEF TransfersInv, StatesInv, TypeInv, TransfersTypeOK
  <2>2. CASE u.env = e
    BY <1>5, <1>15, <2>2 DEF Rehoming
  <2>3. CASE u.env # e
    BY <1>1, <1>5, <1>8, <2>1, <2>3 DEF Rehoming
  <2> QED
    BY <2>2, <2>3
<1>19. TokensInv'
  <2> SUFFICES ASSUME NEW k \in Token, tokens'[k] # NoToken
               PROVE  /\ envs'[tokens'[k].env] # NoEnv
                      /\ envs'[tokens'[k].env].owner = tokens'[k].tenant
    BY DEF TokensInv, Owns, Exists
  <2>1. tokens[k] # NoToken /\ Owns(tokens[k].tenant, tokens[k].env)
        /\ tokens[k] \in [tenant : Tenant, env : Env, status : OnOff]
    BY <1>6, Fields DEF TransfersInv, TokensInv
  <2> QED
    BY <1>5, <1>6, <2>1 DEF Owns, Exists
<1> QED
  BY <1>9, <1>10, <1>16, <1>17, <1>18, <1>19 DEF TransfersInv

LEMMA AcceptWell ==
  ASSUME TransfersInv, NEW r \in Request, Accept(r)
  PROVE  /\ TransfersInv'
         /\ UNCHANGED <<envs, proposals>> \/
            /\ Undecided(req[r].prop) /\ req[r].prop \in Proposal
            /\ proposals' = [proposals EXCEPT ![req[r].prop].status = "accepted"]
            /\ \A f \in Env : \/ envs'[f].owner = envs[f].owner
                              \/ /\ f = proposals[req[r].prop].env
                                 /\ envs'[f].owner = proposals[req[r].prop].target
                                 /\ envs[f].owner = proposals[req[r].prop].source
<1>1. PICK p \in Proposal : p = req[r].prop /\ proposals[p] # NoProposal
  BY DEF Accept, At, TransfersInv, RequestsInv, Shape
<1>2. /\ proposals[p] \in [env : Env, name : Labels, source : Tenant, target : Tenant,
                           status : {"pending", "accepted", "rejected", "cancelled"}]
      /\ ~ Rehoming(r)
  BY <1>1, Fields DEF TransfersInv, Accept, At, Rehoming
<1>3. PICK e \in Env, t \in Tenant : e = proposals[p].env /\ t = proposals[p].target
  BY <1>2
<1>4. PICK s \in Slug \cup {proposals[p].name} :
        IF MayAccept(p, s)
        THEN /\ envs' = [envs EXCEPT ![e].owner = t, ![e].slug = s]
             /\ tokens' = TokensMoved({k \in Token : tokens[k].env = e}, t)
             /\ proposals' = [proposals EXCEPT ![p].status = "accepted"]
             /\ Set(r, [req[r] EXCEPT !.pc = "accepted"])
        ELSE Return(r) /\ UNCHANGED <<envs, tokens, proposals>>
  BY <1>1, <1>3 DEF Accept
<1>5. CASE MayAccept(p, s)
  <2>1. s \in Labels /\ (s \in Slug \/ s = proposals[p].name)
    BY <1>2, <1>4 DEF Labels
  <2>2. TransfersInv'
    <3>1. Accepted(r, p, e, t, s)
      BY <1>1, <1>3, <1>4, <1>5, <2>1 DEF Accepted
    <3> QED
      BY <2>1, <3>1, AcceptedWell
  <2>3. Undecided(p)
    BY <1>5 DEF MayAccept, Undecided
  <2>4. Owns(proposals[p].source, e) /\ envs[e] \in [owner : Tenant, slug : Labels, status : Lifecycle]
    BY <1>3, <2>3, Fields DEF TransfersInv, ProposalsInv, Owns
  <2>5. \A f \in Env : envs'[f].owner = IF f = e THEN t ELSE envs[f].owner
    <3>1. envs' = [envs EXCEPT ![e] = [envs[e] EXCEPT !.owner = t, !.slug = s]]
      BY <1>4, <1>5, <2>4 DEF TransfersInv, TypeInv, TransfersTypeOK
    <3> QED
      BY <2>4, <3>1 DEF TransfersInv, TypeInv, TransfersTypeOK
  <2> QED
    BY <1>1, <1>3, <1>4, <1>5, <2>2, <2>3, <2>4, <2>5 DEF Owns
<1>6. CASE ~ MayAccept(p, s)
  <2>1. Return(r) /\ UNCHANGED tables
    BY <1>4, <1>6 DEF Accept, tables
  <2> QED
    BY <1>2, <1>4, <1>6, <2>1, RefusedWell
<1> QED
  BY <1>5, <1>6

LEMMA ListStatesWell ==
  ASSUME TransfersInv, NEW r \in Request, ListStates(r)
  PROVE  TransfersInv' /\ UNCHANGED tables
<1>1. /\ req[r].pc = "accepted" /\ Shape(r) /\ Rehoming(r) /\ req[r] \in RequestRecord
      /\ UNCHANGED tables
  BY DEF ListStates, At, Rehoming, TransfersInv, RequestsInv, TypeInv, tables
<1>2. PICK moving \in SUBSET StateRow : moving = StatesOf(req[r].tenant, req[r].env)
  BY DEF StatesOf, TransfersInv, TypeInv, TransfersTypeOK, StateRow
<1>3. CASE moving = {}
  <2>1. Return(r) /\ \A s \in states : s.env # req[r].env
    BY <1>1, <1>2, <1>3 DEF ListStates, StatesToMove, StatesOf, Shape
  <2>2. Idle \in RequestRecord
    BY DEF Idle, RequestRecord
  <2>3. req'[r] = Idle /\ \A s \in Request \ {r} : req'[s] = req[s]
    BY <2>1, Ended DEF TransfersInv
  <2>4. Shape(r)' /\ ~ Writing'
    BY <1>1, <2>3 DEF Shape, Rehoming, Idle, Writing, Accepting, TransfersInv, RequestsInv
  <2> QED
    BY <1>1, <2>1, <2>2, <2>4, RequestGoesOn DEF Return, Idle
<1>4. CASE moving # {}
  <2>1. PICK q \in RequestRecord : q = [req[r] EXCEPT !.pc = "moving", !.moving = moving]
    BY <1>1 DEF RequestRecord
  <2>2. /\ q.pc = "moving" /\ q.moving = moving /\ q.tenant = req[r].tenant
        /\ q.env = req[r].env /\ q.target = req[r].target
    BY <1>1, <2>1 DEF RequestRecord
  <2>3. Set(r, q)
    BY <1>2, <1>4, <2>1 DEF ListStates, StatesToMove
  <2>4. req'[r] = q /\ \A s \in Request \ {r} : req'[s] = req[s]
    BY <2>3 DEF Set, TransfersInv, TypeInv
  <2>5. StatesOf(q.tenant, q.env)' = moving
    BY <1>1, <1>2, <2>2 DEF StatesOf, tables
  <2>6. Shape(r)'
    BY <1>1, <2>2, <2>4, <2>5 DEF Shape, Rehoming, tables, Owns, Exists, Pending
  <2>7. ~ Writing'
    BY <1>1, <2>2, <2>4 DEF Writing, Accepting, TransfersInv, RequestsInv
  <2> QED
    BY <1>1, <2>2, <2>3, <2>6, <2>7, RequestGoesOn
<1> QED
  BY <1>3, <1>4

(* The states of the environment all move, for none of them can stand      *)
(* under the new path yet; nothing else is left to change.                 *)
LEMMA MoveStatesWell ==
  ASSUME TransfersInv, NEW r \in Request, MoveStates(r)
  PROVE  TransfersInv' /\ UNCHANGED <<envs, proposals>>
<1> DEFINE q == req[r]
           now == {s \in states : \E m \in q.moving : m.ws = s.ws /\ m.env = s.env /\ m.name = s.name}
           mine == envs[q.env].owner = q.tenant
<1>1. /\ q.pc = "moving" /\ Rehoming(r) /\ q.env \in Env /\ q.tenant \in Tenant /\ q.target \in Tenant
      /\ q.target # q.tenant /\ Owns(q.target, q.env)
      /\ \A s \in states : s.env = q.env => s.ws = q.tenant
      /\ q.moving = StatesOf(q.tenant, q.env)
  BY DEF MoveStates, At, TransfersInv, RequestsInv, Shape, Rehoming
<1>2. now = {s \in states : s.env = q.env}
  BY <1>1 DEF StatesOf
<1>3. ~ Clash(now, q.target) /\ ~ mine
  BY <1>1, <1>2 DEF Clash, Owns
<1>4. TokensMoved({k \in Token : tokens[k].tenant = q.tenant /\ tokens[k].env = q.env}, q.target) = tokens
  <2>1. \A k \in Token : ~ (tokens[k].tenant = q.tenant /\ tokens[k].env = q.env)
    BY <1>1, TransferAssumption DEF TransfersInv, TokensInv, Owns, NoToken
  <2>2. tokens = [k \in Token |-> tokens[k]]
    BY DEF TransfersInv, TypeInv, TransfersTypeOK
  <2> QED
    BY <2>1, <2>2 DEF TokensMoved
<1>5. /\ states' = (states \ now) \cup Moved(now, q.target)
      /\ UNCHANGED <<tenants, envs, tokens, proposals, churn>> /\ Return(r)
  BY <1>3, <1>4 DEF MoveStates
<1>6. /\ req' \in [Request -> RequestRecord] /\ req'[r] = Idle
      /\ \A s \in Request \ {r} : req'[s] = req[s]
  BY <1>5, Ended DEF TransfersInv
<1>7. /\ \A s \in states' : \/ s \in states /\ s.env # q.env
                            \/ \E u \in states : /\ u.env = q.env /\ s = [u EXCEPT !.ws = q.target]
      /\ \A u \in states : u \in StateRow
  BY <1>2, <1>5 DEF Moved, TransfersInv, TypeInv, TransfersTypeOK, StateRow
<1> HIDE DEF q, now, mine
<1>8. /\ states' \subseteq StateRow
      /\ \A s \in states' : (s \in states /\ s.env # q.env) \/ (s.env = q.env /\ s.ws = q.target)
      /\ \A s, u \in states' : (s.ws = u.ws /\ s.env = u.env /\ s.name = u.name) => s = u
  <2>1. states' \subseteq StateRow
    BY <1>1, <1>7 DEF StateRow
  <2>2. \A s \in states' : (s \in states /\ s.env # q.env) \/ (s.env = q.env /\ s.ws = q.target)
    BY <1>1, <1>7 DEF StateRow
  <2>3. ASSUME NEW s \in states', NEW u \in states', s.ws = u.ws, s.env = u.env, s.name = u.name
        PROVE  s = u
    <3>1. CASE s.env # q.env
      <4>1. s \in states /\ u \in states
        BY <1>7, <2>2, <2>3, <3>1
      <4> QED
        BY <2>3, <4>1 DEF TransfersInv, TypeInv, TransfersTypeOK
    <3>2. CASE s.env = q.env
      <4>1. PICK v \in states : v.env = q.env /\ s = [v EXCEPT !.ws = q.target]
        BY <1>7, <3>2
      <4>2. PICK w \in states : w.env = q.env /\ u = [w EXCEPT !.ws = q.target]
        BY <1>7, <2>3, <3>2
      <4>3. v.name = w.name /\ v.ws = w.ws /\ v.env = w.env
        BY <1>1, <1>7, <2>3, <4>1, <4>2 DEF StateRow
      <4>4. v = w
        BY <4>3 DEF TransfersInv, TypeInv, TransfersTypeOK
      <4> QED
        BY <4>1, <4>2, <4>4
    <3> QED
      BY <3>1, <3>2
  <2> QED
    BY <2>1, <2>2, <2>3
<1>9. TypeInv'
  BY <1>5, <1>6, <1>8 DEF TransfersInv, TypeInv, TransfersTypeOK, Exists, StateRow
<1>10. \A u \in Request \ {r} : Rehoming(u) => req[u].env # q.env
  BY <1>1 DEF TransfersInv, RequestsInv, q
<1>11. RequestsInv'
  <2>1. \A u \in Request : Shape(u)'
    <3> SUFFICES ASSUME NEW u \in Request
                 PROVE  Shape(u)'
      OBVIOUS
    <3>1. Shape(u)
      BY DEF TransfersInv, RequestsInv
    <3>2. CASE u # r
      <4>1. req'[u] = req[u]
        BY <1>6, <3>2
      <4>2. Rehoming(u) => /\ \A s \in states' : s.env = req[u].env => s.ws = req[u].tenant
                           /\ \A x \in Tenant : StatesOf(x, req[u].env)' = StatesOf(x, req[u].env)
        <5>1. Rehoming(u) => \A s : (s \in states' /\ s.env = req[u].env) <=> (s \in states /\ s.env = req[u].env)
          BY <1>2, <1>5, <1>8, <1>10, <3>2 DEF now, q
        <5> QED
          BY <3>1, <4>1, <5>1 DEF StatesOf, Shape
      <4>3. Rehoming(u) /\ req[u].pc = "moving" => StatesOf(req[u].tenant, req[u].env)' = req[u].moving
        BY <3>1, <4>1, <4>2 DEF Shape, Rehoming, StatesOf
      <4> QED
        BY <1>5, <3>1, <4>1, <4>2, <4>3 DEF Shape, Owns, Exists, Rehoming, Undecided, Pending
    <3>3. CASE u = r
      BY <1>6, <3>3 DEF Shape, Rehoming, Idle
    <3> QED
      BY <3>2, <3>3
  <2> QED
    BY <1>6, <2>1 DEF TransfersInv, RequestsInv, Rehoming, At, Accepting, Writing, Idle
<1>12. StatesInv'
  <2> SUFFICES ASSUME NEW s \in states'
               PROVE  /\ Exists(s.env)
                      /\ s.ws = envs[s.env].owner \/ \E t \in Request : Rehoming(t)' /\ req'[t].env = s.env
    BY <1>5 DEF StatesInv, Exists
  <2>1. CASE s \in states /\ s.env # q.env
    <3>1. /\ Exists(s.env)
          /\ s.ws = envs[s.env].owner \/ \E t \in Request : Rehoming(t) /\ req[t].env = s.env
      BY <2>1 DEF TransfersInv, StatesInv
    <3> QED
      BY <1>6, <2>1, <3>1 DEF Rehoming, q
  <2>2. CASE s.env = q.env /\ s.ws = q.target
    BY <1>1, <2>2 DEF Owns
  <2> QED
    BY <1>8, <2>1, <2>2
<1> QED
  BY <1>5, <1>9, <1>11, <1>12 DEF TransfersInv, LabelInv, ProposalsInv, TokensInv, Owns, Exists, Undecided

-----------------------------------------------------------------------------
(* The theorems                                                            *)

LEMMA InitWell == TransfersInit => TransfersInv
<1> SUFFICES ASSUME TransfersInit
             PROVE  TransfersInv
  OBVIOUS
<1>1. Idle \in RequestRecord
  BY DEF Idle, RequestRecord
<1>2. TypeInv
  BY <1>1 DEF TransfersInit, TypeInv, TransfersTypeOK, OnOff, Exists
<1>3. LabelInv
  BY TransferAssumption DEF TransfersInit, LabelInv, NoEnv
<1>4. RequestsInv
  BY DEF TransfersInit, RequestsInv, Shape, Rehoming, Idle, At, Accepting, Writing
<1> QED
  BY <1>2, <1>3, <1>4 DEF TransfersInit, TransfersInv, ProposalsInv, StatesInv, TokensInv, Undecided,
                          NoProposal, None

(* What a step does to owners and proposals.                               *)
ByProposal ==
  /\ \A e \in Env : (Exists(e) /\ envs'[e].owner # envs[e].owner) =>
       \E p \in Proposal : /\ proposals[p].status = "pending" /\ proposals'[p].status = "accepted"
                           /\ proposals[p].env = e
                           /\ proposals[p].source = envs[e].owner
                           /\ proposals[p].target = envs'[e].owner
  /\ \A p \in Proposal : proposals[p].status \notin {None, "pending"} => proposals'[p] = proposals[p]

LEMMA NextWell ==
  ASSUME TransfersInv, [QuietNext]_transferVars
  PROVE  TransfersInv' /\ ByProposal
<1>1. CASE Administer
  <2>1. CASE \E t \in Tenant : DeleteTenant(t) \/ \E l \in OnOff : SetTenantLifecycleStatus(t, l)
    <3>1. /\ tenants' \in [Tenant -> OnOff] /\ UNCHANGED <<envs, states, tokens, proposals, req>>
      BY <2>1 DEF DeleteTenant, SetTenantLifecycleStatus, TransfersInv, TypeInv, TransfersTypeOK, OnOff
    <3> QED
      BY <3>1, TenantsChange DEF ByProposal
  <2>2. CASE \E k \in Token : DeleteAPIToken(k) \/ \E l \in OnOff : SetAPITokenLifecycleStatus(k, l)
    <3>1. UNCHANGED <<envs, proposals>>
      BY <2>2 DEF DeleteAPIToken, SetAPITokenLifecycleStatus
    <3> QED
      BY <2>2, <3>1, TokenStepWell DEF ByProposal
  <2>3. CASE \E r \in Request : InsertEnv(r)
    <3>1. UNCHANGED proposals
      BY <2>3 DEF InsertEnv
    <3> QED
      BY <2>3, <3>1, InsertEnvWell DEF ByProposal
  <2>4. CASE \E r \in Request : \E t \in Tenant, s \in Slug : CheckCreate(r, t, s)
    <3>1. TransfersInv' /\ UNCHANGED tables
      BY <2>4, StartWell
    <3> QED
      BY <3>1 DEF ByProposal, tables
  <2> QED
    BY <1>1, <2>1, <2>2, <2>3, <2>4 DEF Administer
<1>2. CASE Decide
  <2>1. PICK p \in Proposal, o \in {"rejected", "cancelled"} : Decline(p, o)
    BY <1>2 DEF Decide
  <2>2. /\ TransfersInv' /\ UNCHANGED envs /\ Undecided(p)
        /\ \A x \in Proposal \ {p} : proposals'[x] = proposals[x]
    BY <2>1, DeclineWell
  <2> QED
    BY <2>2 DEF ByProposal, Undecided
<1>3. CASE \E e \in Env : ~ OnOffer(e) /\ Relabel(e)
  <2>1. UNCHANGED proposals
    BY <1>3 DEF Relabel, RenameEnvironment, SetEnvironmentLifecycleStatus, DeleteEnvironment
  <2> QED
    BY <1>3, <2>1, RelabelWell DEF ByProposal
<1>4. ASSUME NEW r \in Request,
             \/ ~ Accepting /\ ~ Proposing /\ \E e \in Env, t \in Tenant : CheckPropose(r, e, t)
             \/ ~ Accepting /\ (\/ \E e \in Env : CheckToken(r, e)
                               \/ \E k \in Token : Authenticate(r, k))
             \/ UpsertState(r) \/ InsertToken(r)
             \/ ~ Writing /\ Transfer(r)
      PROVE  TransfersInv' /\ ByProposal
  <2>1. CASE \/ ~ Accepting /\ ~ Proposing /\ \E e \in Env, t \in Tenant : CheckPropose(r, e, t)
             \/ ~ Accepting /\ (\/ \E e \in Env : CheckToken(r, e)
                               \/ \E k \in Token : Authenticate(r, k))
             \/ ~ Writing /\ \E p \in Proposal : LookUpSource(r, p)
    <3>1. TransfersInv' /\ UNCHANGED tables
      BY <2>1, StartWell
    <3> QED
      BY <3>1 DEF ByProposal, tables
  <2>2. CASE UpsertState(r) \/ InsertToken(r)
    <3>1. UNCHANGED <<envs, proposals>>
      BY <2>2 DEF UpsertState, InsertToken
    <3> QED
      BY <2>2, <3>1, UpsertStateWell, TokenStepWell DEF ByProposal
  <2>3. CASE InsertProposal(r)
    <3>1. /\ TransfersInv' /\ UNCHANGED envs
          /\ \A p \in Proposal : proposals[p] # NoProposal => proposals'[p] = proposals[p]
      BY <2>3, InsertProposalWell
    <3> QED
      BY <3>1 DEF ByProposal, NoProposal
  <2>4. CASE Accept(r)
    <3> DEFINE p == req[r].prop
    <3>1. CASE UNCHANGED <<envs, proposals>>
      BY <2>4, <3>1, AcceptWell DEF ByProposal
    <3>2. CASE ~ UNCHANGED <<envs, proposals>>
      <4>1. /\ TransfersInv' /\ Undecided(p) /\ p \in Proposal
            /\ proposals' = [proposals EXCEPT ![p].status = "accepted"]
            /\ \A f \in Env : \/ envs'[f].owner = envs[f].owner
                              \/ /\ f = proposals[p].env
                                 /\ envs'[f].owner = proposals[p].target
                                 /\ envs[f].owner = proposals[p].source
        BY <2>4, <3>2, AcceptWell
      <4>2. /\ proposals[p] \in [env : Env, name : Labels, source : Tenant, target : Tenant,
                                 status : {"pending", "accepted", "rejected", "cancelled"}]
        BY <4>1, Fields DEF TransfersInv
      <4> HIDE DEF p
      <4>3. proposals'[p].status = "accepted" /\ \A x \in Proposal \ {p} : proposals'[x] = proposals[x]
        BY <4>1, <4>2 DEF TransfersInv, TypeInv, TransfersTypeOK
      <4> QED
        BY <4>1, <4>3 DEF ByProposal, Undecided
    <3> QED
      BY <3>1, <3>2
  <2>5. CASE ListStates(r)
    <3>1. TransfersInv' /\ UNCHANGED tables
      BY <2>5, ListStatesWell
    <3> QED
      BY <3>1 DEF ByProposal, tables
  <2>6. CASE MoveStates(r)
    BY <2>6, MoveStatesWell DEF ByProposal
  <2> QED
    BY <1>4, <2>1, <2>2, <2>3, <2>4, <2>5, <2>6 DEF Transfer
<1>5. CASE UNCHANGED transferVars
  <2>1. TypeInv' /\ LabelInv' /\ ProposalsInv' /\ StatesInv' /\ TokensInv'
    BY <1>5 DEF transferVars, TransfersInv, TypeInv, TransfersTypeOK, LabelInv, ProposalsInv, StatesInv,
                TokensInv, Exists, Owns, Undecided, Rehoming
  <2>2. RequestsInv'
    BY <1>5 DEF transferVars, TransfersInv, RequestsInv, Shape, Owns, Exists, Pending, Rehoming, Undecided,
                StatesOf, At, Accepting, Writing
  <2> QED
    BY <1>5, <2>1, <2>2 DEF TransfersInv, ByProposal, transferVars
<1> QED
  BY <1>1, <1>2, <1>3, <1>4, <1>5 DEF QuietNext

(* The inductive invariant of the tables of environments, tokens and       *)
(* ownership proposals in a maintenance window.                            *)
THEOREM TransfersSafe == QuietSpec => []TransfersInv
BY InitWell, NextWell, PTL DEF QuietSpec

(* StatesFollowEnvironment (acceptOwnershipTransferAndMoveStates): between *)
(* transfers every state lies under the workspace that owns its            *)
(* environment, and every token names that workspace, for any number of    *)
(* environments, proposals and requests.                                   *)
THEOREM StatesMoveAlong == QuietSpec => []StatesFollowEnvironment
<1>1. TransfersInv => StatesFollowEnvironment
  BY DEF TransfersInv, TypeInv, StatesFollowEnvironment, StatesInv, TokensInv, Rehoming, Owns
<1> QED
  BY <1>1, TransfersSafe, PTL

(* OwnerChangesByProposal (resolveOwnershipTransferProposal): an           *)
(* environment changes hands only by its own proposal, pending until then, *)
(* from the workspace that has it, and a decided proposal stays decided.   *)
THEOREM OwnersChangeByProposal == QuietSpec => OwnerChangesByProposal
<1>1. TransfersInv /\ [QuietNext]_transferVars => [ByProposal]_transferVars
  BY NextWell
<1>2. OwnerChangesByProposal <=> [][ByProposal]_transferVars
  BY DEF OwnerChangesByProposal, ByProposal
<1> QED
  BY <1>1, <1>2, TransfersSafe, PTL DEF QuietSpec

-----------------------------------------------------------------------------
(* Rows of states                                                          *)

(* Locks are of live rows, each of the row it was granted on, and one of a *)
(* kind where the row's birth says so.                                     *)
RowLocksOK ==
  \A i \in Id : /\ ~ Live(i) => locks[i] = {}
                /\ \A l \in locks[i] : issued[l].row = i
                /\ (i \notin relaxed /\ rows[i].born \in {"backend", "vanilla"}) =>
                     rows[i].exclusive /\ \A l, m \in locks[i] : l = m

(* What a writer that looked up knows, but for the rows that changed since.*)
Noticed(c) ==
  /\ \A i \in Id : (Live(i) /\ rows[i].name = c.name /\ i \notin c.late) => rows[i].status = "active"
  /\ c.found = NoId => ArchivedAs(c.name) \subseteq c.late
  /\ (c.found \in Id /\ c.found \notin c.late) =>
       /\ Live(c.found)
       /\ \/ rows[c.found].name = c.name
          \/ c.found \in ArchivedAs(c.name) /\ Differs(c.found, c.lineage)

(* kl apply still finds the row it read under the name.                    *)
BaseKept(c) ==
  c.op = "apply" => /\ c.base \in Id
                    /\ c.base \notin c.late => Live(c.base) /\ rows[c.base].name = c.name

(* The row that is held, or the name of the row to come.                   *)
RowHeld(c) ==
  /\ c.row \in Id => Live(c.row) /\ rows[c.row].name = c.name
  /\ c.row = NoId => Exact(c.name) = {}

(* What a deletion knows that compared its lock.                           *)
Cleared(c) ==
  /\ c.lock # NoLock => issued[c.lock].row = c.found
  /\ (c.found \notin relaxed /\ rows[c.found].born \in {"backend", "vanilla"}) => c.seen \subseteq {c.lock}

CallOK(c) ==
  /\ c.pc \in {"looked", "entered"} => Noticed(c)
  /\ c.pc \in {"read", "looked", "entered"} => BaseKept(c)
  /\ c.pc = "read" => c.op = "apply"
  /\ c.pc = "entered" => /\ RowHeld(c)
                         /\ c.hard = 0 \/ c.counted + Cardinality(c.res) <= c.hard
  /\ c.pc \in {"found", "checked"} => c.found \in Id /\ rows[c.found].status # "none"
  /\ (c.pc = "found" /\ c.op = "lifecycle") => c.to \in Status
  /\ c.pc = "checked" => Cleared(c)

(* One holder of a row, and of a name.                                     *)
Holders == \A q, r \in Caller :
  (In(q, "entered") /\ In(r, "entered") /\ call[q].row = call[r].row
     /\ (call[q].row = NoId => call[q].name = call[r].name)) => q = r

RowsInv == RowsTypeOK /\ RowLocksOK /\ Holders /\ \A r \in Caller : CallOK(call[r])

LEMMA RowsParts ==
  ASSUME RowsInv
  PROVE  /\ rows \in [Id -> RowRecord] /\ locks \in [Id -> SUBSET LockId]
         /\ issued \in [LockId -> [name : AnyName, row : Id \cup {NoId}]]
         /\ call \in [Caller -> CallRecord] /\ mode \in Modes /\ limit \in SoftLimits
         /\ relaxed \subseteq Id /\ changes \in Nat /\ NamesUnique
         /\ RowLocksOK /\ Holders /\ \A r \in Caller : CallOK(call[r])
BY DEF RowsInv, RowsTypeOK

LEMMA NoRowTyped == NoRow \in RowRecord /\ NoCall \in CallRecord
<1>1. <<>> \in AnyName
  BY DEF AnyName
<1> QED BY <1>1, RowsAssumption DEF NoRow, NoCall, RowRecord, CallRecord, Status, Modes

LEMMA CallTo ==
  ASSUME call \in [Caller -> CallRecord], NEW r \in Caller, NEW c \in CallRecord, To(r, c)
  PROVE  /\ call' \in [Caller -> CallRecord] /\ call'[r] = c
         /\ \A q \in Caller \ {r} : call'[q] = call[q]
BY DEF To

(* Rows as others see them: none disappears, is renamed or changes its     *)
(* status or its known lineage; new ones are active.                       *)
RowsSteady == \A j \in Id :
  /\ Live(j) => /\ rows'[j].name = rows[j].name /\ rows'[j].status = rows[j].status
                /\ rows[j].lineage # NoLineage => rows'[j].lineage = rows[j].lineage
  /\ (~ Live(j) /\ rows'[j].status \in Status) => rows'[j].status = "active"

(* A row is born once, a lock granted on one row, a configuration relaxed  *)
(* for good.                                                               *)
HistoryKept ==
  /\ relaxed \subseteq relaxed'
  /\ \A x \in LockId : issued[x].row \in Id => issued'[x] = issued[x]
  /\ \A j \in Id : rows[j].status # "none" =>
       rows'[j].status # "none" /\ rows'[j].born \in {rows[j].born, "none"}

LEMMA ClearedKept ==
  ASSUME HistoryKept, NEW c \in CallRecord, c.found \in Id, rows[c.found].status # "none", Cleared(c)
  PROVE  Cleared(c)'
<1>1. c.lock # NoLock => issued'[c.lock].row = c.found
  BY DEF HistoryKept, Cleared, CallRecord
<1>2. (c.found \notin relaxed' /\ rows'[c.found].born \in {"backend", "vanilla"}) => c.seen \subseteq {c.lock}
  BY DEF HistoryKept, Cleared
<1> QED BY <1>1, <1>2 DEF Cleared

Unclaimed(c) ==
  (c.pc = "entered" /\ c.row = NoId) =>
     \A j \in Id : (~ Live(j) /\ rows'[j].status \in Status) => rows'[j].name # c.name

LEMMA CallSteady ==
  ASSUME RowsSteady, HistoryKept, NEW c \in CallRecord, CallOK(c), Unclaimed(c)
  PROVE  CallOK(c)'
<1>1. c.pc \in {"looked", "entered"} => Noticed(c)'
  <2> SUFFICES ASSUME Noticed(c) PROVE Noticed(c)'
    BY DEF CallOK
  <2>1. \A i \in Id : (Live(i)' /\ rows'[i].name = c.name /\ i \notin c.late) => rows'[i].status = "active"
    BY DEF Noticed, RowsSteady, Live
  <2>2. c.found = NoId => ArchivedAs(c.name)' \subseteq c.late
    BY DEF Noticed, RowsSteady, Live, ArchivedAs, Status
  <2>3. ASSUME c.found \in Id, c.found \notin c.late
        PROVE  /\ Live(c.found)'
               /\ \/ rows'[c.found].name = c.name
                  \/ c.found \in ArchivedAs(c.name)' /\ Differs(c.found, c.lineage)'
    <3>1. CASE rows[c.found].name = c.name
      BY <2>3, <3>1 DEF Noticed, RowsSteady, Live
    <3>2. CASE c.found \in ArchivedAs(c.name) /\ Differs(c.found, c.lineage)
      BY <2>3, <3>2 DEF Noticed, RowsSteady, Live, ArchivedAs, Differs
    <3> QED BY <2>3, <3>1, <3>2 DEF Noticed
  <2> QED BY <2>1, <2>2, <2>3 DEF Noticed
<1>2. c.pc \in {"read", "looked", "entered"} => BaseKept(c)'
  BY DEF CallOK, BaseKept, RowsSteady, Live
<1>3. c.pc = "entered" => RowHeld(c)'
  <2> SUFFICES ASSUME c.pc = "entered", RowHeld(c) PROVE RowHeld(c)'
    BY DEF CallOK
  <2>1. c.row \in Id => Live(c.row)' /\ rows'[c.row].name = c.name
    BY DEF RowHeld, RowsSteady, Live
  <2>2. c.row = NoId => Exact(c.name)' = {}
    BY DEF RowHeld, RowsSteady, Live, Exact, Unclaimed
  <2> QED BY <2>1, <2>2 DEF RowHeld
<1>4. c.pc \in {"found", "checked"} => rows'[c.found].status # "none"
  BY DEF CallOK, HistoryKept
<1>5. c.pc = "checked" => Cleared(c)'
  BY ClearedKept DEF CallOK
<1> QED BY <1>1, <1>2, <1>3, <1>4, <1>5 DEF CallOK

(* The others when the row i changes its name or status, or goes.          *)
Lately(c, i) ==
  [c EXCEPT !.late = @ \cup {k \in {i} : c.pc \in {"read", "looked", "entered"}}]

LEMMA CallLately ==
  ASSUME NEW c \in CallRecord, NEW i \in Id, CallOK(c), \A j \in Id \ {i} : rows'[j] = rows[j],
         HistoryKept, ~ (c.pc = "entered" /\ c.row = i),
         rows'[i].status \in Status => ~ (c.pc = "entered" /\ c.row = NoId /\ c.name = rows'[i].name)
  PROVE  Lately(c, i) \in CallRecord /\ CallOK(Lately(c, i))'
<1> DEFINE d == Lately(c, i)
<1>1. /\ d \in CallRecord /\ d.pc = c.pc /\ d.op = c.op /\ d.name = c.name /\ d.found = c.found
      /\ d.lineage = c.lineage /\ d.base = c.base /\ d.row = c.row /\ d.hard = c.hard
      /\ d.counted = c.counted /\ d.res = c.res /\ d.seen = c.seen /\ d.lock = c.lock /\ d.to = c.to
      /\ c.pc \in {"read", "looked", "entered"} => d.late = c.late \cup {i}
  BY DEF Lately, CallRecord
<1> HIDE DEF d
<1>2. ASSUME c.pc \in {"looked", "entered"}
      PROVE  Noticed(d)'
  <2> USE <1>1, <1>2
  <2>0. Noticed(c) /\ d.late = c.late \cup {i}
    BY DEF CallOK
  <2>1. \A j \in Id : (Live(j)' /\ rows'[j].name = d.name /\ j \notin d.late) => rows'[j].status = "active"
    BY <2>0 DEF Noticed, Live
  <2>2. d.found = NoId => ArchivedAs(d.name)' \subseteq d.late
    BY <2>0 DEF Noticed, ArchivedAs
  <2>3. (d.found \in Id /\ d.found \notin d.late) =>
          /\ Live(d.found)'
          /\ \/ rows'[d.found].name = d.name
             \/ d.found \in ArchivedAs(d.name)' /\ Differs(d.found, d.lineage)'
    BY <2>0 DEF Noticed, Live, ArchivedAs, Differs
  <2> QED BY <2>1, <2>2, <2>3 DEF Noticed
<1>3. c.pc \in {"read", "looked", "entered"} => BaseKept(d)'
  BY <1>1 DEF CallOK, BaseKept, Live
<1>4. c.pc = "entered" => RowHeld(d)'
  <2> SUFFICES ASSUME c.pc = "entered", RowHeld(c) PROVE RowHeld(d)'
    BY DEF CallOK
  <2>1. d.row \in Id => Live(d.row)' /\ rows'[d.row].name = d.name
    BY <1>1 DEF RowHeld, Live
  <2>2. d.row = NoId => Exact(d.name)' = {}
    BY <1>1 DEF RowHeld, Live, Exact
  <2> QED BY <2>1, <2>2 DEF RowHeld
<1>5. c.pc \in {"found", "checked"} => d.found \in Id /\ rows'[d.found].status # "none"
  BY <1>1 DEF CallOK, HistoryKept
<1>6. ASSUME c.pc = "checked" PROVE Cleared(d)'
  <2>1. Cleared(d) /\ d.found \in Id /\ rows[d.found].status # "none"
    BY <1>1, <1>6 DEF CallOK, Cleared
  <2> QED BY <1>1, <2>1, ClearedKept
<1> QED BY <1>1, <1>2, <1>3, <1>4, <1>5, <1>6 DEF CallOK, d

LEMMA CallSame ==
  ASSUME HistoryKept, NEW c \in CallRecord, CallOK(c), rows' = rows
  PROVE  CallOK(c)'
BY CallSteady DEF RowsSteady, Unclaimed, Live

(* A step of one request that leaves the tables alone.                     *)
LEMMA OnlyCall ==
  ASSUME RowsInv, UNCHANGED <<rows, locks, issued, relaxed>>,
         mode' \in Modes, limit' \in SoftLimits, changes' \in Nat,
         NEW r \in Caller, NEW c \in CallRecord, To(r, c), CallOK(c),
         c.pc = "entered" => \A q \in Caller \ {r} :
             In(q, "entered") => \/ call[q].row # c.row
                                 \/ c.row = NoId /\ call[q].name # c.name
  PROVE  RowsInv'
<1>1. /\ call' \in [Caller -> CallRecord] /\ call'[r] = c
      /\ \A q \in Caller \ {r} : call'[q] = call[q]
  BY CallTo, RowsParts
<1>2. RowsTypeOK'
  BY <1>1, RowsParts DEF RowsTypeOK, NamesUnique, Live
<1>3. RowLocksOK'
  BY RowsParts DEF RowLocksOK, Live
<1>4. Holders'
  BY <1>1, RowsParts DEF Holders, In
<1> HistoryKept
  BY DEF HistoryKept
<1>5. ASSUME NEW q \in Caller PROVE CallOK(call[q])'
  <2>1. CASE q = r
    BY <1>1, <2>1, CallSame
  <2>2. CASE q # r
    <3>1. call[q] \in CallRecord /\ CallOK(call[q]) /\ call'[q] = call[q]
      BY <1>1, <2>2, RowsParts
    <3> QED BY <3>1, CallSame
  <2> QED BY <2>1, <2>2
<1> QED BY <1>2, <1>3, <1>4, <1>5 DEF RowsInv

LEMMA QuietCall ==
  ASSUME NEW c \in CallRecord, c.pc \in {"idle", "found"},
         c.pc = "found" => c.found \in Id /\ rows[c.found].status # "none",
         (c.pc = "found" /\ c.op = "lifecycle") => c.to \in Status
  PROVE  CallOK(c)
BY DEF CallOK

LEMMA LookUpNoticed ==
  ASSUME RowsInv, NEW c \in CallRecord, c.found \in LookUp(c.name, c.lineage)
  PROVE  Noticed(c)
<1>1. \A i \in Id : (Live(i) /\ rows[i].name = c.name) => rows[i].status = "active"
  <2> SUFFICES ASSUME NEW i \in Id, Live(i), rows[i].name = c.name PROVE rows[i].status = "active"
    OBVIOUS
  <2>1. Found(c.name) = Exact(c.name) /\ i \in Exact(c.name)
    BY DEF Found, Exact
  <2>2. c.found \in Exact(c.name) /\ UpsertAdmits(c.found, c.name, c.lineage)
    BY <2>1 DEF LookUp
  <2>3. c.found = i
    BY <2>2, RowsParts DEF Exact, NamesUnique
  <2> QED BY <2>2, <2>3 DEF UpsertAdmits
<1>2. c.found = NoId => ArchivedAs(c.name) = {}
  BY RowsAssumption DEF LookUp, Found, Exact, ArchivedAs
<1>3. ASSUME c.found \in Id
      PROVE  /\ Live(c.found)
             /\ \/ rows[c.found].name = c.name
                \/ c.found \in ArchivedAs(c.name) /\ Differs(c.found, c.lineage)
  <2>1. c.found \in Found(c.name) /\ UpsertAdmits(c.found, c.name, c.lineage)
    BY <1>3, RowsAssumption DEF LookUp
  <2> QED BY <2>1 DEF Found, Exact, ArchivedAs, UpsertAdmits, Live, Status
<1> QED BY <1>1, <1>2, <1>3 DEF Noticed

LEMMA FoundIsId ==
  ASSUME NEW n, NEW g
  PROVE  /\ Found(n) \subseteq Id /\ LookUp(n, g) \subseteq Id \cup {NoId}
         /\ \A i \in Found(n) : rows[i].status # "none"
BY DEF Found, Exact, ArchivedAs, LookUp, Live, Status

LEMMA PlainTyped ==
  ASSUME NEW n \in Plain PROVE n \in AnyName
<1>1. PICK b \in NameOfState : n = <<b>>
  BY DEF Plain
<1>2. <<b>> \in Seq(NameOfState \cup Label)
  OBVIOUS
<1> QED BY <1>1, <1>2 DEF AnyName

LEMMA NamesTyped ==
  ASSUME RowsInv, NEW n \in Names PROVE n \in AnyName
BY PlainTyped, RowsParts DEF Names, RowRecord

LEMMA BeginLockStep ==
  ASSUME RowsInv, NEW r \in Caller, NEW n \in Plain, BeginLock(r, n)
  PROVE  RowsInv'
<1>1. PICK i \in LookUp(n, NoLineage) :
        To(r, [NoCall EXCEPT !.pc = "looked", !.op = "lock", !.name = n, !.mode = mode, !.found = i])
  BY DEF BeginLock
<1> DEFINE c == [NoCall EXCEPT !.pc = "looked", !.op = "lock", !.name = n, !.mode = mode, !.found = i]
<1>2. /\ c \in CallRecord /\ c.pc = "looked" /\ c.op = "lock" /\ c.name = n /\ c.found = i
      /\ c.lineage = NoLineage
  BY NoRowTyped, PlainTyped, FoundIsId, RowsParts DEF NoCall, CallRecord
<1> HIDE DEF c
<1>3. CallOK(c)
  BY <1>2, LookUpNoticed DEF CallOK, BaseKept
<1> QED BY <1>1, <1>2, <1>3, OnlyCall, RowsParts DEF BeginLock, c

LEMMA BeginPostStep ==
  ASSUME RowsInv, NEW r \in Caller, NEW n \in Plain, NEW l \in LockId \cup {NoLock},
         NEW g \in Lineage, NEW res \in SUBSET Resource, BeginPost(r, n, l, g, res)
  PROVE  RowsInv'
<1>1. PICK i \in LookUp(n, g) :
        To(r, [NoCall EXCEPT !.pc = "looked", !.op = "post", !.name = n, !.lock = l, !.lineage = g,
                             !.res = res, !.mode = mode, !.found = i])
  BY DEF BeginPost
<1> DEFINE c == [NoCall EXCEPT !.pc = "looked", !.op = "post", !.name = n, !.lock = l, !.lineage = g,
                             !.res = res, !.mode = mode, !.found = i]
<1>2. /\ c \in CallRecord /\ c.pc = "looked" /\ c.op = "post" /\ c.name = n /\ c.found = i
      /\ c.lineage = g
  BY NoRowTyped, PlainTyped, FoundIsId, RowsParts DEF NoCall, CallRecord
<1> HIDE DEF c
<1>3. CallOK(c)
  BY <1>2, LookUpNoticed DEF CallOK, BaseKept
<1> QED BY <1>1, <1>2, <1>3, OnlyCall, RowsParts DEF BeginPost, c

LEMMA ReadTrunkStep ==
  ASSUME RowsInv, NEW r \in Caller, NEW n \in Plain, ReadTrunk(r, n)
  PROVE  RowsInv'
<1>1. PICK i \in Exact(n) :
        /\ rows[i].current \in 1..MaxSerial - 1
        /\ To(r, [NoCall EXCEPT !.pc = "read", !.op = "apply", !.name = n, !.base = i,
                    !.lineage = rows[i].lineage, !.serial = rows[i].current + 1, !.mode = mode])
  BY DEF ReadTrunk
<1> DEFINE c == [NoCall EXCEPT !.pc = "read", !.op = "apply", !.name = n, !.base = i,
                    !.lineage = rows[i].lineage, !.serial = rows[i].current + 1, !.mode = mode]
<1>2. /\ i \in Id /\ Live(i) /\ rows[i].name = n /\ rows[i] \in RowRecord
      /\ rows[i].current + 1 \in 0..MaxSerial
  BY <1>1, RowsParts, RowsAssumption DEF Exact
<1>3. /\ c \in CallRecord /\ c.pc = "read" /\ c.op = "apply" /\ c.name = n /\ c.base = i
  <2>1. n \in AnyName /\ rows[i].lineage \in Lineage \cup {NoLineage} /\ mode \in Modes
    BY <1>2, PlainTyped, RowsParts DEF RowRecord
  <2> QED BY <1>2, <2>1, NoRowTyped DEF CallRecord
<1> HIDE DEF c
<1>4. CallOK(c)
  BY <1>2, <1>3 DEF CallOK, BaseKept
<1> QED BY <1>1, <1>3, <1>4, OnlyCall, RowsParts DEF ReadTrunk, c

LEMMA BeginApplyStep ==
  ASSUME RowsInv, NEW r \in Caller, NEW res \in SUBSET Resource, BeginApply(r, res)
  PROVE  RowsInv'
<1>1. PICK i \in LookUp(call[r].name, call[r].lineage) :
        To(r, [call[r] EXCEPT !.pc = "looked", !.res = res, !.found = i])
  BY DEF BeginApply
<1> DEFINE c == [call[r] EXCEPT !.pc = "looked", !.res = res, !.found = i]
<1>2. call[r] \in CallRecord /\ CallOK(call[r]) /\ call[r].pc = "read"
  BY RowsParts DEF BeginApply, In
<1>3. /\ c \in CallRecord /\ c.pc = "looked" /\ c.op = call[r].op /\ c.name = call[r].name
      /\ c.found = i /\ c.lineage = call[r].lineage /\ c.base = call[r].base /\ c.late = call[r].late
  BY <1>2, FoundIsId DEF CallRecord
<1> HIDE DEF c
<1>4. CallOK(c)
  BY <1>1, <1>2, <1>3, LookUpNoticed DEF CallOK, BaseKept
<1> QED BY <1>1, <1>3, <1>4, OnlyCall, RowsParts DEF BeginApply, c

LEMMA CountedNat ==
  ASSUME NEW i
  PROVE  /\ IsFiniteSet(Managed) /\ IsFiniteSet({p \in Managed : p[1] # i})
         /\ OtherResources(i) \in Nat
<1>1. IsFiniteSet(Id \X Resource)
  BY FS_Product, RowsAssumption
<1>2. IsFiniteSet(Managed)
  BY <1>1, FS_Subset DEF Managed
<1>3. {p \in Managed : p[1] # i} \in SUBSET Managed
  OBVIOUS
<1>4. IsFiniteSet({p \in Managed : p[1] # i})
  BY <1>2, <1>3, FS_Subset
<1> QED BY <1>2, <1>4, FS_CardinalityType DEF OtherResources

LEMMA TargetOf ==
  ASSUME RowsInv, NEW n
  PROVE  /\ Target(n) \in Id => Live(Target(n)) /\ rows[Target(n)].name = n
         /\ Target(n) = NoId => Exact(n) = {}
         /\ Target(n) \in Id \cup {NoId}
<1>1. CASE Exact(n) = {}
  BY <1>1, RowsAssumption DEF Target
<1>2. CASE Exact(n) # {}
  <2>1. Target(n) \in Exact(n)
    BY <1>2 DEF Target
  <2> QED BY <2>1, RowsAssumption DEF Exact
<1> QED BY <1>1, <1>2

LEMMA EnterStep ==
  ASSUME RowsInv, NEW r \in Caller, Enter(r)
  PROVE  RowsInv'
<1> DEFINE i == Target(call[r].name)
           hard == HardQuota(limit)
           c == [call[r] EXCEPT !.pc = "entered", !.row = i, !.counted = OtherResources(i), !.hard = hard]
<1>1. call[r] \in CallRecord /\ CallOK(call[r]) /\ call[r].pc = "looked"
  BY RowsParts DEF Enter, In
<1>2. hard \in Nat
  <2>1. limit \in Nat
    BY RowsParts, RowsAssumption
  <2> QED BY <2>1 DEF HardQuota
<1>3. OtherResources(i) \in Nat
  BY CountedNat
<1>4. i \in Id \cup {NoId}
  BY TargetOf
<1>5. /\ c \in CallRecord /\ c.pc = "entered" /\ c.op = call[r].op /\ c.name = call[r].name
      /\ c.found = call[r].found /\ c.lineage = call[r].lineage /\ c.base = call[r].base
      /\ c.late = call[r].late /\ c.row = i /\ c.hard = hard /\ c.counted = OtherResources(i)
      /\ c.res = call[r].res
  <2> HIDE DEF i, hard
  <2> QED BY <1>1, <1>2, <1>3, <1>4 DEF CallRecord
<1>6. To(r, c) /\ WithinQuota(i, call[r].res, hard) /\ MayEnter(call[r].name)
  BY DEF Enter
<1>7. MayEnter(call[r].name) => Free(i) /\ NameFree(call[r].name)
  BY DEF MayEnter
<1> HIDE DEF c
<1>8. RowHeld(c)
  BY <1>5, TargetOf DEF RowHeld
<1>9. CallOK(c)
  <2>1. Noticed(c) /\ BaseKept(c)
    BY <1>1, <1>5 DEF CallOK, Noticed, BaseKept
  <2> HIDE DEF i, hard
  <2> QED BY <1>5, <1>6, <1>8, <2>1 DEF CallOK, WithinQuota
<1>10. ASSUME NEW q \in Caller \ {r}, In(q, "entered")
       PROVE  call[q].row # c.row \/ (c.row = NoId /\ call[q].name # c.name)
  <2> HIDE DEF i, hard
  <2>1. ~ Holds(q, i) /\ ~ (Holds(q, NoId) /\ call[q].name = call[r].name)
    BY <1>6, <1>7 DEF Free, NameFree
  <2> QED BY <1>4, <1>5, <1>10, <2>1 DEF Holds
<1> QED BY <1>5, <1>6, <1>9, <1>10, OnlyCall, RowsParts DEF Enter

LEMMA FailStep ==
  ASSUME RowsInv, NEW r \in Caller, Fail(r)
  PROVE  RowsInv'
<1>1. NoCall \in CallRecord /\ NoCall.pc = "idle" /\ CallOK(NoCall)
  BY NoRowTyped, QuietCall DEF NoCall
<1> QED BY <1>1, OnlyCall, RowsParts DEF Fail, Answer

LEMMA BeginLifecycleStep ==
  ASSUME RowsInv, NEW r \in Caller, NEW n \in Names, NEW to \in Status, BeginLifecycle(r, n, to)
  PROVE  RowsInv'
<1>1. PICK i \in Found(n) :
        To(r, [NoCall EXCEPT !.pc = "found", !.op = "lifecycle", !.name = n, !.to = to, !.found = i])
  BY DEF BeginLifecycle
<1> DEFINE c == [NoCall EXCEPT !.pc = "found", !.op = "lifecycle", !.name = n, !.to = to, !.found = i]
<1>2. /\ c \in CallRecord /\ c.pc = "found" /\ (c.op = "lifecycle" => c.to \in Status)
      /\ c.found \in Id /\ rows[c.found].status # "none"
  BY NoRowTyped, NamesTyped, FoundIsId DEF NoCall, CallRecord
<1>3. changes' \in Nat
  BY RowsParts DEF BeginLifecycle, Change
<1> HIDE DEF c
<1> QED BY <1>1, <1>2, <1>3, QuietCall, OnlyCall, RowsParts DEF BeginLifecycle, c

LEMMA BeginDeleteStep ==
  ASSUME RowsInv, NEW r \in Caller, NEW n \in Names, NEW l \in LockId \cup {NoLock}, BeginDelete(r, n, l)
  PROVE  RowsInv'
<1>1. PICK i \in Found(n) :
        To(r, [NoCall EXCEPT !.pc = "found", !.op = "delete", !.name = n, !.lock = l, !.found = i])
  BY DEF BeginDelete
<1> DEFINE c == [NoCall EXCEPT !.pc = "found", !.op = "delete", !.name = n, !.lock = l, !.found = i]
<1>2. /\ c \in CallRecord /\ c.pc = "found" /\ (c.op = "lifecycle" => c.to \in Status)
      /\ c.found \in Id /\ rows[c.found].status # "none"
  BY NoRowTyped, NamesTyped, FoundIsId DEF NoCall, CallRecord
<1>3. changes' \in Nat
  BY RowsParts DEF BeginDelete, Change
<1> HIDE DEF c
<1> QED BY <1>1, <1>2, <1>3, QuietCall, OnlyCall, RowsParts DEF BeginDelete, c

LEMMA CheckLockStep ==
  ASSUME RowsInv, NEW r \in Caller, CheckLock(r)
  PROVE  RowsInv'
<1> DEFINE S == locks[call[r].found]
           c == [call[r] EXCEPT !.pc = "checked", !.seen = S]
<1>1. /\ call[r] \in CallRecord /\ To(r, c) /\ LockAdmits(call[r].found, call[r].lock)
      /\ call[r].found \in Id /\ rows[call[r].found].status # "none"
  BY RowsParts DEF CheckLock, In, CallOK
<1>2. S \in SUBSET LockId
  BY <1>1, RowsParts
<1>3. /\ call[r].lock # NoLock => issued[call[r].lock].row = call[r].found
      /\ (call[r].found \notin relaxed /\ rows[call[r].found].born \in {"backend", "vanilla"}) =>
            S \subseteq {call[r].lock}
  BY <1>1, RowsParts DEF LockAdmits, RowLocksOK
<1> HIDE DEF S
<1>4. /\ c \in CallRecord /\ c.pc = "checked" /\ c.found = call[r].found
      /\ c.lock = call[r].lock /\ c.seen = S
  BY <1>1, <1>2 DEF CallRecord
<1> HIDE DEF c
<1>5. CallOK(c)
  BY <1>1, <1>3, <1>4 DEF CallOK, Cleared
<1> QED BY <1>1, <1>4, <1>5, OnlyCall, RowsParts DEF CheckLock

(* Settings, and the end of locks.                                         *)
LEMMA LocksShrink ==
  ASSUME RowsInv, UNCHANGED <<rows, issued, relaxed, call>>,
         mode' \in Modes, limit' \in SoftLimits, changes' \in Nat,
         locks' \in [Id -> SUBSET LockId], \A j \in Id : locks'[j] \subseteq locks[j]
  PROVE  RowsInv'
<1>1. RowsTypeOK'
  BY RowsParts DEF RowsTypeOK, NamesUnique, Live
<1>2. RowLocksOK'
  BY RowsParts DEF RowLocksOK, Live
<1>3. Holders'
  BY RowsParts DEF Holders, In
<1> HistoryKept
  BY DEF HistoryKept
<1>4. ASSUME NEW q \in Caller PROVE CallOK(call[q])'
  <2>1. call[q] \in CallRecord /\ CallOK(call[q]) /\ call'[q] = call[q]
    BY RowsParts
  <2> QED BY <2>1, CallSame
<1> QED BY <1>1, <1>2, <1>3, <1>4 DEF RowsInv

LEMMA ReleaseLockStep ==
  ASSUME RowsInv, NEW l \in LockId, ReleaseLock(l)
  PROVE  RowsInv'
<1>1. PICK i \in Id : locks' = [locks EXCEPT ![i] = @ \ {l}]
  BY DEF ReleaseLock, Exact
<1>2. /\ locks' \in [Id -> SUBSET LockId] /\ \A j \in Id : locks'[j] \subseteq locks[j]
  BY <1>1, RowsParts
<1> QED BY <1>2, RowsParts, LocksShrink DEF ReleaseLock

LEMMA ForceReleaseLockStep ==
  ASSUME RowsInv, NEW n, ForceReleaseLock(n)
  PROVE  RowsInv'
<1>1. PICK i \in Id : locks' = [locks EXCEPT ![i] = {}]
  BY DEF ForceReleaseLock, Exact
<1>2. /\ locks' \in [Id -> SUBSET LockId] /\ \A j \in Id : locks'[j] \subseteq locks[j]
  BY <1>1, RowsParts
<1> QED BY <1>2, RowsParts, LocksShrink DEF ForceReleaseLock

LEMMA SetStateExclusiveLocksStep ==
  ASSUME RowsInv, NEW n, NEW on \in BOOLEAN, SetStateExclusiveLocks(n, on)
  PROVE  RowsInv'
<1>1. PICK i \in Exact(n) :
        /\ rows' = [rows EXCEPT ![i].exclusive = on] /\ rows[i].exclusive # on
        /\ relaxed' = IF on THEN relaxed ELSE relaxed \cup {i}
  BY DEF SetStateExclusiveLocks
<1>2. i \in Id /\ rows[i] \in RowRecord
  BY RowsParts DEF Exact
<1>3. UNCHANGED <<locks, issued, mode, limit, call>> /\ changes' \in Nat
  BY RowsParts DEF SetStateExclusiveLocks, Change
<1>4. /\ rows' \in [Id -> RowRecord] /\ relaxed' \subseteq Id
      /\ \A j \in Id : /\ rows'[j].name = rows[j].name /\ rows'[j].status = rows[j].status
                       /\ rows'[j].lineage = rows[j].lineage /\ rows'[j].born = rows[j].born
                       /\ j # i => rows'[j] = rows[j]
      /\ rows'[i].exclusive = on
  BY <1>1, <1>2, RowsParts DEF RowRecord
<1>5. RowsTypeOK'
  BY <1>3, <1>4, RowsParts DEF RowsTypeOK, NamesUnique, Live
<1>6. RowLocksOK'
  <2> SUFFICES ASSUME NEW j \in Id
               PROVE  /\ ~ Live(j)' => locks'[j] = {}
                      /\ \A l \in locks'[j] : issued'[l].row = j
                      /\ (j \notin relaxed' /\ rows'[j].born \in {"backend", "vanilla"}) =>
                            rows'[j].exclusive /\ \A l, m \in locks'[j] : l = m
    BY DEF RowLocksOK
  <2>1. locks'[j] = locks[j] /\ issued' = issued /\ (Live(j) <=> Live(j)') /\ rows'[j].born = rows[j].born
    BY <1>3, <1>4 DEF Live
  <2>2. (j \notin relaxed' /\ rows[j].born \in {"backend", "vanilla"}) => j \notin relaxed /\ rows'[j].exclusive
    BY <1>1, <1>2, <1>4, RowsParts DEF RowLocksOK
  <2> QED BY <2>1, <2>2, RowsParts DEF RowLocksOK
<1>7. Holders'
  BY <1>3, RowsParts DEF Holders, In
<1>8. ASSUME NEW q \in Caller PROVE CallOK(call[q])'
  <2>1. call[q] \in CallRecord /\ CallOK(call[q]) /\ call'[q] = call[q]
    BY <1>3, RowsParts
  <2>2. RowsSteady /\ Unclaimed(call[q])
    BY <1>4 DEF RowsSteady, Unclaimed, Live
  <2>3. HistoryKept
    BY <1>1, <1>3, <1>4 DEF HistoryKept
  <2> QED BY <2>1, <2>2, <2>3, CallSteady
<1> QED BY <1>5, <1>6, <1>7, <1>8 DEF RowsInv

LEMMA SettingStep ==
  ASSUME RowsInv, NEW m \in Modes, NEW k \in SoftLimits,
         SetEnvironmentStateLockDefaultMode(m) \/ SetTenantEntitlements(k)
  PROVE  RowsInv'
<1>1. UNCHANGED <<rows, locks, issued, relaxed, call>>
  BY DEF SetEnvironmentStateLockDefaultMode, SetTenantEntitlements
<1>2. mode' \in Modes /\ limit' \in SoftLimits /\ changes' \in Nat
  BY RowsParts DEF SetEnvironmentStateLockDefaultMode, SetTenantEntitlements, Change
<1>3. \A j \in Id : locks'[j] \subseteq locks[j]
  BY <1>1
<1> QED BY <1>1, <1>2, <1>3, RowsParts, LocksShrink

-----------------------------------------------------------------------------
(* Steps that change a row                                                 *)

LEMMA CreatedTyped ==
  ASSUME RowsInv, NEW r \in Caller
  PROVE  /\ Created(r) \in RowRecord /\ Created(r).name = call[r].name /\ Created(r).status = "active"
         /\ Created(r).born \in {"backend", "vanilla"} => Created(r).exclusive
         /\ Created(r).serials = {} /\ Created(r).res = {}
<1>1. call[r] \in CallRecord
  BY RowsParts
<1>2. Creator(call[r].op) \in {"backend", "kl"}
  BY DEF Creator
<1>3. /\ Created(r) = [NoRow EXCEPT !.name = call[r].name, !.status = "active", !.lineage = call[r].lineage,
           !.exclusive = ExclusiveAtBirth(call[r].mode, Creator(call[r].op)),
           !.born = IF call[r].mode = "auto" THEN Creator(call[r].op) ELSE call[r].mode]
      /\ ExclusiveAtBirth(call[r].mode, Creator(call[r].op)) \in BOOLEAN
  BY DEF Created, ExclusiveAtBirth
<1>4. PICK x \in BOOLEAN : x = ExclusiveAtBirth(call[r].mode, Creator(call[r].op))
  BY <1>3
<1>5. PICK b : b = IF call[r].mode = "auto" THEN Creator(call[r].op) ELSE call[r].mode
  OBVIOUS
<1>6. b \in {"backend", "kl", "vanilla", "kilolock"} /\ (b \in {"backend", "vanilla"} => x)
  BY <1>1, <1>2, <1>4, <1>5 DEF ExclusiveAtBirth, CallRecord, Modes
<1>7. Created(r) = [NoRow EXCEPT !.name = call[r].name, !.status = "active", !.lineage = call[r].lineage,
                      !.exclusive = x, !.born = b]
  BY <1>3, <1>4, <1>5
<1> QED BY <1>1, <1>6, <1>7, NoRowTyped DEF NoRow, RowRecord, CallRecord, Status

(* A new row of a name that nobody has or claims, by the request r.        *)
LEMMA RowAdded ==
  ASSUME RowsInv, NEW r \in Caller, NEW k \in Unused, NEW rec \in RowRecord,
         rows' = [rows EXCEPT ![k] = rec], rec.status = "active", Exact(rec.name) = {},
         rec.born \in {"backend", "vanilla"} => rec.exclusive,
         NEW l, locks' = [locks EXCEPT ![k] = l],
         \/ l = {} /\ issued' = issued
         \/ \E x \in LockId : /\ l = {x} /\ issued[x] = NotIssued
                              /\ issued' = [issued EXCEPT ![x] = [name |-> rec.name, row |-> k]],
         Answer(r), UNCHANGED <<mode, limit, relaxed, changes>>,
         \A q \in Caller \ {r} : ~ (Holds(q, NoId) /\ call[q].name = rec.name)
  PROVE  RowsInv'
<1>1. k \in Id /\ rows[k].status = "none" /\ ~ Live(k) /\ locks[k] = {}
  BY RowsParts DEF Unused, Live, Status, RowLocksOK
<1>2. /\ rows' \in [Id -> RowRecord] /\ rows'[k] = rec /\ \A j \in Id \ {k} : rows'[j] = rows[j]
  BY <1>1, RowsParts
<1>3. /\ call' \in [Caller -> CallRecord] /\ call'[r] = NoCall
      /\ \A q \in Caller \ {r} : call'[q] = call[q]
  BY CallTo, NoRowTyped, RowsParts DEF Answer
<1>4. /\ locks' \in [Id -> SUBSET LockId] /\ locks'[k] = l /\ \A j \in Id \ {k} : locks'[j] = locks[j]
  BY <1>1, RowsParts
<1>5. /\ issued' \in [LockId -> [name : AnyName, row : Id \cup {NoId}]]
      /\ \A x \in l : issued'[x].row = k
      /\ \A x \in LockId : issued[x].row \in Id => issued'[x] = issued[x]
  <2>1. CASE l = {} /\ issued' = issued
    BY <2>1, RowsParts
  <2>2. CASE \E x \in LockId : l = {x} /\ issued[x] = NotIssued
                             /\ issued' = [issued EXCEPT ![x] = [name |-> rec.name, row |-> k]]
    <3>1. PICK x \in LockId : /\ l = {x} /\ issued[x] = NotIssued
                              /\ issued' = [issued EXCEPT ![x] = [name |-> rec.name, row |-> k]]
      BY <2>2
    <3>2. [name |-> rec.name, row |-> k] \in [name : AnyName, row : Id \cup {NoId}]
      BY <1>1 DEF RowRecord
    <3> QED BY <3>1, <3>2, RowsAssumption, RowsParts DEF NotIssued
  <2> QED BY <2>1, <2>2
<1>6. NamesUnique'
  BY <1>1, <1>2, RowsParts DEF NamesUnique, Live, Exact
<1>7. RowsTypeOK'
  BY <1>2, <1>3, <1>4, <1>5, <1>6, RowsParts DEF RowsTypeOK
<1>8. RowLocksOK'
  <2> SUFFICES ASSUME NEW j \in Id
               PROVE  /\ ~ Live(j)' => locks'[j] = {}
                      /\ \A x \in locks'[j] : issued'[x].row = j
                      /\ (j \notin relaxed' /\ rows'[j].born \in {"backend", "vanilla"}) =>
                            rows'[j].exclusive /\ \A x, y \in locks'[j] : x = y
    BY DEF RowLocksOK
  <2>1. CASE j = k
    BY <1>2, <1>4, <1>5, <2>1 DEF Live, Status
  <2>2. CASE j # k
    <3>1. \A x \in locks[j] : x \in LockId /\ issued[x].row = j
      BY RowsParts DEF RowLocksOK
    <3>2. rows'[j] = rows[j] /\ locks'[j] = locks[j] /\ (Live(j)' <=> Live(j)) /\ relaxed' = relaxed
      BY <1>2, <1>4, <2>2 DEF Live
    <3>3. \A x \in locks'[j] : issued'[x].row = j
      BY <1>5, <3>1, <3>2
    <3> QED BY <3>2, <3>3, RowsParts DEF RowLocksOK
  <2> QED BY <2>1, <2>2
<1>9. Holders'
  BY <1>3, RowsParts DEF Holders, In, NoCall
<1>10. ASSUME NEW q \in Caller PROVE CallOK(call[q])'
  <2>1. CASE q = r
    <3>1. CallOK(NoCall)'
      BY DEF CallOK, NoCall
    <3> QED BY <1>3, <2>1, <3>1
  <2>2. CASE q # r
    <3>1. call[q] \in CallRecord /\ CallOK(call[q]) /\ call'[q] = call[q]
      BY <1>3, <2>2, RowsParts
    <3>2. RowsSteady
      BY <1>1, <1>2 DEF RowsSteady, Live
    <3>3. Unclaimed(call[q])
      BY <1>1, <1>2, <2>2 DEF Unclaimed, Holds, In, Live
    <3>4. HistoryKept
      BY <1>1, <1>2, <1>5 DEF HistoryKept
    <3> QED BY <3>1, <3>2, <3>3, <3>4, CallSteady
  <2> QED BY <2>1, <2>2
<1> QED BY <1>7, <1>8, <1>9, <1>10 DEF RowsInv

LEMMA MayEnterNames ==
  ASSUME RowsInv, NEW r \in Caller, In(r, "looked"), MayEnter(call[r].name)
  PROVE  \A q \in Caller \ {r} : ~ (Holds(q, NoId) /\ call[q].name = call[r].name)
BY DEF MayEnter, NameFree

LEMMA AcquireLockStep ==
  ASSUME RowsInv, NEW r \in Caller, NEW l \in LockId, AcquireLock(r, l)
  PROVE  RowsInv'
<1> DEFINE n == call[r].name
           i == Target(n)
<1>1. /\ In(r, "looked") /\ MayEnter(n) /\ issued[l] = NotIssued /\ Answer(r)
      /\ UNCHANGED <<mode, limit, relaxed, changes>> /\ call[r] \in CallRecord
  BY RowsParts DEF AcquireLock
<1>2. CASE /\ i # NoId /\ (rows[i].exclusive => locks[i] = {})
           /\ LockGranted(i, l) /\ issued' = [issued EXCEPT ![l] = [name |-> n, row |-> i]]
           /\ UNCHANGED rows
  <2>1. i \in Id /\ Live(i)
    BY <1>2, TargetOf
  <2> HIDE DEF i
  <2>2. /\ locks' \in [Id -> SUBSET LockId] /\ locks'[i] = locks[i] \cup {l}
        /\ \A j \in Id \ {i} : locks'[j] = locks[j]
    BY <1>2, <2>1, RowsParts DEF LockGranted
  <2>3. [name |-> n, row |-> i] \in [name : AnyName, row : Id \cup {NoId}]
    BY <1>1, <2>1 DEF CallRecord
  <2>4. /\ issued' \in [LockId -> [name : AnyName, row : Id \cup {NoId}]] /\ issued'[l].row = i
        /\ \A x \in LockId : issued[x].row \in Id => issued'[x] = issued[x]
    BY <1>1, <1>2, <2>3, RowsParts, RowsAssumption DEF NotIssued
  <2>5. /\ call' \in [Caller -> CallRecord] /\ call'[r] = NoCall
        /\ \A q \in Caller \ {r} : call'[q] = call[q]
    BY <1>1, CallTo, NoRowTyped, RowsParts DEF Answer
  <2>6. RowsTypeOK'
    BY <1>1, <1>2, <2>2, <2>4, <2>5, RowsParts DEF RowsTypeOK, NamesUnique, Live
  <2>7. RowLocksOK'
    <3> SUFFICES ASSUME NEW j \in Id
                 PROVE  /\ ~ Live(j) => locks'[j] = {}
                        /\ \A x \in locks'[j] : issued'[x].row = j
                        /\ (j \notin relaxed /\ rows[j].born \in {"backend", "vanilla"}) =>
                              rows[j].exclusive /\ \A x, y \in locks'[j] : x = y
      BY <1>1, <1>2 DEF RowLocksOK, Live
    <3>1. \A x \in locks[j] : x \in LockId /\ issued[x].row = j
      BY RowsParts DEF RowLocksOK
    <3>2. \A x \in locks[j] : issued'[x].row = j
      BY <2>4, <3>1
    <3>3. CASE j = i
      BY <1>2, <2>1, <2>2, <2>4, <3>2, <3>3, RowsParts DEF RowLocksOK
    <3>4. CASE j # i
      BY <2>2, <3>2, <3>4, RowsParts DEF RowLocksOK
    <3> QED BY <3>3, <3>4
  <2>8. Holders'
    BY <2>5, RowsParts DEF Holders, In, NoCall
  <2>9. ASSUME NEW q \in Caller PROVE CallOK(call[q])'
    <3>1. CASE q = r
      BY <2>5, <3>1 DEF CallOK, NoCall
    <3>2. CASE q # r
      <4>1. call[q] \in CallRecord /\ CallOK(call[q]) /\ call'[q] = call[q]
        BY <2>5, <3>2, RowsParts
      <4>2. HistoryKept
        BY <1>1, <1>2, <2>4 DEF HistoryKept
      <4> QED BY <1>2, <4>1, <4>2, CallSame
    <3> QED BY <3>1, <3>2
  <2> QED BY <2>6, <2>7, <2>8, <2>9 DEF RowsInv
<1>3. CASE /\ i = NoId
           /\ \E k \in Unused : /\ rows' = [rows EXCEPT ![k] = Created(r)]
                                /\ LockGranted(k, l)
                                /\ issued' = [issued EXCEPT ![l] = [name |-> n, row |-> k]]
  <2>1. PICK k \in Unused : /\ rows' = [rows EXCEPT ![k] = Created(r)]
                            /\ LockGranted(k, l)
                            /\ issued' = [issued EXCEPT ![l] = [name |-> n, row |-> k]]
    BY <1>3
  <2>2. locks[k] = {} /\ k \in Id
    BY RowsParts DEF Unused, RowLocksOK, Live, Status
  <2>3. locks' = [locks EXCEPT ![k] = {l}]
    BY <2>1, <2>2 DEF LockGranted
  <2>4. /\ Created(r) \in RowRecord /\ Created(r).name = n /\ Created(r).status = "active"
        /\ Created(r).born \in {"backend", "vanilla"} => Created(r).exclusive
    BY CreatedTyped
  <2>5. Exact(n) = {}
    BY <1>3, TargetOf
  <2>6. \A q \in Caller \ {r} : ~ (Holds(q, NoId) /\ call[q].name = n)
    BY <1>1, MayEnterNames
  <2>7. /\ {l} = {l} /\ issued[l] = NotIssued
        /\ issued' = [issued EXCEPT ![l] = [name |-> Created(r).name, row |-> k]]
    BY <1>1, <2>1, <2>4
  <2> HIDE DEF n, i
  <2>8. Exact(Created(r).name) = {} /\ \A q \in Caller \ {r} : ~ (Holds(q, NoId) /\ call[q].name = Created(r).name)
    BY <2>4, <2>5, <2>6
  <2> DEFINE new == Created(r)
  <2>9. \E x \in LockId : /\ {l} = {x} /\ issued[x] = NotIssued
                          /\ issued' = [issued EXCEPT ![x] = [name |-> new.name, row |-> k]]
    BY <2>7
  <2>10. rows' = [rows EXCEPT ![k] = new] /\ new \in RowRecord /\ new.status = "active" /\ Exact(new.name) = {}
    BY <2>1, <2>4, <2>8
  <2>11. /\ new.born \in {"backend", "vanilla"} => new.exclusive
         /\ \A q \in Caller \ {r} : ~ (Holds(q, NoId) /\ call[q].name = new.name)
    BY <2>4, <2>8
  <2> HIDE DEF new
  <2> QED BY <1>1, <2>3, <2>9, <2>10, <2>11, RowAdded
<1> QED BY <1>2, <1>3 DEF AcquireLock

LEMMA WrittenTyped ==
  ASSUME RowsInv, NEW r \in Caller, NEW rec \in RowRecord, Writable(r, rec)
  PROVE  /\ Written(r, rec) \in RowRecord
         /\ Written(r, rec).name = rec.name /\ Written(r, rec).status = rec.status
         /\ Written(r, rec).exclusive = rec.exclusive /\ Written(r, rec).born = rec.born
         /\ Written(r, rec).res = call[r].res
         /\ rec.lineage # NoLineage => Written(r, rec).lineage = rec.lineage
<1> DEFINE serial == NextSerial(r, rec)
<1>1. serial \in 1..MaxSerial /\ serial \in 0..MaxSerial
  BY RowsAssumption DEF Writable
<1>2. call[r] \in CallRecord
  BY RowsParts
<1> DEFINE lineage == IF rec.lineage = NoLineage THEN call[r].lineage ELSE rec.lineage
<1>3. Written(r, rec) = [rec EXCEPT !.lineage = lineage, !.res = call[r].res,
                           !.serials = rec.serials \cup {serial}, !.current = serial]
  BY DEF Written
<1>4. lineage \in Lineage \cup {NoLineage} /\ (rec.lineage # NoLineage => lineage = rec.lineage)
  BY <1>2 DEF RowRecord, CallRecord
<1>5. call[r].res \in SUBSET Resource /\ rec.serials \cup {serial} \in SUBSET (1..MaxSerial)
  BY <1>1, <1>2 DEF RowRecord, CallRecord
<1> HIDE DEF serial, lineage
<1> QED BY <1>1, <1>3, <1>4, <1>5 DEF RowRecord

LEMMA CommitWriteStep ==
  ASSUME RowsInv, NEW r \in Caller, CommitWrite(r)
  PROVE  RowsInv'
<1> DEFINE i == call[r].row
<1>1. /\ In(r, "entered") /\ Answer(r) /\ UNCHANGED <<locks, issued, mode, limit, relaxed, changes>>
      /\ call[r] \in CallRecord /\ CallOK(call[r]) /\ RowHeld(call[r])
  BY RowsParts DEF CommitWrite, CallOK, In
<1>2. /\ call' \in [Caller -> CallRecord] /\ call'[r] = NoCall
      /\ \A q \in Caller \ {r} : call'[q] = call[q]
  BY <1>1, CallTo, NoRowTyped, RowsParts DEF Answer
<1>3. CASE i # NoId /\ Writable(r, rows[i]) /\ rows' = [rows EXCEPT ![i] = Written(r, @)]
  <2>1. i \in Id /\ rows[i] \in RowRecord
    BY <1>1, <1>3, RowsParts DEF CallRecord
  <2> HIDE DEF i
  <2>2. /\ rows' \in [Id -> RowRecord]
        /\ \A j \in Id : /\ rows'[j].name = rows[j].name /\ rows'[j].status = rows[j].status
                         /\ rows'[j].exclusive = rows[j].exclusive /\ rows'[j].born = rows[j].born
                         /\ rows[j].lineage # NoLineage => rows'[j].lineage = rows[j].lineage
    <3>1. rows'[i] = Written(r, rows[i]) /\ \A j \in Id \ {i} : rows'[j] = rows[j]
      BY <1>3, <2>1, RowsParts
    <3>2. rows' \in [Id -> RowRecord]
      BY <1>3, <2>1, <3>1, WrittenTyped, RowsParts
    <3> QED BY <1>3, <2>1, <3>1, <3>2, WrittenTyped
  <2>3. \A j \in Id : Live(j)' <=> Live(j)
    BY <2>2 DEF Live
  <2>4. RowsTypeOK'
    BY <1>1, <1>2, <2>2, <2>3, RowsParts DEF RowsTypeOK, NamesUnique
  <2>5. RowLocksOK'
    BY <1>1, <2>2, <2>3, RowsParts DEF RowLocksOK
  <2>6. Holders'
    BY <1>2, RowsParts DEF Holders, In, NoCall
  <2>7. ASSUME NEW q \in Caller PROVE CallOK(call[q])'
    <3>1. CASE q = r
      BY <1>2, <3>1 DEF CallOK, NoCall
    <3>2. CASE q # r
      <4>1. call[q] \in CallRecord /\ CallOK(call[q]) /\ call'[q] = call[q]
        BY <1>2, <3>2, RowsParts
      <4>2. RowsSteady /\ Unclaimed(call[q])
        BY <2>2, <2>3 DEF RowsSteady, Unclaimed, Live
      <4>3. HistoryKept
        BY <1>1, <2>2 DEF HistoryKept
      <4> QED BY <4>1, <4>2, <4>3, CallSteady
    <3> QED BY <3>1, <3>2
  <2> QED BY <2>4, <2>5, <2>6, <2>7 DEF RowsInv
<1>4. CASE /\ i = NoId
           /\ \E k \in Unused : /\ Writable(r, Created(r))
                                /\ rows' = [rows EXCEPT ![k] = Written(r, Created(r))]
  <2> DEFINE new == Written(r, Created(r))
  <2>1. PICK k \in Unused : Writable(r, Created(r)) /\ rows' = [rows EXCEPT ![k] = new]
    BY <1>4
  <2>2. /\ new \in RowRecord /\ new.name = call[r].name /\ new.status = "active"
        /\ new.born \in {"backend", "vanilla"} => new.exclusive
    BY <2>1, CreatedTyped, WrittenTyped
  <2> HIDE DEF new
  <2>3. Exact(new.name) = {}
    BY <1>1, <1>4, <2>2 DEF RowHeld
  <2>4. \A q \in Caller \ {r} : ~ (Holds(q, NoId) /\ call[q].name = new.name)
    BY <1>1, <1>4, <2>2, RowsParts DEF Holds, Holders
  <2>5. locks' = [locks EXCEPT ![k] = {}]
    <3>1. k \in Id /\ locks[k] = {}
      BY RowsParts DEF Unused, RowLocksOK, Live, Status
    <3> QED BY <1>1, <3>1, RowsParts
  <2> DEFINE l == {}
  <2>6. locks' = [locks EXCEPT ![k] = l] /\ l = {} /\ issued' = issued
    BY <1>1, <2>5
  <2>7. \/ l = {} /\ issued' = issued
        \/ \E x \in LockId : /\ l = {x} /\ issued[x] = NotIssued
                             /\ issued' = [issued EXCEPT ![x] = [name |-> new.name, row |-> k]]
    BY <2>6
  <2>8. Answer(r) /\ UNCHANGED <<mode, limit, relaxed, changes>>
    BY <1>1
  <2>9. rows' = [rows EXCEPT ![k] = new]
    BY <2>1
  <2> HIDE DEF l, i
  <2> QED BY <2>2, <2>3, <2>4, <2>6, <2>7, <2>8, <2>9, RowAdded
<1> QED BY <1>3, <1>4 DEF CommitWrite

LEMMA ChangedCalls ==
  ASSUME RowsInv, NEW r \in Caller, NEW i \in Id, Changed(i, r), Free(i), HistoryKept,
         \A j \in Id \ {i} : rows'[j] = rows[j],
         rows'[i].status \in Status => NameFree(rows'[i].name)
  PROVE  /\ call' \in [Caller -> CallRecord] /\ call'[r] = NoCall
         /\ Holders' /\ \A q \in Caller : CallOK(call[q])'
<1>1. /\ call'[r] = NoCall /\ \A q \in Caller \ {r} : call'[q] = Lately(call[q], i)
      /\ call' = [q \in Caller |-> call'[q]]
  BY DEF Changed, Lately
<1>2. ASSUME NEW q \in Caller \ {r}
      PROVE  /\ call'[q] \in CallRecord /\ CallOK(call[q])'
             /\ call'[q].pc = call[q].pc /\ call'[q].row = call[q].row /\ call'[q].name = call[q].name
  <2>1. PICK c : c = call[q]
    OBVIOUS
  <2>2. c \in CallRecord /\ CallOK(c)
    BY <2>1, RowsParts
  <2>3. /\ ~ (c.pc = "entered" /\ c.row = i)
        /\ rows'[i].status \in Status => ~ (c.pc = "entered" /\ c.row = NoId /\ c.name = rows'[i].name)
    BY <2>1 DEF Free, NameFree, Holds, In
  <2>4. Lately(c, i) \in CallRecord /\ CallOK(Lately(c, i))'
    BY <2>2, <2>3, CallLately
  <2>5. call'[q] = Lately(c, i)
    BY <1>1, <2>1
  <2>6. Lately(c, i).pc = c.pc /\ Lately(c, i).row = c.row /\ Lately(c, i).name = c.name
    BY <2>2 DEF Lately, CallRecord
  <2> QED BY <2>1, <2>4, <2>5, <2>6
<1>3. call' \in [Caller -> CallRecord]
  BY <1>1, <1>2, NoRowTyped
<1>4. ASSUME NEW q \in Caller PROVE CallOK(call[q])'
  <2>1. CASE q = r
    BY <1>1, <2>1 DEF CallOK, NoCall
  <2>2. CASE q # r
    BY <1>2, <2>2
  <2> QED BY <2>1, <2>2
<1>5. NoCall.pc = "idle"
  BY DEF NoCall
<1>6. Holders'
  BY <1>1, <1>2, <1>5, RowsParts DEF Holders, In
<1> QED BY <1>1, <1>3, <1>4, <1>6

LEMMA SetLifecycleStatusStep ==
  ASSUME RowsInv, NEW r \in Caller, SetLifecycleStatus(r)
  PROVE  RowsInv'
<1> DEFINE i == call[r].found
           to == call[r].to
<1>1. /\ call[r] \in CallRecord /\ i \in Id /\ to \in Status /\ Live(i) /\ Free(i) /\ Changed(i, r)
      /\ UNCHANGED <<locks, issued, mode, limit, relaxed, changes>> /\ rows[i] \in RowRecord
  BY RowsParts DEF SetLifecycleStatus, In, CallOK
<1>2. PICK name \in AnyName :
        /\ NameFree(name) /\ Exact(name) \subseteq {i}
        /\ rows' = [rows EXCEPT ![i].name = name, ![i].status = to]
  <2>1. call[r].name \in AnyName /\ \A s \in Label : Append(call[r].name, s) \in AnyName
    BY <1>1 DEF CallRecord, AnyName
  <2>2. PICK name \in IF to = "archived" THEN {Append(call[r].name, s) : s \in Label} ELSE {call[r].name} :
          /\ NameFree(name) /\ Exact(name) \subseteq {i}
          /\ rows' = [rows EXCEPT ![i].name = name, ![i].status = to]
    BY DEF SetLifecycleStatus
  <2>3. name \in AnyName
    BY <2>1, <2>2
  <2> QED BY <2>2, <2>3
<1> HIDE DEF i, to
<1>3. /\ rows' \in [Id -> RowRecord] /\ rows'[i].name = name /\ rows'[i].status = to
      /\ rows'[i].exclusive = rows[i].exclusive /\ rows'[i].born = rows[i].born
      /\ \A j \in Id \ {i} : rows'[j] = rows[j]
  BY <1>1, <1>2, RowsParts DEF RowRecord
<1>4. NamesUnique'
  BY <1>1, <1>2, <1>3, RowsParts DEF NamesUnique, Live, Exact
<1> HistoryKept
  BY <1>1, <1>3 DEF HistoryKept, Status
<1>5. call' \in [Caller -> CallRecord] /\ Holders' /\ \A q \in Caller : CallOK(call[q])'
  BY <1>1, <1>2, <1>3, ChangedCalls
<1>6. RowsTypeOK'
  BY <1>1, <1>3, <1>4, <1>5, RowsParts DEF RowsTypeOK
<1>7. RowLocksOK'
  BY <1>1, <1>3, RowsParts DEF RowLocksOK, Live
<1> QED BY <1>5, <1>6, <1>7 DEF RowsInv

LEMMA DeleteStateStep ==
  ASSUME RowsInv, NEW r \in Caller, DeleteState(r)
  PROVE  RowsInv'
<1> DEFINE i == call[r].found
           gone == [NoRow EXCEPT !.status = "gone"]
<1>1. /\ i \in Id /\ Free(i) /\ Changed(i, r) /\ UNCHANGED <<issued, mode, limit, relaxed, changes>>
      /\ rows' = [rows EXCEPT ![i] = gone] /\ locks' = [locks EXCEPT ![i] = {}]
  BY RowsParts DEF DeleteState, In, CallOK
<1>2. gone \in RowRecord /\ gone.status = "gone" /\ gone.born = "none"
  BY NoRowTyped DEF NoRow, RowRecord
<1> HIDE DEF i, gone
<1>3. /\ rows' \in [Id -> RowRecord] /\ rows'[i] = gone /\ \A j \in Id \ {i} : rows'[j] = rows[j]
      /\ locks' \in [Id -> SUBSET LockId] /\ locks'[i] = {} /\ \A j \in Id \ {i} : locks'[j] = locks[j]
  BY <1>1, <1>2, RowsParts
<1>4. NamesUnique'
  BY <1>2, <1>3, RowsParts DEF NamesUnique, Live, Status
<1> HistoryKept
  BY <1>1, <1>2, <1>3 DEF HistoryKept
<1>5. call' \in [Caller -> CallRecord] /\ Holders' /\ \A q \in Caller : CallOK(call[q])'
  BY <1>1, <1>2, <1>3, ChangedCalls DEF Status
<1>6. RowsTypeOK'
  BY <1>1, <1>3, <1>4, <1>5, RowsParts DEF RowsTypeOK
<1>7. RowLocksOK'
  BY <1>1, <1>2, <1>3, RowsParts DEF RowLocksOK, Live
<1> QED BY <1>5, <1>6, <1>7 DEF RowsInv

LEMMA RowsBegin == RowsInit => RowsInv
<1> SUFFICES ASSUME RowsInit PROVE RowsInv
  OBVIOUS
<1>1. \A i \in Id : rows[i] = NoRow /\ ~ Live(i) /\ locks[i] = {}
  BY DEF RowsInit, Live, NoRow, Status
<1>2. \A r \in Caller : call[r] = NoCall /\ call[r].pc = "idle"
  BY DEF RowsInit, NoCall
<1>3. <<>> \in AnyName
  BY DEF AnyName
<1>4. NotIssued \in [name : AnyName, row : Id \cup {NoId}]
  BY <1>3 DEF NotIssued
<1>5. RowsTypeOK
  BY <1>1, <1>4, NoRowTyped, RowsAssumption DEF RowsTypeOK, RowsInit, NamesUnique, Modes
<1>6. RowLocksOK
  BY <1>1 DEF RowLocksOK, NoRow
<1>7. Holders
  BY <1>2 DEF Holders, In
<1>8. \A r \in Caller : CallOK(call[r])
  BY <1>2, NoRowTyped, QuietCall
<1> QED BY <1>5, <1>6, <1>7, <1>8 DEF RowsInv

LEMMA RowsKeep == RowsInv /\ [RowsNext]_rowVars => RowsInv'
<1> SUFFICES ASSUME RowsInv, [RowsNext]_rowVars PROVE RowsInv'
  OBVIOUS
<1>1. CASE Configuring
  BY <1>1, ReleaseLockStep, ForceReleaseLockStep, SetStateExclusiveLocksStep, SettingStep, RowsParts
     DEF Configuring
<1>2. ASSUME NEW r \in Caller, Writers(r) PROVE RowsInv'
  BY <1>2, BeginPostStep, ReadTrunkStep, BeginApplyStep, EnterStep, CommitWriteStep, FailStep DEF Writers
<1>3. ASSUME NEW r \in Caller, Locking(r) PROVE RowsInv'
  BY <1>3, BeginLockStep, AcquireLockStep DEF Locking
<1>4. ASSUME NEW r \in Caller, Administering(r) PROVE RowsInv'
  BY <1>4, BeginLifecycleStep, SetLifecycleStatusStep, BeginDeleteStep, CheckLockStep, DeleteStateStep
     DEF Administering
<1>5. CASE UNCHANGED rowVars
  <2>1. \A j \in Id : locks'[j] \subseteq locks[j]
    BY <1>5 DEF rowVars
  <2> QED BY <1>5, <2>1, LocksShrink, RowsParts DEF rowVars
<1> QED BY <1>1, <1>2, <1>3, <1>4, <1>5 DEF RowsNext

(* The inductive invariant of the rows and of the requests on them.        *)
THEOREM RowsSafe == RowsSpec => []RowsInv
BY RowsBegin, RowsKeep, PTL DEF RowsSpec

(* OneLockUnlessRelaxed (AcquireLock, initialStatePolicyForPrincipal): for *)
(* any number of states, sessions and requests.                            *)
THEOREM SessionsSerialise == RowsSpec => []OneLockUnlessRelaxed
<1>1. RowsInv => OneLockUnlessRelaxed
  BY DEF RowsInv, RowLocksOK, OneLockUnlessRelaxed
<1> QED BY <1>1, RowsSafe, PTL

(* Only the request itself ends its write.                                 *)
LEMMA Bystander ==
  ASSUME RowsInv, NEW q \in Caller, NEW r \in Caller \ {q}, Writers(q) \/ Locking(q) \/ Administering(q)
  PROVE  call'[r].pc = call[r].pc
<1>1. ASSUME NEW c, To(q, c) PROVE call'[r].pc = call[r].pc
  BY <1>1, RowsParts DEF To
<1>2. ASSUME NEW i, Changed(i, q) PROVE call'[r].pc = call[r].pc
  BY <1>2, RowsParts DEF Changed, CallRecord
<1>3. CASE Writers(q)
  BY <1>1, <1>3 DEF Writers, BeginPost, ReadTrunk, BeginApply, Enter, CommitWrite, Fail, Answer
<1>4. CASE Locking(q)
  BY <1>1, <1>4 DEF Locking, BeginLock, AcquireLock, Answer
<1>5. CASE Administering(q)
  BY <1>1, <1>2, <1>5 DEF Administering, BeginLifecycle, SetLifecycleStatus, BeginDelete, CheckLock, DeleteState
<1> QED BY <1>3, <1>4, <1>5

LEMMA Committing ==
  ASSUME RowsInv, [RowsNext]_rowVars, NEW r \in Caller, NEW i \in Id, Commits(r, i)
  PROVE  CommitWrite(r)
<1>1. call[r].pc = "entered" /\ call'[r].pc = "idle" /\ rows' # rows
  BY DEF Commits, In
<1>2. ~ Configuring /\ ~ UNCHANGED rowVars
  BY <1>1 DEF Configuring, ReleaseLock, ForceReleaseLock, SetStateExclusiveLocks,
       SetEnvironmentStateLockDefaultMode, SetTenantEntitlements, rowVars
<1>3. Writers(r) \/ Locking(r) \/ Administering(r)
  BY <1>1, <1>2, Bystander DEF RowsNext
<1>4. ~ Locking(r) /\ ~ Administering(r)
  BY <1>1 DEF Locking, BeginLock, AcquireLock, Administering, BeginLifecycle, SetLifecycleStatus,
       BeginDelete, CheckLock, DeleteState, In
<1> QED BY <1>1, <1>3, <1>4 DEF Writers, BeginPost, ReadTrunk, BeginApply, Enter, Fail, In

(* What the commit found and where it went.                                *)
LEMMA Committed ==
  ASSUME RowsInv, NEW r \in Caller, NEW i \in Id, Commits(r, i), CommitWrite(r)
  PROVE  /\ call[r] \in CallRecord /\ Noticed(call[r]) /\ BaseKept(call[r])
         /\ call[r].hard = 0 \/ call[r].counted + Cardinality(call[r].res) <= call[r].hard
         /\ \A j \in Id \ {i} : rows'[j] = rows[j]
         /\ rows'[i].res = call[r].res
         /\ \/ /\ call[r].row = i /\ Live(i) /\ rows[i].name = call[r].name
               /\ call[r].op = "post" => LockAdmits(i, call[r].lock)
            \/ /\ call[r].row = NoId /\ rows[i].status = "none" /\ Exact(call[r].name) = {}
               /\ call[r].op = "post" => call[r].lock = NoLock
<1>1. /\ call[r] \in CallRecord /\ Noticed(call[r]) /\ BaseKept(call[r]) /\ RowHeld(call[r])
      /\ call[r].hard = 0 \/ call[r].counted + Cardinality(call[r].res) <= call[r].hard
  BY RowsParts DEF CommitWrite, CallOK, In
<1> DEFINE k == call[r].row
<1>2. CASE /\ k # NoId /\ (call[r].op = "post" => LockAdmits(k, call[r].lock))
           /\ Writable(r, rows[k]) /\ rows' = [rows EXCEPT ![k] = Written(r, @)]
  <2>1. k \in Id /\ Live(k) /\ rows[k].name = call[r].name /\ rows[k] \in RowRecord
    BY <1>1, <1>2, RowsParts DEF RowHeld, CallRecord
  <2> HIDE DEF k
  <2>2. rows'[k] = Written(r, rows[k]) /\ \A j \in Id \ {k} : rows'[j] = rows[j]
    BY <1>2, <2>1, RowsParts
  <2>3. k = i
    BY <2>2 DEF Commits
  <2>4. rows'[i].res = call[r].res
    BY <1>2, <2>1, <2>2, <2>3, WrittenTyped
  <2> QED BY <1>1, <1>2, <2>1, <2>2, <2>3, <2>4 DEF k
<1>3. CASE /\ k = NoId /\ (call[r].op = "post" => call[r].lock = NoLock)
           /\ \E j \in Unused : /\ Writable(r, Created(r))
                                /\ rows' = [rows EXCEPT ![j] = Written(r, Created(r))]
  <2>1. PICK j \in Unused : /\ Writable(r, Created(r))
                            /\ rows' = [rows EXCEPT ![j] = Written(r, Created(r))]
    BY <1>3
  <2>2. /\ j \in Id /\ rows[j].status = "none" /\ rows'[j] = Written(r, Created(r))
        /\ \A m \in Id \ {j} : rows'[m] = rows[m]
    BY <2>1, RowsParts DEF Unused
  <2>3. j = i
    BY <2>2 DEF Commits
  <2>4. rows'[i].res = call[r].res
    BY <2>1, <2>2, <2>3, CreatedTyped, WrittenTyped
  <2> QED BY <1>1, <1>3, <2>2, <2>3, <2>4 DEF RowHeld
<1> QED BY <1>2, <1>3 DEF CommitWrite

(* WritesStay (writeStateInternal): the row of the lock, the row that was  *)
(* read, an active row, but for changes of status in the meantime.         *)
THEOREM WritesStayOnTheirRow == RowsSpec => WritesStay
<1> DEFINE Stays == \A r \in Caller, i \in Id : Commits(r, i) =>
       /\ (call[r].op = "post" /\ call[r].lock # NoLock) => i = issued[call[r].lock].row
       /\ call[r].op = "apply" => i = call[r].base \/ call[r].base \in call[r].late
       /\ rows[i].status \in {"none", "active"} \/ i \in call[r].late
<1>1. RowsInv /\ [RowsNext]_rowVars => Stays
  <2> SUFFICES ASSUME RowsInv, [RowsNext]_rowVars, NEW r \in Caller, NEW i \in Id, Commits(r, i)
               PROVE  /\ (call[r].op = "post" /\ call[r].lock # NoLock) => i = issued[call[r].lock].row
                      /\ call[r].op = "apply" => i = call[r].base \/ call[r].base \in call[r].late
                      /\ rows[i].status \in {"none", "active"} \/ i \in call[r].late
    OBVIOUS
  <2>1. /\ call[r] \in CallRecord /\ Noticed(call[r]) /\ BaseKept(call[r])
        /\ \/ /\ call[r].row = i /\ Live(i) /\ rows[i].name = call[r].name
              /\ call[r].op = "post" => LockAdmits(i, call[r].lock)
           \/ /\ call[r].row = NoId /\ rows[i].status = "none" /\ Exact(call[r].name) = {}
              /\ call[r].op = "post" => call[r].lock = NoLock
    BY Committing, Committed
  <2>2. (call[r].op = "post" /\ call[r].lock # NoLock) => i = issued[call[r].lock].row
    BY <2>1, RowsParts DEF LockAdmits, RowLocksOK
  <2>3. call[r].op = "apply" => i = call[r].base \/ call[r].base \in call[r].late
    BY <2>1, RowsParts DEF BaseKept, NamesUnique, Exact
  <2>4. rows[i].status \in {"none", "active"} \/ i \in call[r].late
    BY <2>1 DEF Noticed
  <2> QED BY <2>2, <2>3, <2>4
<1>2. RowsInv /\ [RowsNext]_rowVars => [Stays]_rowVars
  BY <1>1
<1>3. WritesStay <=> [][Stays]_rowVars
  BY DEF WritesStay
<1> HIDE DEF Stays
<1> QED BY <1>2, <1>3, RowsSafe, PTL DEF RowsSpec

(* FreshBesideArchived (upsertStateWithCreator): a name with an archived   *)
(* state starts a new history for another known lineage only.              *)
THEOREM NoSecondHistory == RowsSpec => FreshBesideArchived
<1> DEFINE Apart == \A r \in Caller, i \in Id : (Commits(r, i) /\ rows[i].status = "none") =>
       \/ ArchivedAs(call[r].name) \subseteq call[r].late
       \/ call[r].found \in call[r].late
       \/ call[r].found \in ArchivedAs(call[r].name) /\ Differs(call[r].found, call[r].lineage)
<1>1. RowsInv /\ [RowsNext]_rowVars => Apart
  <2> SUFFICES ASSUME RowsInv, [RowsNext]_rowVars, NEW r \in Caller, NEW i \in Id, Commits(r, i),
                      rows[i].status = "none"
               PROVE  \/ ArchivedAs(call[r].name) \subseteq call[r].late
                      \/ call[r].found \in call[r].late
                      \/ call[r].found \in ArchivedAs(call[r].name) /\ Differs(call[r].found, call[r].lineage)
    OBVIOUS
  <2>1. call[r] \in CallRecord /\ Noticed(call[r]) /\ Exact(call[r].name) = {}
    BY Committing, Committed DEF Live, Status
  <2> QED BY <2>1 DEF Noticed, Exact, CallRecord
<1>2. RowsInv /\ [RowsNext]_rowVars => [Apart]_rowVars
  BY <1>1
<1>3. FreshBesideArchived <=> [][Apart]_rowVars
  BY DEF FreshBesideArchived
<1> HIDE DEF Apart
<1> QED BY <1>2, <1>3, RowsSafe, PTL DEF RowsSpec

(* Only the request itself ends its deletion.                              *)
LEMMA Deleting ==
  ASSUME RowsInv, [RowsNext]_rowVars, NEW r \in Caller, NEW i \in Id, Deletes(r, i)
  PROVE  DeleteState(r) /\ i = call[r].found
<1>1. call[r].pc = "checked" /\ call'[r].pc = "idle" /\ Live(i) /\ rows'[i].status = "gone"
  BY DEF Deletes, In
<1>2. rows' # rows /\ rows[i].status # "gone"
  BY <1>1 DEF Live, Status
<1>3. ~ Configuring /\ ~ UNCHANGED rowVars
  BY <1>1 DEF Configuring, ReleaseLock, ForceReleaseLock, SetStateExclusiveLocks,
       SetEnvironmentStateLockDefaultMode, SetTenantEntitlements, rowVars
<1>4. Writers(r) \/ Locking(r) \/ Administering(r)
  BY <1>1, <1>3, Bystander DEF RowsNext
<1>5. DeleteState(r)
  <2>1. ~ Locking(r) /\ ~ CheckLock(r) /\ ~ SetLifecycleStatus(r)
    BY <1>1 DEF Locking, BeginLock, AcquireLock, CheckLock, SetLifecycleStatus, In
  <2>2. ~ Writers(r)
    BY <1>1, <1>2 DEF Writers, BeginPost, ReadTrunk, BeginApply, Enter, CommitWrite, Fail, In
  <2>3. ASSUME NEW n, NEW to PROVE ~ BeginLifecycle(r, n, to) /\ ~ BeginDelete(r, n, to)
    BY <1>1 DEF BeginLifecycle, BeginDelete, In
  <2> QED BY <1>4, <2>1, <2>2, <2>3 DEF Administering
<1>6. \A j \in Id \ {call[r].found} : rows'[j] = rows[j]
  BY <1>5, RowsParts DEF DeleteState
<1> QED BY <1>2, <1>1, <1>5, <1>6

(* DeletesStay (DeleteState): the row of the lock, and no lock of another  *)
(* session that was held when the locks were compared, but where they are  *)
(* shared; for any number of states, sessions, archivings and requests.    *)
THEOREM DeletesStayOnTheirRow == RowsSpec => DeletesStay
<1> DEFINE Stays == \A r \in Caller, i \in Id : Deletes(r, i) =>
       /\ call[r].lock # NoLock => i = issued[call[r].lock].row
       /\ (i \notin relaxed /\ rows[i].born \in {"backend", "vanilla"}) =>
            locks[i] \cap call[r].seen \subseteq {call[r].lock}
<1>1. RowsInv /\ [RowsNext]_rowVars => Stays
  <2> SUFFICES ASSUME RowsInv, [RowsNext]_rowVars, NEW r \in Caller, NEW i \in Id, Deletes(r, i)
               PROVE  /\ call[r].lock # NoLock => i = issued[call[r].lock].row
                      /\ (i \notin relaxed /\ rows[i].born \in {"backend", "vanilla"}) =>
                           locks[i] \cap call[r].seen \subseteq {call[r].lock}
    OBVIOUS
  <2>1. i = call[r].found
    BY Deleting
  <2>2. Cleared(call[r])
    BY RowsParts DEF Deletes, In, CallOK
  <2> QED BY <2>1, <2>2 DEF Cleared
<1>2. RowsInv /\ [RowsNext]_rowVars => [Stays]_rowVars
  BY <1>1
<1>3. DeletesStay <=> [][Stays]_rowVars
  BY DEF DeletesStay
<1> HIDE DEF Stays
<1> QED BY <1>2, <1>3, RowsSafe, PTL DEF RowsSpec

(* QuotaKept (enforceTenantStateLimits): for any number of states and      *)
(* resources.                                                              *)
THEOREM QuotaKeptAlone == RowsSpec => QuotaKept
<1> DEFINE Within == \A r \in Caller, i \in Id :
       (Commits(r, i) /\ call[r].hard # 0 /\ OtherResources(call[r].row) = call[r].counted) =>
          Cardinality(Managed') <= call[r].hard
<1>1. RowsInv /\ [RowsNext]_rowVars => Within
  <2> SUFFICES ASSUME RowsInv, [RowsNext]_rowVars, NEW r \in Caller, NEW i \in Id, Commits(r, i),
                      call[r].hard # 0, OtherResources(call[r].row) = call[r].counted
               PROVE  Cardinality(Managed') <= call[r].hard
    OBVIOUS
  <2> DEFINE others == {p \in Managed : p[1] # call[r].row}
             own == {i} \X call[r].res
  <2>1. /\ call[r] \in CallRecord /\ call[r].counted + Cardinality(call[r].res) <= call[r].hard
        /\ \A j \in Id \ {i} : rows'[j] = rows[j]
        /\ rows'[i].res = call[r].res
        /\ call[r].row = i \/ (call[r].row = NoId /\ rows[i].status = "none")
    BY Committing, Committed
  <2>2. IsFiniteSet(others) /\ Cardinality(others) = call[r].counted
    BY CountedNat DEF OtherResources
  <2>3. IsFiniteSet(call[r].res) /\ Cardinality(call[r].res) \in Nat
    BY <2>1, FS_Subset, FS_CardinalityType, RowsAssumption DEF CallRecord
  <2>4. IsFiniteSet(own) /\ Cardinality(own) = Cardinality(call[r].res)
    <3>1. IsFiniteSet({i}) /\ Cardinality({i}) = 1
      BY FS_Singleton
    <3>2. IsFiniteSet(own) /\ Cardinality(own) = Cardinality({i}) * Cardinality(call[r].res)
      BY <2>3, <3>1, FS_Product
    <3>3. Cardinality(own) = 1 * Cardinality(call[r].res)
      BY <3>1, <3>2
    <3> HIDE DEF own
    <3> QED BY <2>3, <3>2, <3>3
  <2>5. Managed' \in SUBSET (others \cup own)
    <3> SUFFICES ASSUME NEW p \in Managed' PROVE p \in others \cup own
      OBVIOUS
    <3>1. /\ p \in Id \X Resource /\ rows'[p[1]].status = "active" /\ p[2] \in rows'[p[1]].res
      BY DEF Managed
    <3>2. CASE p[1] = i
      BY <2>1, <3>1, <3>2
    <3>3. CASE p[1] # i
      <4>1. p \in Managed /\ p[1] # call[r].row
        BY <2>1, <3>1, <3>3, RowsAssumption DEF Managed
      <4> QED BY <4>1
    <3> QED BY <3>2, <3>3
  <2> HIDE DEF others, own
  <2>6. /\ IsFiniteSet(others \cup own) /\ Cardinality(others \cup own) \in Nat
        /\ Cardinality(others \cup own) = Cardinality(others) + Cardinality(own) - Cardinality(others \cap own)
        /\ Cardinality(others \cap own) \in Nat
    <3>1. IsFiniteSet(others \cap own)
      BY <2>2, FS_Subset
    <3> QED BY <2>2, <2>4, <3>1, FS_Union, FS_CardinalityType
  <2>7. Cardinality(Managed') <= Cardinality(others \cup own) /\ Cardinality(Managed') \in Nat
    BY <2>5, <2>6, FS_Subset, FS_CardinalityType
  <2>8. call[r].counted \in Nat /\ call[r].hard \in Nat
    BY <2>1 DEF CallRecord
  <2> QED BY <2>1, <2>2, <2>3, <2>4, <2>6, <2>7, <2>8
<1>2. RowsInv /\ [RowsNext]_rowVars => [Within]_rowVars
  BY <1>1
<1>3. QuotaKept <=> [][Within]_rowVars
  BY DEF QuotaKept
<1> HIDE DEF Within
<1> QED BY <1>2, <1>3, RowsSafe, PTL DEF RowsSpec
=============================================================================
