------------------------ MODULE ParallelApplyProofs ------------------------
(* Proofs about ParallelApply, for every set of runs, addresses, write and *)
(* read sets, leases and retry bounds, and about ApplyClient, for every    *)
(* command line, configuration, dependency graph and limit.                *)
EXTENDS ParallelApply, ApplyClient, StateStoreProofs, FiniteSetTheorems, FunctionTheorems

(* A run that has registered works on a state with a version, and the      *)
(* serials it remembers are stored versions.                               *)
RecordStored(r) ==
  /\ r.pc \notin {"new", "planned", "done", "crashed"} => current # NoVersion
  /\ r.pc \in {"terraform", "stopped", "merging", "committing"} => r.base \in DOMAIN versions
  /\ r.pc = "committing" => r.fresh \in DOMAIN versions

SerialsStored == \A a \in Apply : RecordStored(run[a])

RunRecord == [pc : Phase, src : Nat, base : Nat, fresh : Nat, tries : Nat, outcome : Outcome]
RunShape  == run \in [Apply -> RunRecord]

(* The inductive invariant.                                                *)
ApplyInv == StoreInv /\ BaselineStored /\ RunShape /\ SerialsStored

-----------------------------------------------------------------------------
(* What a run stores is a document.                                        *)
LEMMA MergedIsDoc ==
  ASSUME StoreTypeOK, RunShape, NEW a \in Apply,
         run[a].base \in DOMAIN versions, run[a].fresh \in DOMAIN versions
  PROVE  MergedState(a) \in Doc
  <1> DEFINE trunk == versions[run[a].fresh]
             seen  == versions[run[a].base]
             post  == PostApply(a)
  <1>1. trunk \in Doc /\ seen \in Doc
    BY DEF StoreTypeOK
  <1>2. Slice(seen, Addr) \in Doc
    BY <1>1 DEF Slice, Doc, Cell
  <1>3. [attr |-> a, meta |-> NoMeta] \in Cell
    BY ApplyAssumption, DocAssumption DEF Cell
  <1>4. post \in Doc
    BY <1>2, <1>3 DEF PostApply, Doc
  <1> QED BY <1>1, <1>4 DEF MergedState, BuildMergedState, Doc

(* A run's commit is the store's apply commit with a serial one past a     *)
(* version the run read.                                                   *)
LEMMA CommitIsStoreStep ==
  ASSUME ApplyInv, NEW a \in Apply, run[a].pc = "committing",
         WriteStateForApply(run[a].fresh + 1, MergedState(a))
  PROVE  StoreNext
  <1>1. run[a].fresh \in DOMAIN versions /\ run[a].base \in DOMAIN versions
    BY DEF ApplyInv, SerialsStored, RecordStored
  <1>2. MergedState(a) \in Doc
    BY <1>1, MergedIsDoc DEF ApplyInv, StoreInv
  <1>3. run[a].fresh + 1 \in CallerSerial
    BY <1>1 DEF CallerSerial
  <1> QED BY <1>2, <1>3 DEF StoreNext, WriteNext

LEMMA StepUsesStore ==
  ASSUME ApplyInv, [ApplyNext]_applyVars
  PROVE  [StoreNext]_storeVars
  <1>1. ASSUME NEW a \in Apply, Advance(a) PROVE [StoreNext]_storeVars
    <2>1. CASE Materialise(a)
      BY <2>1 DEF Materialise, StoreNext, WriteNext
    <2>2. CASE Commit(a)
      BY <2>2, CommitIsStoreStep DEF Commit
    <2>3. CASE CommitReplyLost(a)
      BY <2>3, CommitIsStoreStep DEF CommitReplyLost
    <2>4. CASE \/ Plan(a) \/ BeginApplyRun(a) \/ Acquire(a) \/ StalenessGuard(a)
               \/ TerraformDone(a) \/ CheckAbort(a) \/ ReadTrunk(a) \/ CommitConflict(a)
               \/ Finalize(a) \/ Release(a)
      BY <2>4 DEF Plan, BeginApplyRun, Acquire, StalenessGuard, TerraformDone, CheckAbort,
                  ReadTrunk, CommitConflict, Finalize, Release
    <2> QED BY <1>1, <2>1, <2>2, <2>3, <2>4 DEF Advance
  <1>2. ASSUME NEW a \in Apply, \/ GiveUpWaiting(a) \/ Heartbeat(a) \/ Crash(a)
                                \/ AbortApplyRun(a) \/ AbortRelease(a)
        PROVE  UNCHANGED storeVars
    BY <1>2 DEF GiveUpWaiting, Heartbeat, Crash, AbortApplyRun, AbortRelease
  <1>3. CASE Clock
    BY <1>3 DEF Clock
  <1>4. CASE UNCHANGED applyVars
    BY <1>4 DEF applyVars
  <1> QED BY <1>1, <1>2, <1>3, <1>4 DEF ApplyNext

(* Versions stay, and a state that has one keeps a current one.            *)
LEMMA StoreGrows ==
  ASSUME StoreInv, BaselineStored, [StoreNext]_storeVars
  PROVE  /\ DOMAIN versions \subseteq DOMAIN versions'
         /\ current # NoVersion => current' # NoVersion
  <1>1. CASE LockNext
    BY <1>1, LockStep DEF StoreInv
  <1>2. CASE WriteNext
    <2>1. PICK n \in Nat, doc \in Doc, sel \in SUBSET Addr :
                 CommitDoc(n, doc) \/ CommitSelected(n, doc, sel)
      BY <1>2, WriteIsStoreWrite DEF StoreWrite
    <2>2. DOMAIN versions' = DOMAIN versions \cup {n} /\ current' = n
      BY <2>1 DEF CommitDoc, CommitSelected, InsertVersion
    <2> QED BY <2>2 DEF NoVersion
  <1>3. CASE UNCHANGED storeVars
    BY <1>3 DEF storeVars
  <1> QED BY <1>1, <1>2, <1>3 DEF StoreNext

(* A step that replaces one run's record keeps the invariant on runs if    *)
(* the new record has it, since versions only grow.                        *)
LEMMA RecordUpdate ==
  ASSUME ApplyInv, [StoreNext]_storeVars, NEW a \in Apply, NEW r \in RunRecord,
         run' = [run EXCEPT ![a] = r], RecordStored(r)
  PROVE  RunShape' /\ SerialsStored'
  <1>1. /\ DOMAIN versions \subseteq DOMAIN versions'
        /\ current # NoVersion => current' # NoVersion
    BY StoreGrows DEF ApplyInv
  <1>2. run \in [Apply -> RunRecord] /\ \A b \in Apply : RecordStored(run[b])
    BY DEF ApplyInv, RunShape, SerialsStored
  <1>3. run' \in [Apply -> RunRecord]
    BY <1>2
  <1>4. \A b \in Apply : RecordStored(run'[b])
    BY <1>2
  <1>5. \A b \in Apply : RecordStored(run[b])'
    BY <1>1, <1>4 DEF RecordStored
  <1> QED BY <1>3, <1>5 DEF RunShape, SerialsStored

LEMMA NoUpdate ==
  ASSUME ApplyInv, [StoreNext]_storeVars, run' = run
  PROVE  RunShape' /\ SerialsStored'
  <1>1. /\ DOMAIN versions \subseteq DOMAIN versions'
        /\ current # NoVersion => current' # NoVersion
    BY StoreGrows DEF ApplyInv
  <1>2. \A b \in Apply : RecordStored(run[b])
    BY DEF ApplyInv, SerialsStored
  <1>3. \A b \in Apply : RecordStored(run[b])'
    BY <1>1, <1>2 DEF RecordStored
  <1> QED BY <1>3 DEF ApplyInv, RunShape, SerialsStored

LEMMA ApplyInvStep ==
  ASSUME ApplyInv, [ApplyNext]_applyVars
  PROVE  ApplyInv'
  <1> DEFINE Goal == RunShape' /\ SerialsStored'
  <1>0. /\ [StoreNext]_storeVars
        /\ run \in [Apply -> RunRecord] /\ TrunkSerial \in Nat
        /\ \A b \in Apply : RecordStored(run[b])
        /\ current # NoVersion => current \in Nat /\ current \in DOMAIN versions
    BY StepUsesStore DEF ApplyInv, RunShape, SerialsStored, StoreInv, StoreTypeOK, HistoryGapFree,
                         TrunkSerial, NoVersion
  <1>1. StoreInv' /\ BaselineStored'
    BY <1>0, StoreInvStep, BaselineStep DEF ApplyInv
  <1>2. ASSUME NEW a \in Apply, NEW pc \in Phase, Exit(a, pc), pc \in {"done", "crashed"}
        PROVE  Goal
    <2> DEFINE r == [NewRun EXCEPT !.pc = pc]
    <2>1. r \in RunRecord /\ r.pc = pc
      BY DEF NewRun, RunRecord, Outcome
    <2>2. RecordStored(r)
      BY <1>2, <2>1 DEF RecordStored
    <2> QED BY <1>0, <1>2, <2>1, <2>2, RecordUpdate DEF Exit
  <1>3. ASSUME NEW a \in Apply, NEW how \in Outcome, Fail(a, how),
               run[a].pc \notin {"new", "planned", "done", "crashed"}
        PROVE  Goal
    <2> DEFINE r == [run[a] EXCEPT !.pc = "closing", !.outcome = how]
    <2>1. run' = [run EXCEPT ![a] = r]
      BY <1>0, <1>3 DEF Fail, RunRecord
    <2>2. r \in RunRecord /\ r.pc = "closing" /\ current # NoVersion
      BY <1>0, <1>3 DEF RunRecord, Phase, RecordStored
    <2>3. RecordStored(r)
      BY <2>2 DEF RecordStored
    <2> QED BY <1>0, <2>1, <2>2, <2>3, RecordUpdate
  <1>4. ASSUME NEW a \in Apply, NEW pc \in Phase, Goto(a, pc), current # NoVersion,
               pc \in {"stopped", "merging"} => run[a].base \in DOMAIN versions,
               pc \notin {"terraform", "committing"}
        PROVE  Goal
    <2> DEFINE r == [run[a] EXCEPT !.pc = pc]
    <2>1. run' = [run EXCEPT ![a] = r]
      BY <1>0, <1>4 DEF Goto, RunRecord
    <2>2. r \in RunRecord /\ r.pc = pc /\ r.base = run[a].base
      BY <1>0 DEF RunRecord
    <2>3. RecordStored(r)
      BY <1>4, <2>2 DEF RecordStored
    <2> QED BY <1>0, <2>1, <2>2, <2>3, RecordUpdate
  <1>5. ASSUME NEW a \in Apply, Plan(a) PROVE Goal
    <2> DEFINE r == [run[a] EXCEPT !.pc = "planned", !.src = TrunkSerial]
    <2>1. run' = [run EXCEPT ![a] = r]
      BY <1>0, <1>5 DEF Plan, RunRecord
    <2>2. r \in RunRecord /\ r.pc = "planned"
      BY <1>0 DEF RunRecord, Phase
    <2>3. RecordStored(r)
      BY <2>2 DEF RecordStored
    <2> QED BY <1>0, <2>1, <2>2, <2>3, RecordUpdate
  <1>6. ASSUME NEW a \in Apply, StalenessGuard(a) PROVE Goal
    <2>1. CASE ReadSetChanged(a)
      BY <1>3, <1>6, <2>1 DEF StalenessGuard, Outcome
    <2>2. CASE ~ ReadSetChanged(a)
      <3> DEFINE r == [run[a] EXCEPT !.pc = "terraform", !.base = current]
      <3>1. run' = [run EXCEPT ![a] = r] /\ current # NoVersion
        BY <1>0, <1>6, <2>2 DEF StalenessGuard, RunRecord, RecordStored
      <3>2. r \in RunRecord /\ r.pc = "terraform" /\ r.base = current
        BY <1>0, <3>1 DEF RunRecord, Phase
      <3>3. RecordStored(r)
        BY <1>0, <3>1, <3>2 DEF RecordStored
      <3> QED BY <1>0, <3>1, <3>2, <3>3, RecordUpdate
    <2> QED BY <2>1, <2>2
  <1>7. ASSUME NEW a \in Apply, ReadTrunk(a) PROVE Goal
    <2> DEFINE r == [run[a] EXCEPT !.pc = "committing", !.fresh = current]
    <2>1. run' = [run EXCEPT ![a] = r] /\ current # NoVersion /\ run[a].base \in DOMAIN versions
      BY <1>0, <1>7 DEF ReadTrunk, RunRecord, RecordStored
    <2>2. r \in RunRecord /\ r.pc = "committing" /\ r.fresh = current /\ r.base = run[a].base
      BY <1>0, <2>1 DEF RunRecord, Phase
    <2>3. RecordStored(r)
      BY <1>0, <2>1, <2>2 DEF RecordStored
    <2> QED BY <1>0, <2>1, <2>2, <2>3, RecordUpdate
  <1>8. ASSUME NEW a \in Apply, Commit(a) PROVE Goal
    BY <1>3, <1>8 DEF Commit, Fail, Outcome
  <1>9. ASSUME NEW a \in Apply, CommitConflict(a) PROVE Goal
    <2> DEFINE last == run[a].tries + 1 = MaxRetries
               r == [run[a] EXCEPT !.tries = @ + 1,
                                   !.pc = IF last THEN "closing" ELSE "merging",
                                   !.outcome = IF last THEN "error" ELSE @]
    <2>0. run' = [run EXCEPT ![a] = r]
      BY <1>9 DEF CommitConflict
    <2>1. current # NoVersion /\ run[a].base \in DOMAIN versions
      BY <1>0, <1>9 DEF CommitConflict, RecordStored
    <2>2. r \in RunRecord /\ r.pc \in {"closing", "merging"} /\ r.base = run[a].base
      <3>1. run[a] \in RunRecord
        BY <1>0
      <3>2. \A pc \in Phase, how \in Outcome, n \in Nat :
              LET s == [run[a] EXCEPT !.tries = n, !.pc = pc, !.outcome = how]
              IN  s \in RunRecord /\ s.pc = pc /\ s.base = run[a].base
        BY <3>1 DEF RunRecord
      <3>3. PICK pc \in Phase, how \in Outcome, n \in Nat :
                   /\ n = run[a].tries + 1
                   /\ pc = (IF last THEN "closing" ELSE "merging")
                   /\ how = (IF last THEN "error" ELSE run[a].outcome)
        BY <3>1 DEF RunRecord, Phase, Outcome
      <3>4. r = [run[a] EXCEPT !.tries = n, !.pc = pc, !.outcome = how]
        BY <3>3
      <3> HIDE DEF r
      <3>5. r \in RunRecord /\ r.pc = pc /\ r.base = run[a].base
        BY <3>2, <3>4
      <3> QED BY <3>3, <3>5
    <2>3. RecordStored(r)
      BY <2>1, <2>2 DEF RecordStored
    <2> QED BY <1>0, <2>0, <2>2, <2>3, RecordUpdate
  <1>10. ASSUME NEW a \in Apply, \/ BeginApplyRun(a) \/ Acquire(a) \/ CheckAbort(a) \/ Finalize(a)
                                 \/ TerraformDone(a)
         PROVE  Goal
    <2>1. RecordStored(run[a])
      BY <1>0
    <2>2. CASE BeginApplyRun(a)
      BY <1>4, <2>2 DEF BeginApplyRun, Phase
    <2>3. CASE Acquire(a)
      BY <1>4, <2>1, <2>3 DEF Acquire, Phase, RecordStored
    <2>4. CASE CheckAbort(a)
      BY <1>3, <1>4, <2>1, <2>4 DEF CheckAbort, Phase, Outcome, RecordStored
    <2>5. CASE Finalize(a)
      BY <1>4, <2>1, <2>5 DEF Finalize, Phase, RecordStored
    <2>6. CASE TerraformDone(a)
      BY <1>3, <1>4, <2>1, <2>6 DEF TerraformDone, Phase, Outcome, RecordStored
    <2> QED BY <1>10, <2>2, <2>3, <2>4, <2>5, <2>6
  <1>11. ASSUME NEW a \in Apply, \/ GiveUpWaiting(a) \/ CommitReplyLost(a) \/ Heartbeat(a) PROVE Goal
    <2>1. CASE GiveUpWaiting(a)
      BY <1>3, <2>1 DEF GiveUpWaiting, Outcome
    <2>2. CASE CommitReplyLost(a)
      BY <1>3, <2>2 DEF CommitReplyLost, Outcome
    <2>3. CASE Heartbeat(a)
      <3>1. run' = run \/ Fail(a, "error")
        BY <2>3 DEF Heartbeat
      <3> QED BY <1>0, <1>3, <2>3, <3>1, NoUpdate DEF Heartbeat, Outcome
    <2> QED BY <1>11, <2>1, <2>2, <2>3
  <1>12. ASSUME NEW a \in Apply, Release(a) \/ Crash(a) PROVE Goal
    BY <1>2, <1>12 DEF Release, Crash, Phase
  <1>13. ASSUME run' = run PROVE Goal
    BY <1>0, <1>13, NoUpdate
  <1>14. ASSUME NEW a \in Apply, \/ Materialise(a) \/ AbortApplyRun(a) \/ AbortRelease(a) PROVE Goal
    BY <1>13, <1>14 DEF Materialise, AbortApplyRun, AbortRelease, orchVars
  <1>15. CASE Clock \/ UNCHANGED applyVars
    BY <1>13, <1>15, <1>1 DEF Clock, applyVars, orchVars, ApplyInv
  <1>16. ASSUME NEW a \in Apply, Advance(a) PROVE Goal
    BY <1>5, <1>6, <1>7, <1>8, <1>9, <1>10, <1>11, <1>12, <1>14, <1>16 DEF Advance
  <1>17. CASE ApplyNext
    BY <1>1, <1>11, <1>12, <1>14, <1>15, <1>16, <1>17 DEF ApplyNext, ApplyInv
  <1> QED BY <1>15, <1>17

LEMMA ApplyInvInit == ApplyInit => ApplyInv
  <1> SUFFICES ASSUME ApplyInit PROVE ApplyInv
    OBVIOUS
  <1>1. RunShape /\ SerialsStored
    BY DEF ApplyInit, RunShape, RunRecord, SerialsStored, RecordStored, NewRun, Phase, Outcome
  <1>2. CASE StoreInit
    BY <1>1, <1>2, StoreInvInit DEF ApplyInv
  <1>3. CASE ~ StoreInit
    <2>1. /\ versions = [s \in {1} |-> ImportedDoc] /\ current = 1
          /\ rows = {NewRow(x, ImportedDoc.res, 1) : x \in Addr}
          /\ locks = [l \in LockId |-> NoLock] /\ exclusive = FALSE
      BY <1>3 DEF ApplyInit
    <2>2. ImportedDoc \in Doc /\ \A x \in Addr : ImportedDoc.res[x].attr = Imported
      BY ApplyAssumption, DocAssumption DEF ImportedDoc, EmptyDoc, Doc, Cell
    <2>3. /\ Imported \in Attr /\ Imported # NoAttr
          /\ \A x \in Addr : NewRow(x, ImportedDoc.res, 1)
               = [addr |-> x, attr |-> Imported, create |-> 1, delete |-> Open]
      BY <2>2, ApplyAssumption, DocAssumption DEF NewRow
    <2>4. rows = {[addr |-> x, attr |-> Imported, create |-> 1, delete |-> Open] : x \in Addr}
      BY <2>1, <2>3
    <2>5. StoreTypeOK
      <3>1. rows \subseteq ResourceRow
        BY <2>3, <2>4 DEF ResourceRow
      <3>3. versions \in [DOMAIN versions -> Doc]
        BY <2>1, <2>2
      <3>4. locks \in [LockId -> LockRow \cup {NoLock}] /\ exclusive \in BOOLEAN
        BY <2>1
      <3>5. DOMAIN versions \subseteq Nat /\ current \in Nat \cup {NoVersion}
        BY <2>1
      <3> QED BY <3>1, <3>3, <3>4, <3>5 DEF StoreTypeOK
    <2>6. HistoryGapFree
      BY <2>1 DEF HistoryGapFree, NoVersion
    <2>7. LifecyclesDisjoint
      BY <2>1, <2>4 DEF LifecyclesDisjoint, IsOpen, Open
    <2>8. RowsMatchHistory
      <3>1. DOMAIN versions = {1} /\ \A x \in Addr : versions[1].res[x].attr = Imported
        BY <2>1, <2>2
      <3>2. \A r \in rows : r.attr = Imported
        BY <2>4
      <3>3. ASSUME NEW x \in Addr PROVE \E r \in rows : r.addr = x /\ Covers(r, 1)
        <4> DEFINE w == [addr |-> x, attr |-> Imported, create |-> 1, delete |-> Open]
        <4>1. w \in rows /\ w.addr = x /\ w.create = 1 /\ w.delete = Open
          BY <2>4
        <4>2. Covers(w, 1)
          BY <4>1 DEF Covers, IsOpen
        <4> QED BY <4>1, <4>2
      <3> QED BY <3>1, <3>2, <3>3 DEF RowsMatchHistory
    <2>9. BaselineStored
      BY <2>1 DEF BaselineStored, NoLock
    <2> QED BY <1>1, <2>5, <2>6, <2>7, <2>8, <2>9 DEF ApplyInv, StoreInv
  <1> QED BY <1>2, <1>3

-----------------------------------------------------------------------------
(* Parallel runs, with any crashes, aborts, lost replies, expired leases   *)
(* and retries, use the store only through its operations.                 *)
THEOREM ApplyUsesStore == ApplySafetySpec => UsesStore
<1>1. ApplyInv /\ [ApplyNext]_applyVars => ApplyInv'
  BY ApplyInvStep
<1>2. ApplyInv /\ [ApplyNext]_applyVars => [StoreNext]_storeVars
  BY StepUsesStore
<1> QED BY <1>1, <1>2, ApplyInvInit, PTL DEF ApplySafetySpec, UsesStore

(* Hence every version history parallel runs produce is gap-free and is    *)
(* reproduced by the lifecycle rows.                                       *)
THEOREM ApplyHistoryFaithful ==
  ApplySafetySpec => [](HistoryGapFree /\ LifecyclesDisjoint /\ RowsMatchHistory)
<1>1. ApplyInv /\ [ApplyNext]_applyVars => ApplyInv'
  BY ApplyInvStep
<1>2. ApplyInv => HistoryGapFree /\ LifecyclesDisjoint /\ RowsMatchHistory
  BY DEF ApplyInv, StoreInv
<1> QED BY <1>1, <1>2, ApplyInvInit, PTL DEF ApplySafetySpec

-----------------------------------------------------------------------------
(* Every step is a step of the reservation table or leaves it alone.       *)
LEMMA StepUsesReservations ==
  ASSUME [ApplyNext]_applyVars
  PROVE  [ReservationsNext]_resv
  <1>1. MaxLease \in Lease /\ Glob = Addr
    BY MaxLeaseAssumption, ApplyAssumption DEF Lease
  <1>2. ASSUME NEW a \in Apply, Advance(a) PROVE [ReservationsNext]_resv
    <2>1. CASE Acquire(a)
      <3>1. Wanted(a) \in Want
        BY <1>1 DEF Wanted, Want, Mode
      <3> QED BY <1>1, <2>1, <3>1 DEF Acquire, ReservationsNext
    <2>2. CASE Release(a)
      BY <2>2 DEF Release, ReservationsNext
    <2>3. CASE \/ Plan(a) \/ Materialise(a) \/ BeginApplyRun(a) \/ StalenessGuard(a)
               \/ TerraformDone(a) \/ CheckAbort(a) \/ ReadTrunk(a) \/ Commit(a)
               \/ CommitConflict(a) \/ CommitReplyLost(a) \/ Finalize(a)
      BY <2>3 DEF Plan, Materialise, BeginApplyRun, StalenessGuard, TerraformDone, CheckAbort,
                  ReadTrunk, Commit, CommitConflict, CommitReplyLost, Finalize
    <2> QED BY <1>2, <2>1, <2>2, <2>3 DEF Advance
  <1>3. ASSUME NEW a \in Apply, Heartbeat(a) PROVE [ReservationsNext]_resv
    BY <1>1, <1>3 DEF Heartbeat, ReservationsNext
  <1>4. ASSUME NEW a \in Apply, GiveUpWaiting(a) \/ Crash(a) \/ AbortApplyRun(a)
        PROVE  UNCHANGED resv
    BY <1>4 DEF GiveUpWaiting, Crash, AbortApplyRun
  <1>5. ASSUME NEW a \in Apply, AbortRelease(a) PROVE ReservationsNext
    BY <1>5 DEF AbortRelease, ReservationsNext
  <1>6. CASE Clock
    BY <1>6 DEF Clock, ReservationsNext
  <1>7. CASE UNCHANGED applyVars
    BY <1>7 DEF applyVars
  <1> QED BY <1>2, <1>3, <1>4, <1>5, <1>6, <1>7 DEF ApplyNext

(* Parallel runs implement the reservation table's specification ...       *)
THEOREM ApplyUsesReservations == ApplySafetySpec => UsesReservations
<1>1. ApplyInit => ReservationsInit
  BY DEF ApplyInit
<1>2. [ApplyNext]_applyVars => [ReservationsNext]_resv
  BY StepUsesReservations
<1> QED BY <1>1, <1>2, PTL DEF ApplySafetySpec, UsesReservations, ReservationsSpec

(* ... so no two of them ever hold conflicting reservations, however they  *)
(* crash, are aborted, outlive their leases or wait.                       *)
THEOREM ApplyNeverConflicts == ApplySafetySpec => []NoConflictingRows
  BY ApplyUsesReservations, ReservationsExclusive, PTL DEF UsesReservations

-----------------------------------------------------------------------------
(* Isolation of commits                                                    *)

(* Runs write whole resource groups: an address with count or for_each is  *)
(* written with all its instances.  The merge replaces groups while        *)
(* reservations are per instance, so isolation needs this.                 *)
WholeGroups == \A a \in Apply : GroupClosure(WriteSet[a]) \subseteq WriteSet[a]

(* A run past the staleness guard, until it commits.                       *)
Guarded(r) == r.pc \in {"terraform", "stopped", "merging", "committing"}

(* The commit of run b, whether or not its reply arrives.                  *)
Commits(b) ==
  /\ run[b].pc = "committing"
  /\ WriteStateForApply(run[b].fresh + 1, MergedState(b))
  /\ NoteStray(b)
  /\ run'[b].pc = "closing" /\ run'[b].fresh = run[b].fresh /\ run'[b].outcome \in {"ok", "error"}
  /\ run'[b].src = run[b].src /\ run'[b].tries = run[b].tries
  /\ \A a \in Apply \ {b} : run'[a] = run[a]
  /\ UNCHANGED <<resv, applyRuns>>

(* What a plan read is as it saw it, or written by a run that had lost its *)
(* reservations.                                                           *)
ReadAsPlanned(a) ==
  \A x \in ReadSet[a] : \/ versions[current].res[x] = PlannedOn(a).res[x]
                         \/ versions[current].res[x].attr \in stray

ModesAsWanted == \A a \in Apply, x \in Addr : Present(a, x) => resv[a][x].mode = Wanted(a)[x]
SourceStored  == \A a \in Apply : run[a].src > 0 => run[a].src \in DOMAIN versions
Isolated(a)   == Guarded(run[a]) /\ HoldsReservations(a) => ReadAsPlanned(a)

(* The inductive invariant, beside ApplyInv and the table's own.           *)
IsolationInv == ModesAsWanted /\ SourceStored /\ \A a \in Apply : Isolated(a)

(* A commit takes the serial after the trunk: the fresh trunk it merged is *)
(* still the trunk.  It changes the instances of its write set only.       *)
LEMMA CommitEffect ==
  ASSUME ApplyInv, WholeGroups, NEW b \in Apply, run[b].pc = "committing",
         WriteStateForApply(run[b].fresh + 1, MergedState(b))
  PROVE  /\ run[b].fresh = current /\ current \in Nat /\ current' = current + 1
         /\ current \in DOMAIN versions /\ current + 1 \notin DOMAIN versions
         /\ DOMAIN versions' = DOMAIN versions \cup {current + 1}
         /\ \A n \in DOMAIN versions : versions'[n] = versions[n]
         /\ \A x \in Addr : versions'[current'].res[x] =
              IF x \in WriteSet[b] THEN [attr |-> b, meta |-> NoMeta] ELSE versions[current].res[x]
<1>1. /\ run[b] \in RunRecord /\ current # NoVersion
      /\ run[b].fresh \in DOMAIN versions /\ run[b].base \in DOMAIN versions
  BY DEF ApplyInv, RunShape, SerialsStored, RecordStored
<1>2. DOMAIN versions \subseteq Nat /\ current \in Nat /\ versions \in [DOMAIN versions -> Doc]
  BY <1>1 DEF ApplyInv, StoreInv, StoreTypeOK
<1>3. /\ current \in DOMAIN versions /\ \A s \in DOMAIN versions : s <= current
      /\ \A s \in 1..current : s \in DOMAIN versions
  BY <1>1 DEF ApplyInv, StoreInv, HistoryGapFree
<1>4. InsertVersion(run[b].fresh + 1, MergedState(b))
  BY DEF WriteStateForApply, CommitDoc
<1>5. run[b].fresh = current
  BY <1>1, <1>2, <1>3, <1>4 DEF InsertVersion
<1>6. /\ current' = current + 1 /\ current + 1 \notin DOMAIN versions
      /\ DOMAIN versions' = DOMAIN versions \cup {current + 1}
      /\ \A n \in DOMAIN versions : versions'[n] = versions[n]
      /\ versions'[current + 1] = MergedState(b)
  BY <1>4, <1>5 DEF InsertVersion
<1>7. ASSUME NEW x \in Addr
      PROVE  MergedState(b).res[x] =
               IF x \in WriteSet[b] THEN [attr |-> b, meta |-> NoMeta] ELSE versions[current].res[x]
  <2>1. x \in GroupClosure(WriteSet[b]) <=> x \in WriteSet[b]
    BY DEF WholeGroups, GroupClosure, Groups
  <2>2. x \in WriteSet[b] => PostApply(b).res[x] = [attr |-> b, meta |-> NoMeta]
    <3>1. versions[run[b].base] \in Doc
      BY <1>1, <1>2
    <3>2. Slice(versions[run[b].base], Addr) \in Doc
      BY <3>1 DEF Slice, Doc, Cell
    <3> QED BY <3>2 DEF PostApply, Doc
  <2> QED BY <1>5, <2>1, <2>2 DEF MergedState, BuildMergedState
<1> QED BY <1>2, <1>3, <1>5, <1>6, <1>7

(* A step is of one run, and the others keep their records.                *)
LEMMA OthersStay ==
  ASSUME ApplyInv, NEW b \in Apply, NEW a \in Apply \ {b},
         \/ Advance(b) \/ GiveUpWaiting(b) \/ Heartbeat(b) \/ Crash(b)
         \/ AbortApplyRun(b) \/ AbortRelease(b)
  PROVE  run'[a] = run[a]
<1>1. run \in [Apply -> RunRecord]
  BY DEF ApplyInv, RunShape
<1>2. ASSUME NEW r, run' = [run EXCEPT ![b] = r] PROVE run'[a] = run[a]
  BY <1>1, <1>2
<1>3. ASSUME NEW pc, Exit(b, pc) \/ Goto(b, pc) PROVE run'[a] = run[a]
  BY <1>1, <1>3 DEF Exit, Goto
<1>4. ASSUME NEW how, Fail(b, how) PROVE run'[a] = run[a]
  BY <1>1, <1>4 DEF Fail
<1>5. CASE Plan(b) \/ StalenessGuard(b)
  BY <1>1, <1>4, <1>5 DEF Plan, StalenessGuard
<1>6. CASE ReadTrunk(b) \/ Commit(b) \/ CommitConflict(b)
  BY <1>1, <1>6 DEF ReadTrunk, Commit, CommitConflict
<1>7. CASE BeginApplyRun(b) \/ Acquire(b) \/ TerraformDone(b) \/ CheckAbort(b) \/ CommitReplyLost(b)
  BY <1>3, <1>4, <1>7 DEF BeginApplyRun, Acquire, TerraformDone, CheckAbort, CommitReplyLost
<1>8. CASE Finalize(b) \/ Release(b) \/ Crash(b) \/ GiveUpWaiting(b) \/ Heartbeat(b)
  BY <1>3, <1>4, <1>8 DEF Finalize, Release, Crash, GiveUpWaiting, Heartbeat
<1>9. CASE Materialise(b) \/ AbortApplyRun(b) \/ AbortRelease(b)
  BY <1>9 DEF Materialise, AbortApplyRun, AbortRelease, orchVars
<1> QED BY <1>5, <1>6, <1>7, <1>8, <1>9 DEF Advance

(* How a step can change what is stored: not at all, by a genesis where no *)
(* run is under way, or by the commit of a run.                            *)
LEMMA StoreSteps ==
  ASSUME ApplyInv, [ApplyNext]_applyVars
  PROVE  \/ UNCHANGED <<versions, current, stray>>
         \/ \E b \in Apply : Materialise(b)
         \/ \E b \in Apply : Commits(b)
<1>1. ASSUME NEW b \in Apply, Commit(b) PROVE Commits(b)
  <2>1. run'[b] = [run[b] EXCEPT !.pc = "closing", !.outcome = "ok"]
    BY <1>1 DEF Commit, ApplyInv, RunShape
  <2>2. /\ run'[b].pc = "closing" /\ run'[b].fresh = run[b].fresh /\ run'[b].outcome = "ok"
        /\ run'[b].src = run[b].src /\ run'[b].tries = run[b].tries
    BY <2>1 DEF ApplyInv, RunShape, RunRecord
  <2>3. \A a \in Apply \ {b} : run'[a] = run[a]
    BY <1>1, OthersStay DEF Advance
  <2> QED BY <1>1, <2>2, <2>3 DEF Commit, Commits
<1>2. ASSUME NEW b \in Apply, CommitReplyLost(b)
      PROVE  Commits(b) \/ UNCHANGED <<versions, current, stray>>
  <2>1. run'[b] = [run[b] EXCEPT !.pc = "closing", !.outcome = "error"]
    BY <1>2 DEF CommitReplyLost, Fail, ApplyInv, RunShape
  <2>2. /\ run'[b].pc = "closing" /\ run'[b].fresh = run[b].fresh /\ run'[b].outcome = "error"
        /\ run'[b].src = run[b].src /\ run'[b].tries = run[b].tries
    BY <2>1 DEF ApplyInv, RunShape, RunRecord
  <2>3. \A a \in Apply \ {b} : run'[a] = run[a]
    BY <1>2, OthersStay DEF Advance
  <2> QED BY <1>2, <2>2, <2>3 DEF CommitReplyLost, Commits, storeVars
<1>3. ASSUME NEW b \in Apply, Advance(b)
      PROVE  Materialise(b) \/ Commits(b) \/ UNCHANGED <<versions, current, stray>>
  BY <1>1, <1>2, <1>3
     DEF Advance, Plan, BeginApplyRun, Acquire, StalenessGuard, TerraformDone, CheckAbort, ReadTrunk,
         CommitConflict, Finalize, Release, storeVars
<1>4. ASSUME NEW b \in Apply, \/ GiveUpWaiting(b) \/ Heartbeat(b) \/ Crash(b)
                              \/ AbortApplyRun(b) \/ AbortRelease(b)
      PROVE  UNCHANGED <<versions, current, stray>>
  BY <1>4 DEF GiveUpWaiting, Heartbeat, Crash, AbortApplyRun, AbortRelease, storeVars
<1>5. CASE Clock \/ UNCHANGED applyVars
  BY <1>5 DEF Clock, applyVars, storeVars, orchVars
<1> QED BY <1>3, <1>4, <1>5 DEF ApplyNext

(* A run is past the guard because it was before, on the same plan and the *)
(* same slice, or because the guard has just let it pass.                  *)
LEMMA GuardedSince ==
  ASSUME ApplyInv, [ApplyNext]_applyVars, NEW a \in Apply, Guarded(run'[a])
  PROVE  \/ Guarded(run[a]) /\ run'[a].src = run[a].src /\ run'[a].base = run[a].base
         \/ StalenessGuard(a) /\ ~ ReadSetChanged(a)
<1>1. run \in [Apply -> RunRecord]
  BY DEF ApplyInv, RunShape
<1>2. CASE run'[a] = run[a]
  BY <1>2 DEF Guarded
<1>3. CASE run'[a] # run[a]
  <2>1. PICK b \in Apply : \/ Advance(b) \/ GiveUpWaiting(b) \/ Heartbeat(b) \/ Crash(b)
                           \/ AbortApplyRun(b) \/ AbortRelease(b)
    BY <1>3 DEF ApplyNext, Clock, applyVars, orchVars
  <2>2. b = a
    BY <1>3, <2>1, OthersStay
  <2>3. ASSUME NEW how, Fail(a, how) PROVE FALSE
    BY <1>1, <2>3 DEF Fail, Guarded, RunRecord
  <2>4. ASSUME NEW pc, Exit(a, pc), pc \in {"done", "crashed"} PROVE FALSE
    BY <1>1, <2>4 DEF Exit, NewRun, Guarded
  <2>5. ASSUME NEW pc, Goto(a, pc)
        PROVE  run'[a].pc = pc /\ run'[a].src = run[a].src /\ run'[a].base = run[a].base
    BY <1>1, <2>5 DEF Goto, RunRecord
  <2>6. ~ Plan(a)
    BY <1>1 DEF Plan, Guarded, RunRecord
  <2>7. ~ Commit(a)
    BY <2>3 DEF Commit, Fail
  <2>8. CASE BeginApplyRun(a) \/ Acquire(a) \/ Finalize(a)
    BY <2>5, <2>8 DEF BeginApplyRun, Acquire, Finalize, Guarded
  <2>9. CASE CheckAbort(a) \/ TerraformDone(a)
    BY <2>3, <2>5, <2>9 DEF CheckAbort, TerraformDone, Guarded
  <2>10. CASE ReadTrunk(a)
    BY <1>1, <2>10 DEF ReadTrunk, Guarded, RunRecord
  <2>11. CASE CommitConflict(a)
    <3>1. run'[a].src = run[a].src /\ run'[a].base = run[a].base
      BY <1>1, <2>11 DEF CommitConflict, RunRecord
    <3> QED BY <2>11, <3>1 DEF CommitConflict, Guarded
  <2>12. CASE StalenessGuard(a)
    BY <2>3, <2>12 DEF StalenessGuard
  <2>13. CASE CommitReplyLost(a) \/ GiveUpWaiting(a) \/ Heartbeat(a)
    BY <1>3, <2>3, <2>13 DEF CommitReplyLost, GiveUpWaiting, Heartbeat
  <2>14. CASE Release(a) \/ Crash(a)
    BY <2>4, <2>14 DEF Release, Crash
  <2>15. CASE Materialise(a) \/ AbortApplyRun(a) \/ AbortRelease(a)
    BY <1>3, <2>15 DEF Materialise, AbortApplyRun, AbortRelease, orchVars
  <2> QED BY <2>1, <2>2, <2>6, <2>7, <2>8, <2>9, <2>10, <2>11, <2>12, <2>13, <2>14, <2>15 DEF Advance
<1> QED BY <1>2, <1>3

(* Rows appear when their run acquires them, and keep their modes.         *)
LEMMA RowsKeepModes ==
  ASSUME ReservationsTypeOK, [ApplyNext]_applyVars, NEW a \in Apply, NEW x \in Addr, Present(a, x)'
  PROVE  \/ Present(a, x) /\ resv'[a][x].mode = resv[a][x].mode
         \/ Acquire(a) /\ resv'[a][x].mode = Wanted(a)[x]
<1>1. Glob = Addr /\ resv \in [Apply -> [Addr -> Row \cup {NoRow}]]
  BY ApplyAssumption DEF ReservationsTypeOK
<1>2. ASSUME NEW b \in Apply, Acquire(b)
      PROVE  \/ Present(a, x) /\ resv'[a][x].mode = resv[a][x].mode
             \/ Acquire(a) /\ resv'[a][x].mode = Wanted(a)[x]
  <2>1. resv'[a][x] = IF a = b /\ Wanted(b)[x] # "none" THEN [mode |-> Wanted(b)[x], ttl |-> MaxLease]
                      ELSE IF Purgeable(a, x) THEN NoRow ELSE resv[a][x]
    BY <1>1, <1>2 DEF Acquire, AcquireReservations, AcquireEffect
  <2> QED BY <1>2, <2>1 DEF Present
<1>3. ASSUME NEW b \in Apply, Heartbeat(b)
      PROVE  Present(a, x) /\ resv'[a][x].mode = resv[a][x].mode
  <2>1. CASE UNCHANGED resv
    BY <2>1 DEF Present
  <2>2. CASE RenewReservations(b, MaxLease)
    <3>1. resv'[a][x] = IF a = b /\ Renewable(b, x) THEN [resv[a][x] EXCEPT !.ttl = MaxLease] ELSE resv[a][x]
      BY <1>1, <2>2 DEF RenewReservations
    <3>2. Renewable(b, x) => Present(b, x)
      BY DEF Renewable
    <3>3. [resv[a][x] EXCEPT !.ttl = MaxLease].mode = resv[a][x].mode
      BY <1>1 DEF Row, NoRow
    <3> QED BY <3>1, <3>2, <3>3 DEF Present
  <2> QED BY <1>3, <2>1, <2>2 DEF Heartbeat
<1>4. ASSUME NEW b \in Apply, ReleaseReservations(b)
      PROVE  Present(a, x) /\ resv'[a][x].mode = resv[a][x].mode
  BY <1>1, <1>4 DEF ReleaseReservations, Present
<1>5. CASE Tick
  <2>1. resv'[a][x] = TickRow(resv[a][x])
    BY <1>1, <1>5 DEF Tick
  <2> QED BY <1>1, <2>1, TickRowType DEF Present
<1>6. CASE UNCHANGED resv
  BY <1>6 DEF Present
<1>7. ASSUME NEW b \in Apply, Advance(b) PROVE Acquire(b) \/ ReleaseReservations(b) \/ UNCHANGED resv
  BY <1>7 DEF Advance, Plan, Materialise, BeginApplyRun, StalenessGuard, TerraformDone, CheckAbort,
              ReadTrunk, Commit, CommitConflict, CommitReplyLost, Finalize, Release
<1>8. ASSUME NEW b \in Apply, GiveUpWaiting(b) \/ Crash(b) \/ AbortApplyRun(b) \/ AbortRelease(b)
      PROVE  ReleaseReservations(b) \/ UNCHANGED resv
  BY <1>8 DEF GiveUpWaiting, Crash, AbortApplyRun, AbortRelease
<1>9. CASE Clock \/ UNCHANGED applyVars
  BY <1>5, <1>6, <1>9 DEF Clock, applyVars
<1> QED BY <1>2, <1>3, <1>4, <1>6, <1>7, <1>8, <1>9 DEF ApplyNext

(* A run that acquires is not past the guard after the step.               *)
LEMMA AcquiringIsNotGuarded ==
  ASSUME ApplyInv, NEW a \in Apply, Acquire(a) PROVE ~ Guarded(run'[a])
<1>1. run'[a].pc = "guard"
  BY DEF ApplyInv, RunShape, Acquire, Goto, RunRecord
<1> QED BY <1>1 DEF Guarded

LEMMA ModesStep ==
  ASSUME ReservationsTypeOK, ModesAsWanted, [ApplyNext]_applyVars PROVE ModesAsWanted'
<1> SUFFICES ASSUME NEW a \in Apply, NEW x \in Addr, Present(a, x)'
             PROVE  resv'[a][x].mode = Wanted(a)[x]
  BY DEF ModesAsWanted, Wanted
<1> QED BY RowsKeepModes DEF ModesAsWanted

LEMMA SourceStep ==
  ASSUME ApplyInv, SourceStored, [ApplyNext]_applyVars PROVE SourceStored'
<1>1. /\ run \in [Apply -> RunRecord] /\ DOMAIN versions \subseteq DOMAIN versions'
      /\ TrunkSerial > 0 => TrunkSerial \in DOMAIN versions
  <2>1. DOMAIN versions \subseteq DOMAIN versions'
    BY StepUsesStore, StoreGrows DEF ApplyInv
  <2> QED BY <2>1 DEF ApplyInv, RunShape, StoreInv, HistoryGapFree, TrunkSerial
<1>2. ASSUME NEW a \in Apply
      PROVE  run'[a].src \in {0, run[a].src, TrunkSerial}
  <2>1. CASE run'[a] = run[a]
    BY <2>1
  <2>2. ASSUME NEW how, Fail(a, how) PROVE run'[a].src = run[a].src
    BY <1>1, <2>2 DEF Fail, RunRecord
  <2>3. ASSUME NEW pc, Goto(a, pc) PROVE run'[a].src = run[a].src
    BY <1>1, <2>3 DEF Goto, RunRecord
  <2>4. ASSUME NEW pc, Exit(a, pc) PROVE run'[a].src = 0
    BY <1>1, <2>4 DEF Exit, NewRun
  <2>5. CASE run'[a] # run[a]
    <3>1. PICK b \in Apply : \/ Advance(b) \/ GiveUpWaiting(b) \/ Heartbeat(b) \/ Crash(b)
                             \/ AbortApplyRun(b) \/ AbortRelease(b)
      BY <2>5 DEF ApplyNext, Clock, applyVars, orchVars
    <3>2. b = a
      BY <2>5, <3>1, OthersStay
    <3>3. CASE Plan(a)
      BY <1>1, <3>3 DEF Plan, RunRecord
    <3>4. CASE StalenessGuard(a) \/ ReadTrunk(a) \/ Commit(a)
      <4>1. ASSUME ~ ReadSetChanged(a), StalenessGuard(a) PROVE run'[a].src = run[a].src
        BY <1>1, <4>1 DEF StalenessGuard, RunRecord
      <4>2. ASSUME ReadTrunk(a) PROVE run'[a].src = run[a].src
        BY <1>1, <4>2 DEF ReadTrunk, RunRecord
      <4>3. ASSUME Commit(a) PROVE run'[a].src = run[a].src
        BY <2>2, <4>3 DEF Commit, Fail
      <4> QED BY <2>2, <3>4, <4>1, <4>2, <4>3 DEF StalenessGuard
    <3>5. CASE CommitConflict(a)
      BY <1>1, <3>5 DEF CommitConflict, RunRecord
    <3>6. CASE BeginApplyRun(a) \/ Acquire(a) \/ TerraformDone(a) \/ CheckAbort(a) \/ Finalize(a)
      BY <2>2, <2>3, <3>6 DEF BeginApplyRun, Acquire, TerraformDone, CheckAbort, Finalize
    <3>7. CASE CommitReplyLost(a) \/ GiveUpWaiting(a) \/ Heartbeat(a)
      BY <2>1, <2>2, <3>7 DEF CommitReplyLost, GiveUpWaiting, Heartbeat
    <3>8. CASE Release(a) \/ Crash(a)
      BY <2>4, <3>8 DEF Release, Crash
    <3>9. CASE Materialise(a) \/ AbortApplyRun(a) \/ AbortRelease(a)
      BY <2>5, <3>9 DEF Materialise, AbortApplyRun, AbortRelease, orchVars
    <3> QED BY <3>1, <3>2, <3>3, <3>4, <3>5, <3>6, <3>7, <3>8, <3>9 DEF Advance
  <2> QED BY <2>1, <2>5
<1>3. ASSUME NEW a \in Apply, run'[a].src > 0 PROVE run'[a].src \in DOMAIN versions'
  BY <1>1, <1>2, <1>3 DEF SourceStored
<1> QED BY <1>3 DEF SourceStored

(* Two runs that hold their reservations: neither writes what the other    *)
(* reads.                                                                  *)
LEMMA WritesApart ==
  ASSUME NoConflictingRows, ModesAsWanted, NEW a \in Apply, NEW b \in Apply \ {a},
         HoldsReservations(a), HoldsReservations(b), NEW x \in ReadSet[a]
  PROVE  x \notin WriteSet[b]
<1> SUFFICES ASSUME x \in WriteSet[b] PROVE FALSE
  OBVIOUS
<1>1. x \in Glob /\ Intersects(x, x) /\ x \in ReadSet[b] /\ x \in Addr
  BY ApplyAssumption, IntersectsReflexive
<1>2. Present(a, x) /\ Present(b, x)
  BY <1>1 DEF HoldsReservations
<1>3. resv[b][x].mode = "write"
  BY <1>1, <1>2 DEF ModesAsWanted, Wanted
<1> QED BY <1>1, <1>2, <1>3 DEF NoConflictingRows

(* What a run past the guard read stays as it saw it: a commit of a run    *)
(* with its reservations leaves it alone, one without marks what it wrote. *)
LEMMA IsolatedStep ==
  ASSUME ApplyInv, ReservationsTypeOK, NoConflictingRows, IsolationInv, WholeGroups,
         [ApplyNext]_applyVars, NEW a \in Apply
  PROVE  Isolated(a)'
<1>0. /\ ModesAsWanted /\ SourceStored /\ Isolated(a) /\ run \in [Apply -> RunRecord]
      /\ ReadSet[a] \subseteq Addr
  BY ApplyAssumption DEF IsolationInv, ApplyInv, RunShape
<1> SUFFICES ASSUME Guarded(run'[a]), HoldsReservations(a)' PROVE ReadAsPlanned(a)'
  BY DEF Isolated
<1>1. HoldsReservations(a)
  BY <1>0, RowsKeepModes, AcquiringIsNotGuarded DEF HoldsReservations
<1>2. CASE StalenessGuard(a) /\ ~ ReadSetChanged(a)
  <2>1. /\ run'[a].src = run[a].src /\ run'[a].base = current /\ UNCHANGED <<versions, current>>
    BY <1>0, <1>2 DEF StalenessGuard, storeVars, RunRecord
  <2>2. \A x \in ReadSet[a] : x \in GroupClosure(ReadSet[a])
    BY <1>0 DEF GroupClosure, Groups
  <2>3. run[a].src > 0 => \A x \in ReadSet[a] : versions[run[a].src].res[x] = versions[current].res[x]
    BY <1>2, <2>2 DEF ReadSetChanged, ChangedReadSet
  <2> QED BY <2>1, <2>3 DEF ReadAsPlanned, PlannedOn
<1>3. CASE Guarded(run[a]) /\ run'[a].src = run[a].src /\ run'[a].base = run[a].base
  <2> DEFINE n == IF run[a].src > 0 THEN run[a].src ELSE run[a].base
  <2>1. n \in DOMAIN versions /\ current # NoVersion
    BY <1>0, <1>3 DEF SourceStored, ApplyInv, SerialsStored, RecordStored, Guarded
  <2>2. PlannedOn(a) = versions[n] /\ PlannedOn(a)' = versions'[n]
    BY <1>3 DEF PlannedOn
  <2> HIDE DEF n
  <2>3. ReadAsPlanned(a)
    BY <1>0, <1>1, <1>3 DEF Isolated
  <2>4. CASE UNCHANGED <<versions, current, stray>>
    BY <2>2, <2>3, <2>4 DEF ReadAsPlanned
  <2>5. ASSUME NEW b \in Apply, Materialise(b) PROVE FALSE
    BY <2>1, <2>5 DEF Materialise, EnsureCurrentStateInfo
  <2>6. ASSUME NEW b \in Apply, Commits(b) PROVE ReadAsPlanned(a)'
    <3>1. a # b
      BY <2>6 DEF Commits, Guarded
    <3>2. /\ \A m \in DOMAIN versions : versions'[m] = versions[m]
          /\ \A x \in Addr : versions'[current'].res[x] =
               IF x \in WriteSet[b] THEN [attr |-> b, meta |-> NoMeta] ELSE versions[current].res[x]
      BY <2>6, CommitEffect DEF Commits
    <3>3. PlannedOn(a)' = PlannedOn(a)
      BY <2>1, <2>2, <3>2
    <3>4. stray \subseteq stray' /\ (~ HoldsReservations(b) => b \in stray')
      BY <2>6 DEF Commits, NoteStray
    <3>5. ASSUME NEW x \in ReadSet[a]
          PROVE  \/ versions'[current'].res[x] = PlannedOn(a).res[x]
                 \/ versions'[current'].res[x].attr \in stray'
      <4>1. CASE x \notin WriteSet[b]
        BY <1>0, <2>3, <3>2, <3>4, <4>1 DEF ReadAsPlanned
      <4>2. CASE x \in WriteSet[b]
        <5>1. ~ HoldsReservations(b)
          BY <1>0, <1>1, <3>1, <4>2, WritesApart
        <5> QED BY <1>0, <3>2, <3>4, <4>2, <5>1
      <4> QED BY <4>1, <4>2
    <3> QED BY <3>3, <3>5 DEF ReadAsPlanned
  <2> QED BY <2>4, <2>5, <2>6, StoreSteps
<1> QED BY <1>2, <1>3, GuardedSince

(* A commit is made of the trunk as it is, by a run past the guard.        *)
LEMMA CommitIsIsolated ==
  ASSUME ApplyInv, IsolationInv, WholeGroups, NEW a \in Apply, Commit(a), HoldsReservations(a)
  PROVE  /\ ReadAsPlanned(a)
         /\ \A x \in Addr : versions'[current'].res[x] =
              IF x \in WriteSet[a] THEN [attr |-> a, meta |-> NoMeta] ELSE versions[current].res[x]
<1>1. Guarded(run[a]) /\ Isolated(a)
  BY DEF Commit, Guarded, IsolationInv
<1>2. ReadAsPlanned(a)
  BY <1>1 DEF Isolated
<1> QED BY <1>2, CommitEffect DEF Commit

(* For any number of runs that write whole groups, however they crash, are *)
(* aborted, lose leases and replies, wait and retry: a run that holds its  *)
(* reservations at its commit is isolated.                                 *)
THEOREM CommitsIsolated ==
  ASSUME WholeGroups
  PROVE  ApplySafetySpec => CommitIsolated
<1>1. ApplyInit => IsolationInv
  <2> SUFFICES ASSUME ApplyInit PROVE IsolationInv
    OBVIOUS
  <2>1. \A a \in Apply : run[a].src = 0 /\ run[a].pc = "new"
    BY DEF ApplyInit, NewRun
  <2>2. \A a \in Apply, x \in Addr : ~ Present(a, x)
    BY ApplyAssumption DEF ApplyInit, ReservationsInit, Present
  <2> QED BY <2>1, <2>2 DEF IsolationInv, ModesAsWanted, SourceStored, Isolated, Guarded
<1>2. ApplyInv /\ ReservationsTypeOK /\ NoConflictingRows /\ IsolationInv /\ [ApplyNext]_applyVars
        => IsolationInv'
  BY ModesStep, SourceStep, IsolatedStep DEF IsolationInv
<1>3. ApplyInv /\ [ApplyNext]_applyVars => ApplyInv'
  BY ApplyInvStep
<1>4. ApplyInv /\ IsolationInv /\ [ApplyNext]_applyVars
        => [\A a \in Apply : (Commit(a) /\ HoldsReservations(a)) =>
              /\ \A x \in ReadSet[a] : \/ versions[current].res[x] = PlannedOn(a).res[x]
                                       \/ versions[current].res[x].attr \in stray
              /\ \A x \in Addr : versions'[current'].res[x] =
                   IF x \in WriteSet[a] THEN [attr |-> a, meta |-> NoMeta]
                   ELSE versions[current].res[x]]_applyVars
  BY CommitIsIsolated DEF ReadAsPlanned
<1>5. ApplySafetySpec => [](ReservationsTypeOK /\ NoConflictingRows)
  BY ApplyUsesReservations, ApplyNeverConflicts, ReservationsTypeCorrect, PTL DEF UsesReservations
<1> QED BY <1>1, <1>2, <1>3, <1>4, <1>5, ApplyInvInit, PTL DEF ApplySafetySpec, CommitIsolated

-----------------------------------------------------------------------------
(* The audit trail                                                         *)

(* A run that has not committed.                                           *)
Uncommitted == {"new", "planned", "acquiring", "guard", "terraform", "stopped", "merging", "committing"}

Unwritten(a) == \A n \in DOMAIN versions, x \in Addr : versions[n].res[x].attr # a

(* The other runs with a version up to serial s, and the trunk a run has   *)
(* seen: between its read and its commit attempt, the one it read.         *)
Others(a, s) == {b \in Apply \ {a} : \E n \in Authored(b) : n <= s}
Seen(a)      == IF run[a].pc = "committing" THEN run[a].fresh ELSE current

(* Every version after the first is a run's.                               *)
VersionsAuthored ==
  \A n \in DOMAIN versions : n - 1 \in DOMAIN versions => \E b \in Apply : n \in Authored(b)

AuditTypes ==
  /\ applyRuns \in [Apply -> [status : Status, serial : Nat]]
  /\ operator \in [Apply -> {"none", "aborted", "released"}]
  /\ stray \subseteq Apply

AuditOK(a) ==
  /\ run[a].pc \in Uncommitted => Unwritten(a) /\ run[a].tries < MaxRetries
  /\ run[a].tries <= MaxRetries
  /\ run[a].pc = "closing" /\ run[a].outcome = "ok" => Authored(a) = {run[a].fresh + 1}
  /\ \A m, n \in Authored(a) : m = n
  /\ applyRuns[a].status = "committed" => Authored(a) = {applyRuns[a].serial}
  /\ run[a].tries <= Cardinality(Others(a, Seen(a)))

(* The inductive invariant, beside ApplyInv and the table's own.           *)
AuditInv == AuditTypes /\ VersionsAuthored /\ \A a \in Apply : AuditOK(a)

(* A commit gives its run its version, and no other run any.               *)
LEMMA AuthoredAtCommit ==
  ASSUME ApplyInv, WholeGroups, NEW b \in Apply, Commits(b), NEW a \in Apply
  PROVE  /\ a # b => Authored(a)' = Authored(a) /\ (Unwritten(a) => Unwritten(a)')
         /\ Unwritten(b) => Authored(b)' = {current + 1}
<1>1. /\ current \in Nat /\ current' = current + 1
      /\ current \in DOMAIN versions /\ current + 1 \notin DOMAIN versions
      /\ DOMAIN versions' = DOMAIN versions \cup {current + 1}
      /\ \A n \in DOMAIN versions : versions'[n] = versions[n]
      /\ \A x \in Addr : versions'[current + 1].res[x] =
           IF x \in WriteSet[b] THEN [attr |-> b, meta |-> NoMeta] ELSE versions[current].res[x]
  BY CommitEffect DEF Commits
<1>2. DOMAIN versions \subseteq Nat /\ \A n \in DOMAIN versions : n <= current
  BY <1>1 DEF ApplyInv, StoreInv, StoreTypeOK, HistoryGapFree, NoVersion
<1>3. \A o \in Apply : WriteSet[o] \subseteq Addr /\ WriteSet[o] # {}
  BY ApplyAssumption
<1> DEFINE N == current + 1
           V == DOMAIN versions
<1>4. \A n \in V : n - 1 \in DOMAIN versions' <=> n - 1 \in V
  BY <1>1, <1>2
<1>5. \A o \in Apply, n \in V : n \in Authored(o)' <=> n \in Authored(o)
  BY <1>1, <1>4 DEF Authored
<1>6. \A o \in Apply : Authored(o) \subseteq V /\ Authored(o)' \subseteq V \cup {N}
  BY <1>1 DEF Authored
<1>7. \A o \in Apply : N \in Authored(o)' <=>
         \E x \in WriteSet[o] : versions'[N].res[x].attr = o /\ versions[current].res[x].attr # o
  <2>1. N - 1 = current
    BY <1>1
  <2> QED BY <1>1, <2>1 DEF Authored
<1>8. ASSUME a # b PROVE Authored(a)' = Authored(a)
  <2>1. N \notin Authored(a)'
    BY <1>1, <1>3, <1>7, <1>8
  <2> QED BY <1>1, <1>5, <1>6, <2>1
<1>9. ASSUME a # b, Unwritten(a) PROVE Unwritten(a)'
  BY <1>1, <1>9 DEF Unwritten
<1>10. ASSUME Unwritten(b) PROVE Authored(b)' = {N}
  <2>1. Authored(b) = {}
    BY <1>3, <1>10 DEF Authored, Unwritten
  <2>2. N \in Authored(b)'
    BY <1>1, <1>3, <1>7, <1>10 DEF Unwritten
  <2> QED BY <1>5, <1>6, <2>1, <2>2
<1> QED BY <1>8, <1>9, <1>10

(* The genesis is no run's.                                                *)
LEMMA AuthoredAtGenesis ==
  ASSUME ApplyInv, NEW b \in Apply, Materialise(b), NEW a \in Apply
  PROVE  /\ Authored(a)' = Authored(a) /\ Unwritten(a)' /\ VersionsAuthored'
<1>1. /\ DOMAIN versions = {} /\ DOMAIN versions' = {0} /\ versions'[0] = EmptyDoc
  BY DEF Materialise, EnsureCurrentStateInfo, CommitDoc, InsertVersion, ApplyInv, StoreInv, HistoryGapFree
<1>2. a # NoAttr /\ \A x \in Addr : EmptyDoc.res[x].attr = NoAttr
  BY ApplyAssumption, DocAssumption DEF EmptyDoc, Absent
<1>3. WriteSet[a] \subseteq Addr
  BY ApplyAssumption
<1>4. \A x \in Addr : versions'[0].res[x].attr # a
  BY <1>1, <1>2
<1>5. Unwritten(a)' /\ VersionsAuthored'
  BY <1>1, <1>4 DEF Unwritten, VersionsAuthored
<1>6. Authored(a)' = {} /\ Authored(a) = {}
  BY <1>1, <1>3, <1>4 DEF Authored
<1> QED BY <1>5, <1>6

(* A step gives a run a version only by its own commit.                    *)
LEMMA AuthoredStep ==
  ASSUME ApplyInv, WholeGroups, [ApplyNext]_applyVars, NEW a \in Apply
  PROVE  Commits(a) \/ (Authored(a)' = Authored(a) /\ (Unwritten(a) => Unwritten(a)'))
<1>1. CASE UNCHANGED <<versions, current, stray>>
  BY <1>1 DEF Authored, Unwritten
<1> QED BY <1>1, StoreSteps, AuthoredAtCommit, AuthoredAtGenesis

LEMMA VersionsAuthoredStep ==
  ASSUME ApplyInv, WholeGroups, AuditInv, [ApplyNext]_applyVars
  PROVE  VersionsAuthored'
<1>1. CASE UNCHANGED <<versions, current, stray>>
  BY <1>1 DEF AuditInv, VersionsAuthored, Authored
<1>2. ASSUME NEW b \in Apply, Materialise(b) PROVE VersionsAuthored'
  BY <1>2, AuthoredAtGenesis
<1>3. ASSUME NEW b \in Apply, Commits(b) PROVE VersionsAuthored'
  <2>1. /\ DOMAIN versions' = DOMAIN versions \cup {current + 1} /\ current \in Nat
        /\ \A n \in DOMAIN versions : n <= current /\ n \in Nat
    BY <1>3, CommitEffect DEF Commits, ApplyInv, StoreInv, StoreTypeOK, HistoryGapFree, NoVersion
  <2>2. Unwritten(b)
    BY <1>3 DEF Commits, AuditInv, AuditOK, Uncommitted
  <2>3. Authored(b)' = {current + 1} /\ \A o \in Apply \ {b} : Authored(o)' = Authored(o)
    BY <1>3, <2>2, AuthoredAtCommit
  <2>4. Authored(b) = {}
    BY <2>2, ApplyAssumption DEF Unwritten, Authored
  <2>5. ASSUME NEW n \in DOMAIN versions', n - 1 \in DOMAIN versions'
        PROVE  \E o \in Apply : n \in Authored(o)'
    <3>1. CASE n = current + 1
      BY <2>3, <3>1
    <3>2. CASE n # current + 1
      <4>1. n \in DOMAIN versions /\ n - 1 \in DOMAIN versions
        BY <2>1, <2>5, <3>2
      <4>2. PICK o \in Apply : n \in Authored(o)
        BY <4>1 DEF AuditInv, VersionsAuthored
      <4>3. o # b
        BY <2>4, <4>2
      <4> QED BY <2>3, <4>2, <4>3
    <3> QED BY <3>1, <3>2
  <2> QED BY <2>5 DEF VersionsAuthored
<1> QED BY <1>1, <1>2, <1>3, StoreSteps

(* Versions are not taken away from a run.                                 *)
LEMMA AuthoredGrows ==
  ASSUME ApplyInv, WholeGroups, AuditInv, [ApplyNext]_applyVars, NEW b \in Apply
  PROVE  Authored(b) \subseteq Authored(b)'
<1>1. CASE Commits(b)
  <2>1. Unwritten(b)
    BY <1>1 DEF Commits, AuditInv, AuditOK, Uncommitted
  <2> QED BY <2>1, ApplyAssumption DEF Authored, Unwritten
<1> QED BY <1>1, AuthoredStep

LEMMA OthersFinite ==
  ASSUME NEW a \in Apply, NEW s
  PROVE  IsFiniteSet(Others(a, s)) /\ Cardinality(Others(a, s)) \in Nat
BY ApplyAssumption, FS_Subset, FS_CardinalityType DEF Others

LEMMA OthersGrow ==
  ASSUME ApplyInv, WholeGroups, AuditInv, [ApplyNext]_applyVars,
         NEW a \in Apply, NEW s \in Int, NEW t \in Int, s <= t
  PROVE  Cardinality(Others(a, s)) <= Cardinality(Others(a, t)')
<1>1. Others(a, s) \subseteq Others(a, t)'
  <2>1. \A b \in Apply : Authored(b) \subseteq Nat
    BY DEF Authored, ApplyInv, StoreInv, StoreTypeOK
  <2> QED BY <2>1, AuthoredGrows DEF Others
<1>2. IsFiniteSet(Others(a, t)')
  BY ApplyAssumption, FS_Subset DEF Others
<1> QED BY <1>1, <1>2, FS_Subset

(* A commit attempt is lost to a run that no earlier attempt was lost to:  *)
(* the version after the trunk that was merged is that run's only one.     *)
LEMMA LostToAnother ==
  ASSUME ApplyInv, AuditInv, NEW a \in Apply, CommitConflict(a)
  PROVE  Cardinality(Others(a, run[a].fresh)) + 1 <= Cardinality(Others(a, current))
<1> DEFINE f == run[a].fresh
<1>1. /\ f \in DOMAIN versions /\ f + 1 \in DOMAIN versions /\ current # NoVersion
      /\ run[a].pc = "committing"
  BY DEF CommitConflict, ApplyInv, SerialsStored, RecordStored
<1>2. /\ DOMAIN versions \subseteq Nat /\ current \in Nat /\ f <= current /\ f + 1 <= current /\ f \in Nat
  BY <1>1 DEF ApplyInv, StoreInv, StoreTypeOK, HistoryGapFree
<1>3. Authored(a) = {}
  BY <1>1, ApplyAssumption DEF AuditInv, AuditOK, Uncommitted, Unwritten, Authored
<1>4. PICK b \in Apply : f + 1 \in Authored(b)
  BY <1>1, <1>2 DEF AuditInv, VersionsAuthored
<1>5. b \in Apply \ {a} /\ \A n \in Authored(b) : n = f + 1
  BY <1>3, <1>4 DEF AuditInv, AuditOK
<1> HIDE DEF f
<1>6. b \notin Others(a, f) /\ b \in Others(a, current)
  BY <1>2, <1>4, <1>5 DEF Others
<1>7. Others(a, f) \subseteq Others(a, current)
  <2>1. \A o \in Apply : Authored(o) \subseteq Nat
    BY <1>2 DEF Authored
  <2> QED BY <1>2, <2>1 DEF Others
<1>8. Cardinality(Others(a, f) \cup {b}) = Cardinality(Others(a, f)) + 1
  BY <1>6, OthersFinite, FS_AddElement
<1>9. Cardinality(Others(a, f) \cup {b}) <= Cardinality(Others(a, current))
  BY <1>6, <1>7, OthersFinite, FS_Subset
<1> QED BY <1>8, <1>9 DEF f

-----------------------------------------------------------------------------
(* What a step does to a run                                               *)

Stays(a)    == run'[a] = run[a]
Ends(a)     == run'[a].pc \in {"done", "crashed"} /\ run'[a].tries = 0
Fails(a)    == /\ run[a].pc \in Uncommitted /\ run'[a].pc = "closing" /\ run'[a].outcome # "ok"
               /\ run'[a].tries = run[a].tries
Proceeds(a) == /\ run[a].pc \in Uncommitted \ {"committing"} /\ run'[a].pc \in Uncommitted \ {"committing"}
               /\ run'[a].tries = run[a].tries
Reads(a)    == /\ run[a].pc = "merging" /\ run'[a].pc = "committing" /\ run'[a].fresh = current
               /\ run'[a].tries = run[a].tries
Settles(a)  == /\ run[a].pc = "closing" /\ run'[a].pc = "releasing" /\ run'[a].tries = run[a].tries

LEMMA RunSteps ==
  ASSUME ApplyInv, [ApplyNext]_applyVars, NEW a \in Apply
  PROVE  \/ Stays(a) \/ Ends(a) \/ Fails(a) \/ Proceeds(a) \/ Reads(a) \/ Settles(a)
         \/ CommitConflict(a) \/ Commits(a)
<1>1. run \in [Apply -> RunRecord]
  BY DEF ApplyInv, RunShape
<1>2. ASSUME run'[a] # run[a]
      PROVE  \/ Ends(a) \/ Fails(a) \/ Proceeds(a) \/ Reads(a) \/ Settles(a) \/ CommitConflict(a) \/ Commits(a)
  <2>1. PICK b \in Apply : \/ Advance(b) \/ GiveUpWaiting(b) \/ Heartbeat(b) \/ Crash(b)
                           \/ AbortApplyRun(b) \/ AbortRelease(b)
    BY <1>2 DEF ApplyNext, Clock, applyVars, orchVars
  <2>2. b = a
    BY <1>2, <2>1, OthersStay
  <2>3. ASSUME NEW how, how # "ok", Fail(a, how), run[a].pc \in Uncommitted PROVE Fails(a)
    <3>1. run'[a].pc = "closing" /\ run'[a].outcome = how /\ run'[a].tries = run[a].tries
      BY <1>1, <2>3 DEF Fail, RunRecord
    <3> QED BY <2>3, <3>1 DEF Fails
  <2>4. ASSUME NEW pc, pc \in {"done", "crashed"}, Exit(a, pc) PROVE Ends(a)
    BY <1>1, <2>4 DEF Exit, NewRun, Ends
  <2>5. ASSUME NEW pc, Goto(a, pc) PROVE run'[a].pc = pc /\ run'[a].tries = run[a].tries
    BY <1>1, <2>5 DEF Goto, RunRecord
  <2>6. CASE Plan(a)
    <3>1. run'[a].pc = "planned" /\ run'[a].tries = run[a].tries /\ run[a].pc = "new"
      BY <1>1, <2>6 DEF Plan, RunRecord
    <3> QED BY <3>1 DEF Proceeds, Uncommitted
  <2>7. CASE BeginApplyRun(a) \/ Acquire(a)
    BY <2>5, <2>7 DEF BeginApplyRun, Acquire, Proceeds, Uncommitted
  <2>8. CASE StalenessGuard(a)
    <3>1. CASE ReadSetChanged(a)
      BY <2>3, <2>8, <3>1 DEF StalenessGuard, Uncommitted
    <3>2. CASE ~ ReadSetChanged(a)
      <4>1. run'[a].pc = "terraform" /\ run'[a].tries = run[a].tries /\ run[a].pc = "guard"
        BY <1>1, <2>8, <3>2 DEF StalenessGuard, RunRecord
      <4> QED BY <4>1 DEF Proceeds, Uncommitted
    <3> QED BY <3>1, <3>2
  <2>9. CASE TerraformDone(a) \/ CheckAbort(a)
    BY <2>3, <2>5, <2>9 DEF TerraformDone, CheckAbort, Proceeds, Uncommitted
  <2>10. CASE ReadTrunk(a)
    BY <1>1, <2>10 DEF ReadTrunk, Reads, RunRecord
  <2>11. CASE Commit(a)
    <3>1. run'[a] = [run[a] EXCEPT !.pc = "closing", !.outcome = "ok"]
      BY <1>1, <2>11 DEF Commit
    <3>2. /\ run'[a].pc = "closing" /\ run'[a].fresh = run[a].fresh /\ run'[a].outcome = "ok"
          /\ run'[a].src = run[a].src /\ run'[a].tries = run[a].tries
      BY <1>1, <3>1 DEF RunRecord
    <3>3. \A o \in Apply \ {a} : run'[o] = run[o]
      BY <2>11, OthersStay DEF Advance
    <3> QED BY <2>11, <3>2, <3>3 DEF Commit, Commits
  <2>12. CASE CommitReplyLost(a)
    BY <2>3, <2>12 DEF CommitReplyLost, Uncommitted
  <2>13. CASE GiveUpWaiting(a) \/ Heartbeat(a)
    BY <1>2, <2>3, <2>13 DEF GiveUpWaiting, Heartbeat, Uncommitted
  <2>14. CASE Finalize(a)
    BY <2>5, <2>14 DEF Finalize, Settles
  <2>15. CASE Release(a) \/ Crash(a)
    BY <2>4, <2>15 DEF Release, Crash
  <2>16. CASE Materialise(a) \/ AbortApplyRun(a) \/ AbortRelease(a)
    BY <1>2, <2>16 DEF Materialise, AbortApplyRun, AbortRelease, orchVars
  <2> QED BY <2>1, <2>2, <2>6, <2>7, <2>8, <2>9, <2>10, <2>11, <2>12, <2>13, <2>14, <2>15, <2>16 DEF Advance
<1> QED BY <1>2 DEF Stays

(* A row turns committed when its run settles a commit that succeeded; no  *)
(* other step, the operator's included, touches a terminal row.            *)
LEMMA RowSteps ==
  ASSUME ApplyInv, AuditTypes, [ApplyNext]_applyVars
  PROVE  /\ AuditTypes'
         /\ \A a \in Apply : applyRuns'[a].status = "committed" =>
              \/ applyRuns'[a] = applyRuns[a]
              \/ /\ run[a].pc = "closing" /\ run[a].outcome = "ok"
                 /\ applyRuns'[a].serial = run[a].fresh + 1
<1>1. /\ run \in [Apply -> RunRecord] /\ applyRuns \in [Apply -> [status : Status, serial : Nat]]
      /\ operator \in [Apply -> {"none", "aborted", "released"}] /\ stray \subseteq Apply
  BY DEF ApplyInv, RunShape, AuditTypes
<1> DEFINE RowsOK == \A a \in Apply : applyRuns'[a].status = "committed" =>
                       \/ applyRuns'[a] = applyRuns[a]
                       \/ /\ run[a].pc = "closing" /\ run[a].outcome = "ok"
                          /\ applyRuns'[a].serial = run[a].fresh + 1
<1>2. ASSUME NEW b \in Apply, NoteStray(b) PROVE stray' \subseteq Apply
  BY <1>1, <1>2 DEF NoteStray
<1>3. ASSUME NEW b \in Apply, BeginApplyRun(b) \/ AbortApplyRun(b) PROVE AuditTypes' /\ RowsOK
  <2>1. PICK st \in {"running", "aborted"} : applyRuns' = [applyRuns EXCEPT ![b].status = st]
    BY <1>3 DEF BeginApplyRun, AbortApplyRun
  <2>2. applyRuns' \in [Apply -> [status : Status, serial : Nat]] /\ RowsOK
    BY <1>1, <2>1 DEF Status
  <2>3. operator' \in [Apply -> {"none", "aborted", "released"}] /\ stray' \subseteq Apply
    BY <1>1, <1>3 DEF BeginApplyRun, AbortApplyRun
  <2> QED BY <2>2, <2>3 DEF AuditTypes
<1>4. ASSUME NEW b \in Apply, Finalize(b) PROVE AuditTypes' /\ RowsOK
  <2>1. UNCHANGED <<operator, stray>> /\ run[b].pc = "closing"
    BY <1>4 DEF Finalize
  <2>2. CASE applyRuns' = applyRuns
    BY <1>1, <2>1, <2>2 DEF AuditTypes
  <2>3. CASE applyRuns' # applyRuns
    <3>1. PICK st, n : /\ st = FinalStatus(b)
                       /\ n = IF run[b].outcome = "ok" THEN run[b].fresh + 1 ELSE 0
                       /\ applyRuns' = [applyRuns EXCEPT ![b] = [status |-> st, serial |-> n]]
      BY <1>4, <2>3 DEF Finalize
    <3>2. st \in Status /\ (st = "committed" => run[b].outcome = "ok") /\ n \in Nat
      BY <1>1, <3>1 DEF FinalStatus, RunRecord, Outcome, Status
    <3>3. applyRuns' \in [Apply -> [status : Status, serial : Nat]]
          /\ applyRuns'[b] = [status |-> st, serial |-> n]
          /\ \A o \in Apply \ {b} : applyRuns'[o] = applyRuns[o]
      BY <1>1, <3>1, <3>2
    <3>4. RowsOK
      BY <2>1, <3>1, <3>2, <3>3
    <3> QED BY <1>1, <2>1, <3>3, <3>4 DEF AuditTypes
  <2> QED BY <2>2, <2>3
<1>5. ASSUME NEW b \in Apply, AbortRelease(b) PROVE AuditTypes' /\ RowsOK
  BY <1>1, <1>5 DEF AbortRelease, AuditTypes
<1>6. ASSUME UNCHANGED <<applyRuns, operator>>, stray' \subseteq Apply PROVE AuditTypes' /\ RowsOK
  BY <1>1, <1>6 DEF AuditTypes
<1>7. ASSUME NEW b \in Apply, \/ Plan(b) \/ Materialise(b) \/ Acquire(b) \/ StalenessGuard(b)
                              \/ TerraformDone(b) \/ CheckAbort(b) \/ ReadTrunk(b) \/ Commit(b)
                              \/ CommitConflict(b) \/ CommitReplyLost(b) \/ Release(b)
                              \/ GiveUpWaiting(b) \/ Heartbeat(b) \/ Crash(b)
      PROVE  UNCHANGED <<applyRuns, operator>> /\ stray' \subseteq Apply
  BY <1>1, <1>2, <1>7
     DEF Plan, Materialise, Acquire, StalenessGuard, TerraformDone, CheckAbort, ReadTrunk, Commit,
         CommitConflict, CommitReplyLost, Release, GiveUpWaiting, Heartbeat, Crash, orchVars
<1>8. ASSUME Clock \/ UNCHANGED applyVars PROVE AuditTypes' /\ RowsOK
  BY <1>1, <1>6, <1>8 DEF Clock, applyVars, orchVars
<1>9. ASSUME NEW b \in Apply, Advance(b) \/ GiveUpWaiting(b) \/ Heartbeat(b) \/ Crash(b)
      PROVE  \/ BeginApplyRun(b) \/ Finalize(b)
             \/ UNCHANGED <<applyRuns, operator>> /\ stray' \subseteq Apply
  BY <1>7, <1>9 DEF Advance
<1>10. \/ Clock \/ UNCHANGED applyVars
       \/ \E b \in Apply : \/ BeginApplyRun(b) \/ AbortApplyRun(b) \/ Finalize(b) \/ AbortRelease(b)
                           \/ UNCHANGED <<applyRuns, operator>> /\ stray' \subseteq Apply
  BY <1>9 DEF ApplyNext
<1> HIDE DEF RowsOK
<1>11. AuditTypes' /\ RowsOK
  BY <1>3, <1>4, <1>5, <1>6, <1>8, <1>10
<1> QED BY <1>11 DEF RowsOK

(* A run's attempts are paid for by other runs' commits.                   *)
LEMMA TriesStep ==
  ASSUME ApplyInv, WholeGroups, AuditInv, [ApplyNext]_applyVars, NEW a \in Apply
  PROVE  run'[a].tries <= Cardinality(Others(a, Seen(a)))'
<1>1. /\ run \in [Apply -> RunRecord] /\ run' \in [Apply -> RunRecord] /\ MaxRetries \in Nat
      /\ run[a].tries <= Cardinality(Others(a, Seen(a)))
  BY ApplyInvStep, ApplyAssumption DEF ApplyInv, RunShape, AuditInv, AuditOK
<1>2. /\ current \in Int /\ current' \in Int
      /\ run[a].pc = "committing" => run[a].fresh <= current
      /\ run'[a].pc = "committing" => run'[a].fresh \in DOMAIN versions'
  BY ApplyInvStep DEF ApplyInv, StoreInv, StoreTypeOK, HistoryGapFree, NoVersion, SerialsStored, RecordStored
<1>3. current <= current'
  <2>1. CASE UNCHANGED <<versions, current, stray>>
    BY <1>2, <2>1
  <2>2. ASSUME NEW b \in Apply, Materialise(b) PROVE current <= current'
    BY <2>2 DEF Materialise, EnsureCurrentStateInfo, CommitDoc, InsertVersion, NoVersion
  <2>3. ASSUME NEW b \in Apply, Commits(b) PROVE current <= current'
    <3>1. current \in Nat /\ current' = current + 1
      BY <2>3, CommitEffect DEF Commits
    <3> QED BY <3>1
  <2> QED BY <2>1, <2>2, <2>3, StoreSteps
<1>4. Seen(a) \in Int /\ Seen(a) <= current
  BY <1>1, <1>2 DEF Seen, RunRecord
<1>5. \A s \in Int : s = Seen(a) =>
        /\ Cardinality(Others(a, s)) \in Nat /\ run[a].tries <= Cardinality(Others(a, s))
  BY <1>1, OthersFinite
<1>6. \A t \in Int : Cardinality(Others(a, t)') \in Nat
  BY ApplyAssumption, FS_Subset, FS_CardinalityType DEF Others
<1>7. ASSUME run'[a].tries = run[a].tries, Seen(a) <= Seen(a)'
      PROVE  run'[a].tries <= Cardinality(Others(a, Seen(a)))'
  <2>1. Seen(a)' \in Int
    BY <1>1, <1>2 DEF Seen, RunRecord
  <2>2. PICK s \in Int, t \in Int : s = Seen(a) /\ t = Seen(a)'
    BY <1>4, <2>1
  <2>3. Cardinality(Others(a, s)) <= Cardinality(Others(a, t)')
    BY <1>7, <2>2, OthersGrow
  <2>4. Cardinality(Others(a, Seen(a)))' = Cardinality(Others(a, t)')
    BY <2>2 DEF Others
  <2> QED BY <1>1, <1>5, <1>6, <1>7, <2>2, <2>3, <2>4 DEF RunRecord
<1>8. ASSUME run'[a].pc # "committing" PROVE Seen(a) <= Seen(a)' /\ Seen(a)' = current'
  BY <1>2, <1>3, <1>4, <1>8 DEF Seen
<1>9. CASE Stays(a)
  <2>1. Seen(a) <= Seen(a)'
    BY <1>1, <1>2, <1>3, <1>9 DEF Seen, Stays, RunRecord
  <2> QED BY <1>7, <1>9, <2>1 DEF Stays
<1>10. CASE Fails(a) \/ Proceeds(a) \/ Settles(a) \/ Commits(a)
  BY <1>7, <1>8, <1>10 DEF Fails, Proceeds, Settles, Commits
<1>11. CASE Reads(a)
  <2>1. Seen(a) <= Seen(a)'
    BY <1>2, <1>11 DEF Seen, Reads
  <2> QED BY <1>7, <1>11, <2>1 DEF Reads
<1>12. CASE Ends(a)
  <2>1. PICK t \in Int : t = Seen(a)'
    BY <1>2, <1>8, <1>12 DEF Ends
  <2>2. Cardinality(Others(a, Seen(a)))' = Cardinality(Others(a, t)')
    BY <2>1 DEF Others
  <2> QED BY <1>6, <1>12, <2>1, <2>2 DEF Ends
<1>13. CASE CommitConflict(a)
  <2>1. run'[a].tries = run[a].tries + 1 /\ run'[a].pc \in {"closing", "merging"} /\ UNCHANGED storeVars
    BY <1>1, <1>13 DEF CommitConflict, RunRecord
  <2>2. Seen(a) = run[a].fresh /\ Seen(a)' = current
    BY <1>13, <2>1 DEF CommitConflict, Seen, storeVars
  <2>3. Cardinality(Others(a, run[a].fresh)) + 1 <= Cardinality(Others(a, current))
    BY <1>13, LostToAnother
  <2>4. PICK t \in Int : t = current
    BY <1>2
  <2>5. Cardinality(Others(a, Seen(a)))' = Cardinality(Others(a, t)')
    BY <2>2, <2>4 DEF Others
  <2>6. Cardinality(Others(a, t)) <= Cardinality(Others(a, t)')
    BY OthersGrow
  <2>7. Cardinality(Others(a, t)) \in Nat /\ Cardinality(Others(a, run[a].fresh)) \in Nat
        /\ run[a].tries <= Cardinality(Others(a, run[a].fresh))
    BY <1>1, <2>2, OthersFinite
  <2> QED BY <1>1, <1>6, <2>1, <2>3, <2>4, <2>5, <2>6, <2>7 DEF RunRecord
<1> QED BY <1>9, <1>10, <1>11, <1>12, <1>13, RunSteps

(* What a run wrote and what its row says of it.                           *)
LEMMA TrailStep ==
  ASSUME ApplyInv, WholeGroups, AuditInv, [ApplyNext]_applyVars, NEW a \in Apply
  PROVE  /\ run'[a].pc \in Uncommitted => Unwritten(a)' /\ run'[a].tries < MaxRetries
         /\ run'[a].tries <= MaxRetries
         /\ run'[a].pc = "closing" /\ run'[a].outcome = "ok" => Authored(a)' = {run'[a].fresh + 1}
         /\ \A m, n \in Authored(a)' : m = n
         /\ applyRuns'[a].status = "committed" => Authored(a)' = {applyRuns'[a].serial}
<1>1. /\ run[a] \in RunRecord /\ run'[a] \in RunRecord /\ MaxRetries \in Nat \ {0}
      /\ AuditTypes /\ AuditOK(a)
  BY ApplyInvStep, ApplyAssumption DEF ApplyInv, RunShape, AuditInv
<1>2. CASE Commits(a)
  <2>1. /\ Unwritten(a) /\ run[a].tries < MaxRetries
        /\ run'[a].pc = "closing" /\ run'[a].fresh = run[a].fresh /\ run'[a].tries = run[a].tries
        /\ applyRuns' = applyRuns
    BY <1>1, <1>2 DEF Commits, AuditOK, Uncommitted
  <2>2. run[a].fresh = current
    BY <1>2, CommitEffect DEF Commits
  <2>3. Authored(a)' = {run'[a].fresh + 1}
    BY <1>2, <2>1, <2>2, AuthoredAtCommit
  <2>4. Authored(a) = {}
    BY <2>1, ApplyAssumption DEF Unwritten, Authored
  <2>5. applyRuns'[a].status # "committed"
    BY <1>1, <2>1, <2>4 DEF AuditOK
  <2> QED BY <1>1, <2>1, <2>3, <2>5 DEF RunRecord, Uncommitted
<1>3. CASE ~ Commits(a)
  <2>1. Authored(a)' = Authored(a) /\ (Unwritten(a) => Unwritten(a)')
    BY <1>3, AuthoredStep
  <2>2. applyRuns'[a].status = "committed" => Authored(a)' = {applyRuns'[a].serial}
    BY <1>1, <2>1, RowSteps DEF AuditOK
  <2>3. \A m, n \in Authored(a)' : m = n
    BY <1>1, <2>1 DEF AuditOK
  <2>4. \/ Stays(a) \/ Ends(a) \/ Fails(a) \/ Proceeds(a) \/ Reads(a) \/ Settles(a)
        \/ CommitConflict(a)
    BY <1>3, RunSteps
  <2> DEFINE Goal == /\ run'[a].pc \in Uncommitted => Unwritten(a)' /\ run'[a].tries < MaxRetries
                     /\ run'[a].tries <= MaxRetries
                     /\ run'[a].pc = "closing" /\ run'[a].outcome = "ok"
                          => Authored(a)' = {run'[a].fresh + 1}
  <2>5. ASSUME Stays(a) PROVE Goal
    BY <1>1, <2>1, <2>5 DEF Stays, AuditOK
  <2>6. ASSUME Ends(a) \/ Settles(a) PROVE Goal
    BY <1>1, <2>6 DEF Ends, Settles, Uncommitted, AuditOK
  <2>7. ASSUME Fails(a) \/ Proceeds(a) \/ Reads(a) PROVE Goal
    BY <1>1, <2>1, <2>7 DEF Fails, Proceeds, Reads, Uncommitted, AuditOK, RunRecord
  <2>8. ASSUME CommitConflict(a) PROVE Goal
    <3>1. /\ run[a].pc = "committing" /\ run'[a].tries = run[a].tries + 1
          /\ run'[a].pc = IF run[a].tries + 1 = MaxRetries THEN "closing" ELSE "merging"
          /\ run[a].tries + 1 = MaxRetries => run'[a].outcome = "error"
      BY <1>1, <2>8 DEF CommitConflict, ApplyInv, RunShape, RunRecord
    <3>2. Unwritten(a) /\ run[a].tries < MaxRetries /\ run[a].tries \in Nat
      BY <1>1, <3>1 DEF AuditOK, Uncommitted, RunRecord
    <3> QED BY <1>1, <2>1, <3>1, <3>2 DEF Uncommitted
  <2> HIDE DEF Goal
  <2>9. Goal
    BY <2>4, <2>5, <2>6, <2>7, <2>8
  <2> QED BY <2>2, <2>3, <2>9 DEF Goal
<1> QED BY <1>2, <1>3

LEMMA AuditStep ==
  ASSUME ApplyInv, WholeGroups, AuditInv, [ApplyNext]_applyVars
  PROVE  AuditInv'
<1>1. AuditTypes' /\ VersionsAuthored'
  BY RowSteps, VersionsAuthoredStep DEF AuditInv
<1>2. ASSUME NEW a \in Apply PROVE AuditOK(a)'
  BY TrailStep, TriesStep DEF AuditOK
<1> QED BY <1>1, <1>2 DEF AuditInv

LEMMA AuditInit == ApplyInit => AuditInv
<1> SUFFICES ASSUME ApplyInit PROVE AuditInv
  OBVIOUS
<1>1. \A a \in Apply : run[a] = NewRun /\ applyRuns[a] = [status |-> "none", serial |-> 0]
  BY DEF ApplyInit
<1>2. AuditTypes
  BY DEF ApplyInit, AuditTypes, Status
<1>3. DOMAIN versions = {} \/ (DOMAIN versions = {1} /\ versions[1] = ImportedDoc)
  BY DEF ApplyInit, StoreInit
<1>4. \A x \in Addr : ImportedDoc.res[x].attr = Imported
  BY DEF ImportedDoc, EmptyDoc
<1>5. VersionsAuthored
  BY <1>3 DEF VersionsAuthored
<1>6. ASSUME NEW a \in Apply PROVE AuditOK(a)
  <2>1. Unwritten(a)
    BY <1>3, <1>4, ApplyAssumption DEF Unwritten
  <2>2. Authored(a) = {}
    BY <2>1, ApplyAssumption DEF Unwritten, Authored
  <2>3. run[a].tries <= Cardinality(Others(a, Seen(a)))
    <3>1. Cardinality(Others(a, Seen(a))) \in Nat
      BY OthersFinite
    <3> QED BY <1>1, <3>1 DEF NewRun
  <2> QED BY <1>1, <2>1, <2>2, <2>3, ApplyAssumption DEF AuditOK, NewRun
<1> QED BY <1>2, <1>5, <1>6 DEF AuditInv

LEMMA AuditIsTruthful ==
  ASSUME ApplyInv, AuditInv, ReservationsTypeOK
  PROVE  AuditTruthful
<1>1. ASSUME NEW a \in Apply
      PROVE  /\ run[a].tries \in 0..MaxRetries
             /\ Cardinality(Authored(a)) <= 1
             /\ applyRuns[a].status = "committed" => Authored(a) = {applyRuns[a].serial}
             /\ run[a].tries <= Cardinality({b \in Apply \ {a} : Authored(b) # {}})
  <2>1. AuditOK(a) /\ run[a] \in RunRecord /\ MaxRetries \in Nat
    BY ApplyAssumption DEF AuditInv, ApplyInv, RunShape
  <2>2. Cardinality(Authored(a)) <= 1
    <3>1. CASE Authored(a) = {}
      BY <3>1, FS_EmptySet
    <3>2. CASE Authored(a) # {}
      <4>1. PICK n : n \in Authored(a)
        BY <3>2
      <4>2. Authored(a) = {n}
        BY <2>1, <4>1 DEF AuditOK
      <4>3. Cardinality({n}) = 1
        BY FS_Singleton
      <4> QED BY <4>2, <4>3
    <3> QED BY <3>1, <3>2
  <2> DEFINE committers == {b \in Apply \ {a} : Authored(b) # {}}
  <2>3. IsFiniteSet(committers) /\ Cardinality(committers) \in Nat
    BY ApplyAssumption, FS_Subset, FS_CardinalityType
  <2>4. Others(a, Seen(a)) \subseteq committers
    BY DEF Others
  <2>5. Cardinality(Others(a, Seen(a))) <= Cardinality(committers)
    BY <2>3, <2>4, FS_Subset
  <2>6. Cardinality(Others(a, Seen(a))) \in Nat
    BY OthersFinite
  <2> QED BY <2>1, <2>2, <2>3, <2>5, <2>6 DEF AuditOK, RunRecord
<1>2. run \in [Apply -> [pc : Phase, src : Nat, base : Nat, fresh : Nat,
                         tries : 0..MaxRetries, outcome : Outcome]]
  BY <1>1 DEF ApplyInv, RunShape, RunRecord
<1>3. ApplyTypeOK
  BY <1>2 DEF ApplyTypeOK, ApplyInv, StoreInv, AuditInv, AuditTypes
<1> QED BY <1>1, <1>3 DEF AuditTruthful

(* For any number of runs that write whole groups: a run writes at most    *)
(* one version, a row marked committed names it, and a run loses no more   *)
(* commit attempts than there are other runs that commit.                  *)
THEOREM AuditsTruthful ==
  ASSUME WholeGroups
  PROVE  ApplySafetySpec => []AuditTruthful
<1>1. ApplyInv /\ AuditInv /\ [ApplyNext]_applyVars => AuditInv'
  BY AuditStep
<1>2. ApplyInv /\ [ApplyNext]_applyVars => ApplyInv'
  BY ApplyInvStep
<1>3. ApplyInv /\ AuditInv /\ ReservationsTypeOK => AuditTruthful
  BY AuditIsTruthful
<1>4. ApplySafetySpec => []ReservationsTypeOK
  BY ApplyUsesReservations, ReservationsTypeCorrect, PTL DEF UsesReservations
<1> QED BY <1>1, <1>2, <1>3, <1>4, ApplyInvInit, AuditInit, PTL DEF ApplySafetySpec

-----------------------------------------------------------------------------
(* The run of ApplyClient                                                  *)

(* Shapes.                                                                 *)
Modes  == {"none", "create", "update", "delete", "replace"}
Actish == [Addr -> Modes]

Places ==
  {"start", "pinned", "planning", "rows", "planned", "quota", "status", "begin", "reserve", "guard",
   "terraform", "merging", "committing", "closing", "backend", "locked", "posting", "unlocking", "done"}
Outcomes == {"none", "refused", "quota", "conflict", "intent", "terraform", "retries", "committed"}

ClientRecord ==
  [pc : Places, cmd : Invocations, want : Configs, pin : Nat, from : Nat,
   meta : {"none", "slice", "fallback"}, acts : Actish, write : SUBSET Addr, read : SUBSET Addr,
   lane : {"none", "native", "snapshot", "backend"}, locked : Nat, base : Nat, fresh : Nat,
   tries : Nat, done : Actish, how : Outcomes]

(* Where the client stands.                                                *)
Orchestrated == {"status", "begin", "reserve", "guard", "terraform", "merging", "committing", "closing"}
OnBackend    == {"backend", "locked", "posting", "unlocking"}
HasSpec      == (c.pc \in {"quota"} \cup Orchestrated \cup OnBackend) \/ Ran
HasPlan      == c.pc = "planned" \/ HasSpec

(* The serials a client remembers are versions, none newer than the trunk. *)
SerialsKnown ==
  /\ current \in Nat \ {0}
  /\ c.pin <= current /\ c.from <= current /\ c.base <= current /\ c.fresh <= current

(* What was shown is what a plan on the version planned on gives.          *)
Shown(a) ==
  LET due == IF a \in Planned(Selected) THEN Act(versions[c.from].res[a].attr, c.want[a]) ELSE "none"
  IN  \/ c.acts[a] = due
      \/ a \in Planned(Selected) /\ due = "none" /\ c.acts[a] = "update"
PlanShown == c.from >= 1 /\ \A a \in Addr : Shown(a)
PlanInv   == HasPlan => PlanShown

(* The spec is in scope, and was acknowledged.                             *)
SpecFits ==
  /\ c.write = ScopedWrites /\ c.write \subseteq c.read /\ OutOfScope = {}
  /\ ~ c.cmd.spec => ~ Gated
SpecInv == HasSpec => SpecFits

(* The lane fits the place.                                                *)
LaneInv ==
  /\ HasSpec => c.lane # "none"
  /\ c.pc \in Orchestrated => c.lane \in {"native", "snapshot"}
  /\ c.pc \in OnBackend => c.lane = "backend"

(* While the trunk is the version planned on, the plan is within the limit.*)
Unpreviewed == c.lane = "backend" /\ ~ c.cmd.spec /\ c.cmd.mode # "full"
WithinQuota ==
  (~ Unpreviewed /\ current = c.from) => ~ Exceeds(Count(versions[c.from]) + PlannedDelta)
QuotaInv == (c.pc \in Orchestrated \cup OnBackend \/ Ran) => WithinQuota

(* Terraform ran on a version no older than the one planned on, and whose  *)
(* read set is that of the pinned one.                                     *)
ReadSetIntact == c.pin > 0 => \A a \in GroupClosure(c.read) : versions[c.pin].res[a] = versions[c.base].res[a]
BaseInv ==
  /\ (c.pc \in {"terraform", "merging", "committing", "posting"} \/ Ran) =>
       c.base >= 1 /\ c.from <= c.base
  /\ (c.pc \in {"terraform", "merging", "committing"} \/ (Ran /\ c.lane # "backend")) => ReadSetIntact

(* It carried out what its own plan on that version says, all of it where  *)
(* a commit is tried.                                                      *)
DoneInv ==
  /\ c.pc \in {"merging", "committing"} => c.done = Replan /\ Groups(Writes(c.done)) = Groups(c.write)
  /\ Ran =>
       /\ c.pc \in {"merging", "committing", "closing", "posting", "unlocking", "done"}
       /\ \A a \in Addr : c.done[a] \in {"none", Replan[a]}
       /\ c.lane # "backend" => Groups(Writes(Replan)) = Groups(c.write)

(* Each try was lost to a version of its own.                              *)
TriesInv ==
  /\ c.pc \notin {"merging", "committing", "closing", "done"} => c.tries = 0
  /\ c.pc = "merging" => current >= c.base + c.tries
  /\ c.pc = "committing" => c.fresh >= c.base + c.tries

(* The client holds the locks its place relies on; under the coarse lock   *)
(* no Terraform session has one.                                           *)
LockInv ==
  /\ c.pc \in {"locked", "posting"} => locks[Me] = [kind |-> "http", source |-> c.locked]
  /\ NativeAlone
  /\ c.lane = "native" /\ c.pc \in {"reserve", "guard", "terraform", "merging", "committing", "closing"}
       => locks[Me].kind = "engine"
  /\ Other \in Held => locks[Other].kind = "http" /\ locks[Other].source \in DOMAIN versions

(* The reason is known when the run ends.                                  *)
Explained ==
  CASE c.how = "intent"   -> \E a \in Indexed : c.done[a] = "delete"
    [] c.how = "quota"    -> Unpreviewed \/ (c.lane = "backend" /\ c.done # c.acts) \/ current > c.from
    [] c.how = "conflict" -> current > c.locked
    [] c.how = "retries"  -> current >= c.base + MaxCommitRetries
    [] OTHER              -> c.how \in {"terraform", "committed"}
EndInv == (c.pc \in {"closing", "unlocking", "done"} /\ Ran) => Explained

(* The inductive invariant of a run.  AsConfirmed needs PlanInv, SpecInv,  *)
(* BaseInv and DoneInv; RecordedOrExplained needs QuotaInv and TriesInv.   *)
ClientInv ==
  /\ StoreInv /\ BaselineStored /\ c \in ClientRecord /\ SerialsKnown
  /\ PlanInv /\ SpecInv /\ LaneInv /\ QuotaInv /\ BaseInv /\ DoneInv /\ TriesInv /\ LockInv /\ EndInv

-----------------------------------------------------------------------------
(* Documents and versions                                                  *)

(* A configured attribute, or its absence, is a cell.                      *)
LEMMA WantedCell ==
  ASSUME NEW k \in Attr \cup {NoAttr}
  PROVE  [attr |-> k, meta |-> NoMeta] \in Cell
BY DocAssumption DEF Cell, Absent

(* What Terraform leaves behind is a document: the changed instances as    *)
(* configured, the others as they were.                                    *)
LEMMA CarriedIsDoc ==
  ASSUME NEW doc \in Doc, NEW acts, c.want \in Configs
  PROVE  /\ Carried(doc, acts) \in Doc
         /\ \A a \in Addr : Carried(doc, acts).res[a] =
              IF acts[a] = "none" THEN doc.res[a] ELSE [attr |-> c.want[a], meta |-> NoMeta]
<1>1. \A a \in Addr : [attr |-> c.want[a], meta |-> NoMeta] \in Cell
  BY ClientAssumption, WantedCell
<1>2. PICK f : f = [a \in Addr |-> IF acts[a] = "none" THEN doc.res[a]
                                   ELSE [attr |-> c.want[a], meta |-> NoMeta]]
  OBVIOUS
<1>3. f \in [Addr -> Cell] BY <1>1, <1>2 DEF Doc
<1>4. Carried(doc, acts) = [doc EXCEPT !.res = f] BY <1>2 DEF Carried, Doc
<1> QED BY <1>2, <1>3, <1>4 DEF Doc

(* Another writer's edit of a document is a document.                      *)
LEMMA EditedIsDoc ==
  ASSUME NEW doc \in Doc, NEW e \in Edits
  PROVE  Edited(doc, e) \in Doc
<1>1. e.addr \in Addr /\ [attr |-> e.attr, meta |-> NoMeta] \in Cell
  BY ClientAssumption, WantedCell
<1>2. PICK k \in Cell : k = [attr |-> e.attr, meta |-> NoMeta] BY <1>1
<1>3. Edited(doc, e) = [doc EXCEPT !.res = [doc.res EXCEPT ![e.addr] = k]]
  BY <1>2 DEF Edited
<1>4. [doc.res EXCEPT ![e.addr] = k] \in [Addr -> Cell] BY DEF Doc
<1> QED BY <1>3, <1>4 DEF Doc

(* Every serial up to the trunk's is a stored version.                     *)
LEMMA SerialsAreVersions ==
  ASSUME StoreInv, SerialsKnown
  PROVE  \A s \in 1..current : s \in DOMAIN versions /\ versions[s] \in Doc
BY DEF StoreInv, StoreTypeOK, HistoryGapFree, SerialsKnown, NoVersion

(* No version is rewritten, and the trunk only moves on.                   *)
Grown ==
  /\ current' \in Nat /\ current <= current'
  /\ current' # current => current' = current + 1
  /\ \A s \in DOMAIN versions : s \in DOMAIN versions' /\ versions'[s] = versions[s]
  /\ \A s \in 1..current : s \in DOMAIN versions /\ versions'[s] = versions[s]

(* Every step of the store only adds to the history.                       *)
LEMMA StoreStepGrows ==
  ASSUME StoreInv, BaselineStored, SerialsKnown, [StoreNext]_storeVars
  PROVE  Grown
<1>1. \A s \in 1..current : s \in DOMAIN versions BY SerialsAreVersions
<1>2. CASE UNCHANGED <<versions, current>> BY <1>1, <1>2 DEF Grown, SerialsKnown
<1>3. CASE WriteNext
  <2>1. PICK n \in Nat, doc \in Doc, sel \in SUBSET Addr :
               Fresh(n) /\ (CommitDoc(n, doc) \/ CommitSelected(n, doc, sel))
    BY <1>3, WriteIsStoreWrite DEF StoreWrite
  <2>2. n = current + 1 BY <2>1 DEF Fresh, SerialsKnown, NoVersion
  <2>3. PICK d : InsertVersion(n, d) BY <2>1 DEF CommitDoc, CommitSelected
  <2> QED BY <1>1, <2>2, <2>3 DEF InsertVersion, Grown, SerialsKnown
<1>4. CASE LockNext BY <1>2, <1>4, LockStep DEF StoreInv
<1> QED BY <1>2, <1>3, <1>4 DEF StoreNext, storeVars

(* A full commit stores its document at its serial.                        *)
LEMMA CommittedDoc ==
  ASSUME StoreInv, NEW n, NEW doc, CommitDoc(n, doc) PROVE  current' = n /\ versions'[n] = doc
BY DEF CommitDoc, InsertVersion

(* Every step of the client and of the others is a step of the store.      *)
LEMMA ClientUsesStore ==
  ASSUME ClientInv, [ClientNext]_clientVars
  PROVE  [StoreNext]_storeVars
<1>1. Me \in LockId /\ Other \in LockId BY ClientAssumption
<1>2. c.want \in Configs /\ c.done \in Actish BY DEF ClientInv, ClientRecord
<1>3. \A s \in 1..current : s \in DOMAIN versions /\ versions[s] \in Doc
  BY SerialsAreVersions DEF ClientInv
<1>4. current \in 1..current BY DEF ClientInv, SerialsKnown
<1>5. c.pc \in {"posting", "merging", "committing"} => c.base \in 1..current
  BY DEF ClientInv, SerialsKnown, BaseInv, ClientRecord
<1>6. CASE BackendPost
  <2>1. versions[c.base] \in Doc BY <1>3, <1>5, <1>6 DEF BackendPost, At
  <2>2. Carried(versions[c.base], c.done) \in Doc BY <1>2, <2>1, CarriedIsDoc
  <2> QED BY <1>1, <1>6, <2>2 DEF BackendPost, Go, StoreNext, WriteNext
<1>7. ASSUME At("committing") PROVE AppliedState \in Doc
  <2>1. versions[c.base] \in Doc BY <1>3, <1>5, <1>7 DEF At
  <2> QED BY <1>2, <2>1, CarriedIsDoc DEF AppliedState
<1>8. CASE CommitNative
  <2>1. DeltaAddresses \in SUBSET Addr BY DEF DeltaAddresses, Writes
  <2>2. {} \in SUBSET OutName OBVIOUS
  <2> QED BY <1>7, <1>8, <2>1, <2>2 DEF CommitNative, CommitOf, Go, StoreNext, WriteNext
<1>9. CASE CommitSnapshot
  <2>1. c.fresh \in 1..current /\ c.base \in 1..current
    BY <1>5, <1>9 DEF CommitSnapshot, At, ClientInv, SerialsKnown, TriesInv, ClientRecord
  <2>2. versions[c.fresh] \in Doc /\ AppliedState \in Doc BY <1>3, <1>7, <1>9, <2>1 DEF CommitSnapshot
  <2>3. Merged \in Doc BY <2>2 DEF Merged, BuildMergedState, Doc
  <2>4. c.fresh + 1 \in CallerSerial BY <1>3, <2>1 DEF CallerSerial
  <2> QED BY <1>9, <2>3, <2>4 DEF CommitSnapshot, CommitOf, Go, StoreNext, WriteNext
<1>10. CASE TerraformPosts
  <2>1. PICK e \in Edits : LET doc == Edited(versions[locks[Other].source], e)
                           IN  Other \in Held /\ WriteState(Other, doc)
    BY <1>10 DEF TerraformPosts
  <2>2. versions[locks[Other].source] \in Doc
    BY <2>1 DEF ClientInv, LockInv, StoreInv, StoreTypeOK
  <2>3. Edited(versions[locks[Other].source], e) \in Doc BY <2>2, EditedIsDoc
  <2> QED BY <1>1, <2>1, <2>3 DEF StoreNext, WriteNext
<1>11. CASE OtherApply
  <2>1. PICK e \in Edits : WriteStateForApply(current + 1, Edited(versions[current], e))
    BY <1>11 DEF OtherApply
  <2>2. versions[current] \in Doc /\ current \in DOMAIN versions BY <1>3, <1>4
  <2>3. Edited(versions[current], e) \in Doc BY <2>2, EditedIsDoc
  <2>4. current + 1 \in CallerSerial BY <2>2 DEF CallerSerial
  <2> QED BY <2>1, <2>3, <2>4 DEF StoreNext, WriteNext
<1>12. CASE PlanLock \/ PlanFull \/ BackendLock \/ BackendUnlock \/ CoarseLock \/ Close
            \/ TerraformLocks \/ TerraformUnlocks
  BY <1>1, <1>12 DEF PlanLock, PlanFull, BackendLock, BackendUnlock, CoarseLock, Close,
                     TerraformLocks, TerraformUnlocks, Go, StoreNext, LockNext
<1>13. CASE PinTrunk \/ PlanFetched \/ ResolveSlice \/ PlanSliced \/ FallBack \/ PlanEnds
            \/ BuildSpec \/ QuotaPreflight \/ CheckCoexistence
  BY <1>13 DEF PinTrunk, PlanFetched, ResolveSlice, PlanSliced, FallBack, PlanEnds,
               BuildSpec, QuotaPreflight, CheckCoexistence, Go
<1>14. CASE BackendApply \/ Reserve \/ Guard \/ RunTerraform \/ ReadFresh
  BY <1>14 DEF BackendApply, Reserve, Guard, RunTerraform, ReadFresh, Go
<1>15. CASE UNCHANGED clientVars BY <1>15 DEF clientVars
<1> QED BY <1>6, <1>8, <1>9, <1>10, <1>11, <1>12, <1>13, <1>14, <1>15 DEF ClientNext, Client

-----------------------------------------------------------------------------
(* Counting instances                                                      *)

Standing(doc)  == {a \in Addr : doc.res[a].attr # NoAttr}
Created(acts) == {a \in Addr : acts[a] = "create"}
Deleted(acts) == {a \in Addr : acts[a] = "delete"}

(* Sets of instances are finite.                                           *)
LEMMA FiniteParts ==
  ASSUME NEW S \in SUBSET Addr
  PROVE  IsFiniteSet(S) /\ Cardinality(S) \in Nat
<1>1. IsFiniteSet(Addr) BY ClientAssumption
<1>2. IsFiniteSet(S) BY <1>1, FS_Subset
<1> QED BY <1>2, FS_CardinalityType

(* What an action says of the attribute found and the one wanted.          *)
LEMMA ActMeans ==
  ASSUME NEW have, NEW due
  PROVE  /\ Act(have, due) \in Modes
         /\ Act(have, due) = "none" <=> have = due
         /\ Act(have, due) = "create" <=> have = NoAttr /\ due # NoAttr
         /\ Act(have, due) = "delete" <=> have # NoAttr /\ due = NoAttr
<1>1. CASE have = due BY <1>1 DEF Act, Modes
<1>2. CASE have # due /\ have = NoAttr
  <2>1. due # NoAttr BY <1>2
  <2>2. Act(have, due) = "create" BY <1>2, <2>1 DEF Act
  <2> QED BY <1>2, <2>1, <2>2 DEF Modes
<1>3. CASE have # due /\ have # NoAttr /\ due = NoAttr BY <1>3 DEF Act, Modes
<1>4. CASE have # due /\ have # NoAttr /\ due # NoAttr
  <2>1. Act(have, due) = IF Replaces(have) THEN "replace" ELSE "update" BY <1>4 DEF Act
  <2>2. Act(have, due) \in {"replace", "update"} BY <2>1
  <2> QED BY <1>4, <2>2 DEF Modes
<1> QED BY <1>1, <1>2, <1>3, <1>4

(* Terraform's changes add what they create and subtract what they delete. *)
LEMMA CarriedCounts ==
  ASSUME NEW doc \in Doc, NEW acts \in Actish, c.want \in Configs,
         \A a \in Addr : acts[a] \in {"none", Act(doc.res[a].attr, c.want[a])}
  PROVE  Count(Carried(doc, acts)) = Count(doc) + Cardinality(Created(acts)) - Cardinality(Deleted(acts))
<1> DEFINE P == Standing(doc)
           C == Created(acts)
           D == Deleted(acts)
           Q == Standing(Carried(doc, acts))
<1>1. P \in SUBSET Addr /\ C \in SUBSET Addr /\ D \in SUBSET Addr /\ P \cup C \in SUBSET Addr
  BY DEF Standing, Created, Deleted
<1>2. \A a \in Addr : Carried(doc, acts).res[a].attr =
                        IF acts[a] = "none" THEN doc.res[a].attr ELSE c.want[a]
  <2>1. \A a \in Addr : Carried(doc, acts).res[a] =
           IF acts[a] = "none" THEN doc.res[a] ELSE [attr |-> c.want[a], meta |-> NoMeta]
    BY CarriedIsDoc
  <2> SUFFICES ASSUME NEW a \in Addr
               PROVE  Carried(doc, acts).res[a].attr = IF acts[a] = "none" THEN doc.res[a].attr ELSE c.want[a]
    OBVIOUS
  <2>2. CASE acts[a] = "none" BY <2>1, <2>2
  <2>3. CASE acts[a] # "none"
    <3>1. Carried(doc, acts).res[a] = [attr |-> c.want[a], meta |-> NoMeta] BY <2>1, <2>3
    <3> QED BY <2>3, <3>1
  <2> QED BY <2>2, <2>3
<1>3. C \cap P = {} /\ D \subseteq P
  BY ActMeans DEF Created, Deleted, Standing
<1>4. Q = (P \cup C) \ D
  <2>1. ASSUME NEW a \in Addr PROVE a \in Q <=> (a \in P \cup C) /\ a \notin D
    <3>1. CASE acts[a] = "none" BY <1>2, <3>1 DEF Standing, Created, Deleted
    <3>2. CASE acts[a] # "none"
      <4>1. acts[a] = Act(doc.res[a].attr, c.want[a]) BY <3>2
      <4>2. a \in Q <=> c.want[a] # NoAttr BY <1>2, <3>2 DEF Standing
      <4>3. a \in P <=> doc.res[a].attr # NoAttr BY DEF Standing
      <4>4. a \in C <=> acts[a] = "create" BY DEF Created
      <4>5. a \in D <=> acts[a] = "delete" BY DEF Deleted
      <4>6. acts[a] = "create" <=> doc.res[a].attr = NoAttr /\ c.want[a] # NoAttr
        BY <3>2, <4>1, ActMeans
      <4>7. acts[a] = "delete" <=> doc.res[a].attr # NoAttr /\ c.want[a] = NoAttr
        BY <3>2, <4>1, ActMeans
      <4>8. ~ (doc.res[a].attr = NoAttr /\ c.want[a] = NoAttr) BY <3>2, <4>1, ActMeans
      <4> HIDE DEF P, C, D, Q
      <4> QED BY <4>2, <4>3, <4>4, <4>5, <4>6, <4>7, <4>8
    <3> QED BY <3>1, <3>2
  <2>2. Q \subseteq Addr BY DEF Standing
  <2> HIDE DEF P, C, D, Q
  <2> QED BY <2>1, <2>2, <1>1
<1> HIDE DEF P, C, D, Q
<1>5. IsFiniteSet(P) /\ IsFiniteSet(C) /\ IsFiniteSet(D) /\ IsFiniteSet(P \cup C)
      /\ Cardinality(P) \in Nat /\ Cardinality(C) \in Nat /\ Cardinality(D) \in Nat
      /\ Cardinality(P \cup C) \in Nat
  BY <1>1, FiniteParts
<1>6. Cardinality(P \cup C) = Cardinality(P) + Cardinality(C)
  <2>1. Cardinality(P \cup C) = Cardinality(P) + Cardinality(C) - Cardinality(P \cap C)
    BY <1>5, FS_Union
  <2>2. Cardinality(P \cap C) = 0
    <3>1. P \cap C = {} BY <1>3
    <3>2. Cardinality({}) = 0 BY FS_EmptySet
    <3> QED BY <3>1, <3>2
  <2> QED BY <2>1, <2>2, <1>5
<1>7. Cardinality(Q) = Cardinality(P \cup C) - Cardinality(D)
  <2>1. Cardinality((P \cup C) \ D) = Cardinality(P \cup C) - Cardinality((P \cup C) \cap D)
    BY <1>5, FS_Difference
  <2>2. (P \cup C) \cap D = D BY <1>3
  <2> QED BY <2>1, <2>2, <1>4
<1>8. Count(doc) = Cardinality(P) /\ Count(Carried(doc, acts)) = Cardinality(Q)
  BY DEF Count, P, Q, Standing
<1> QED BY <1>5, <1>6, <1>7, <1>8 DEF C, D

(* The open row of an address mirrors the document of the trunk.           *)
LEMMA RowsMirrorTrunk ==
  ASSUME StoreInv, SerialsKnown, NEW a \in Addr
  PROVE  /\ OpenAttr(a) = versions[current].res[a].attr
         /\ OpenRows(a) # {} <=> versions[current].res[a].attr # NoAttr
<1>0. current \in Nat /\ current \in DOMAIN versions /\ versions[current] \in Doc
  BY SerialsAreVersions DEF SerialsKnown
<1>1. ASSUME NEW r \in OpenRows(a) PROVE r.attr = versions[current].res[a].attr /\ r.attr # NoAttr
  <2>1. r \in rows /\ r.addr = a /\ IsOpen(r) /\ r.create <= current /\ r.attr \in Attr
    BY DEF OpenRows, StoreInv, StoreTypeOK, LifecyclesDisjoint, ResourceRow
  <2>2. Covers(r, current) BY <2>1 DEF Covers
  <2> QED BY <1>0, <2>1, <2>2, DocAssumption DEF StoreInv, RowsMatchHistory
<1>2. ASSUME versions[current].res[a].attr # NoAttr PROVE OpenRows(a) # {}
  <2>1. PICK r \in rows : r.addr = a /\ Covers(r, current)
    BY <1>0, <1>2 DEF StoreInv, RowsMatchHistory
  <2>2. IsOpen(r)
    <3>1. ~ IsOpen(r) => r.delete <= current /\ r.delete \in Nat
      BY <2>1 DEF StoreInv, LifecyclesDisjoint, StoreTypeOK, ResourceRow, IsOpen
    <3> QED BY <1>0, <2>1, <3>1 DEF Covers
  <2> QED BY <2>1, <2>2 DEF OpenRows
<1>3. CASE OpenRows(a) = {} BY <1>2, <1>3 DEF OpenAttr
<1>4. CASE OpenRows(a) # {}
  <2>1. PICK r \in OpenRows(a) : TRUE BY <1>4
  <2>2. OpenAttr(a) = r.attr BY <2>1, OpenRowUnique DEF StoreInv
  <2> QED BY <1>1, <1>4, <2>1, <2>2
<1> QED BY <1>3, <1>4

(* What PreviewStateQuota counts is what the limit is about.               *)
LEMMA OpenRowsCounted ==
  ASSUME StoreInv, SerialsKnown
  PROVE  Cardinality({r \in rows : IsOpen(r)}) = Count(versions[current])
<1> DEFINE O == {r \in rows : IsOpen(r)}
           P == Standing(versions[current])
           f == [a \in P |-> CHOOSE r \in OpenRows(a) : TRUE]
<1>1. \A a \in P : f[a] \in OpenRows(a)
  BY RowsMirrorTrunk DEF Standing
<1>2. f \in [P -> O] BY <1>1 DEF OpenRows
<1>3. \A a, b \in P : f[a] = f[b] => a = b BY <1>1 DEF OpenRows
<1>4. ASSUME NEW r \in O PROVE \E a \in P : f[a] = r
  <2>1. r.addr \in Addr /\ r \in OpenRows(r.addr)
    BY DEF OpenRows, StoreInv, StoreTypeOK, ResourceRow
  <2>2. r.addr \in P BY <2>1, RowsMirrorTrunk DEF Standing
  <2>3. f[r.addr] = r BY <2>1, <2>2, <1>1, OpenRowUnique DEF StoreInv
  <2> QED BY <2>2, <2>3
<1> HIDE DEF f
<1>5. f \in Bijection(P, O) BY <1>2, <1>3, <1>4, Fun_IsBij
<1>6. P \in SUBSET Addr BY DEF Standing
<1> HIDE DEF O, P
<1>7. IsFiniteSet(P) BY <1>6, FiniteParts
<1>8. ExistsBijection(P, O) BY <1>5 DEF ExistsBijection
<1>9. Cardinality(O) = Cardinality(P) BY <1>7, <1>8, FS_Bijection
<1> QED BY <1>9 DEF O, P, Count, Standing

-----------------------------------------------------------------------------
(* What a step that leaves the run's data alone keeps                      *)

PlanSame ==
  /\ c'.cmd = c.cmd /\ c'.want = c.want /\ c'.pin = c.pin /\ c'.from = c.from
  /\ c'.meta = c.meta /\ c'.acts = c.acts
SpecSame == PlanSame /\ c'.write = c.write /\ c'.read = c.read /\ c'.lane = c.lane
RunSame  == SpecSame /\ c'.base = c.base /\ c'.done = c.done

(* A version that was once stored stays as it is.                          *)
LEMMA VersionKept ==
  ASSUME SerialsKnown, Grown, NEW s \in Nat, s >= 1, s <= current
  PROVE  versions'[s] = versions[s]
BY DEF Grown, SerialsKnown

(* The plan that was shown stays the plan of the version planned on.       *)
LEMMA PlanKept ==
  ASSUME ClientInv, Grown, PlanSame, PlanShown
  PROVE  PlanShown'
<1>1. c.from \in Nat /\ c.from >= 1 /\ c.from <= current
  BY DEF ClientInv, ClientRecord, SerialsKnown, PlanShown
<1>2. versions'[c.from] = versions[c.from] BY <1>1, VersionKept DEF ClientInv
<1>3. Selected' = Selected BY DEF Selected, PlanSame
<1>4. ASSUME NEW a \in Addr PROVE Shown(a)'
  <2>1. Shown(a) BY DEF PlanShown
  <2>2. Planned(Selected)' = Planned(Selected) BY <1>3 DEF Planned
  <2>3. c'.from = c.from /\ c'.want = c.want /\ c'.acts = c.acts BY DEF PlanSame
  <2> QED BY <1>2, <2>1, <2>2, <2>3 DEF Shown, Act
<1> QED BY <1>1, <1>4 DEF PlanShown, PlanSame

(* A spec that is in scope stays so.                                       *)
LEMMA SpecKept ==
  ASSUME SpecSame, SpecFits
  PROVE  SpecFits'
<1> USE DEF SpecSame, PlanSame
<1>1. ScopedWrites' = ScopedWrites BY DEF ScopedWrites, Writes, Kept
<1>2. OutOfScope' = OutOfScope
  <2>1. \A a \in Addr : Unowned(a)' = Unowned(a) BY DEF Unowned
  <2>2. Destructive(c.acts)' = Destructive(c.acts) BY DEF Destructive
  <2>3. \A a \in Addr : a \in {x \in Destructive(c.acts) \ ScopedWrites : Unowned(x)}'
            <=> a \in {x \in Destructive(c.acts) \ ScopedWrites : Unowned(x)}
    BY <1>1, <2>1, <2>2
  <2>4. {x \in Destructive(c.acts) \ ScopedWrites : Unowned(x)}' = {x \in Destructive(c.acts) \ ScopedWrites : Unowned(x)}
    BY <1>1, <2>1, <2>2 DEF Destructive
  <2>5. Planned(c.cmd.sel)' = Planned(c.cmd.sel) BY DEF Planned
  <2> QED BY <1>1, <2>4, <2>5 DEF OutOfScope
<1>3. Gated' = Gated BY DEF Gated, Writes, Destructive
<1> QED BY <1>1, <1>2, <1>3 DEF SpecFits

(* The previewed quota holds as long as the trunk does not move.           *)
LEMMA QuotaKept ==
  ASSUME ClientInv, Grown, SpecSame, c.from >= 1, WithinQuota
  PROVE  WithinQuota'
<1> USE DEF SpecSame, PlanSame
<1>1. c.from \in Nat /\ c.from <= current /\ current \in Nat /\ current' \in Nat /\ current <= current'
  BY DEF ClientInv, ClientRecord, SerialsKnown, Grown
<1>2. versions'[c.from] = versions[c.from] BY <1>1, VersionKept DEF ClientInv
<1>3. PlannedDelta' = PlannedDelta BY DEF PlannedDelta
<1>4. Unpreviewed' = Unpreviewed BY DEF Unpreviewed
<1>5. Count(versions[c.from])' = Count(versions[c.from]) BY <1>2 DEF Count
<1>6. CASE current' # c.from BY <1>6 DEF WithinQuota
<1>7. CASE current' = c.from
  <2>1. current = c.from BY <1>1, <1>7
  <2> QED BY <1>3, <1>4, <1>5, <2>1 DEF WithinQuota, Exceeds
<1> QED BY <1>6, <1>7

(* What the staleness guard found stays true of the two versions.          *)
LEMMA GuardKept ==
  ASSUME ClientInv, Grown, SpecSame, c'.base = c.base, c.base >= 1, ReadSetIntact
  PROVE  ReadSetIntact'
<1> USE DEF SpecSame, PlanSame
<1>1. c.base \in Nat /\ c.base <= current /\ c.pin \in Nat /\ c.pin <= current
  BY DEF ClientInv, ClientRecord, SerialsKnown
<1>2. versions'[c.base] = versions[c.base] BY <1>1, VersionKept DEF ClientInv
<1>3. c.pin > 0 => versions'[c.pin] = versions[c.pin] BY <1>1, VersionKept DEF ClientInv
<1>4. GroupClosure(c.read)' = GroupClosure(c.read) BY DEF GroupClosure, Groups
<1> QED BY <1>2, <1>3, <1>4 DEF ReadSetIntact

(* The replan depends on the version it was made on only.                  *)
LEMMA ReplanKept ==
  ASSUME ClientInv, Grown, SpecSame, c'.base = c.base, c.base >= 1
  PROVE  Replan' = Replan
<1> USE DEF SpecSame, PlanSame
<1>1. c.base \in Nat /\ c.base <= current BY DEF ClientInv, ClientRecord, SerialsKnown
<1>2. versions'[c.base] = versions[c.base] BY <1>1, VersionKept DEF ClientInv
<1>3. Planned(c.write)' = Planned(c.write) BY DEF Planned
<1> QED BY <1>2, <1>3 DEF Replan, Actions, Act

(* A reason for an end stays one.                                          *)
LEMMA ReasonKept ==
  ASSUME ClientInv, Grown, RunSame, c'.how = c.how, c'.locked = c.locked, Explained
  PROVE  Explained'
<1> USE DEF RunSame, SpecSame, PlanSame
<1>1. /\ c.base \in Nat /\ c.locked \in Nat /\ c.from \in Nat
      /\ current \in Nat /\ current' \in Nat /\ current <= current'
  BY DEF ClientInv, ClientRecord, SerialsKnown, Grown
<1>2. Unpreviewed' = Unpreviewed BY DEF Unpreviewed
<1>3. MaxCommitRetries \in Nat BY ClientAssumption
<1>4. current > c.from => current' > c.from BY <1>1
<1>5. current > c.locked => current' > c.locked BY <1>1
<1>6. current >= c.base + MaxCommitRetries => current' >= c.base + MaxCommitRetries BY <1>1, <1>3
<1>7. CASE c.how = "intent" BY <1>7 DEF Explained
<1>8. CASE c.how = "quota" BY <1>2, <1>4, <1>8 DEF Explained
<1>9. CASE c.how = "conflict" BY <1>5, <1>9 DEF Explained
<1>10. CASE c.how = "retries" BY <1>6, <1>10 DEF Explained
<1>11. CASE c.how \notin {"intent", "quota", "conflict", "retries"} BY <1>11 DEF Explained
<1> QED BY <1>7, <1>8, <1>9, <1>10, <1>11

-----------------------------------------------------------------------------
(* The parts of the invariant about the client; the others are the store's *)

Cut == {"terraform", "merging", "committing"}

ClientParts ==
  /\ c \in ClientRecord /\ SerialsKnown
  /\ PlanInv /\ SpecInv /\ LaneInv /\ QuotaInv /\ BaseInv /\ DoneInv /\ TriesInv /\ LockInv /\ EndInv

(* A step that moves the client on without new data.                       *)
LEMMA MovedOn ==
  ASSUME ClientInv, Grown, RunSame, c' \in ClientRecord, SerialsKnown',
         c'.pc = "planned" => c.pc = "planned",
         c'.pc \in {"quota"} \cup Orchestrated \cup OnBackend =>
           c.pc \in {"quota"} \cup Orchestrated \cup OnBackend,
         c'.pc \in Orchestrated \cup OnBackend => c.pc \in Orchestrated \cup OnBackend \/ WithinQuota,
         c'.pc \in Cut => c.pc \in Cut, c'.pc = "posting" => c.pc = "posting",
         c'.pc \in {"merging", "committing"} => c.pc \in {"merging", "committing"},
         Ran => c'.pc \in {"merging", "committing", "closing", "posting", "unlocking", "done"},
         LaneInv', TriesInv', LockInv', EndInv'
  PROVE  ClientParts'
<1>1. Ran' <=> Ran BY DEF RunSame, Ran, NoActs
<1>2. (HasSpec' => HasSpec) /\ (HasPlan' => HasPlan) BY <1>1 DEF HasSpec, HasPlan
<1>3. PlanInv'
  BY <1>2, PlanKept DEF ClientInv, PlanInv, RunSame, SpecSame
<1>4. SpecInv'
  BY <1>2, SpecKept DEF ClientInv, SpecInv, RunSame
<1>5. QuotaInv'
  <2>1. SUFFICES ASSUME c'.pc \in Orchestrated \cup OnBackend \/ Ran' PROVE WithinQuota'
    BY DEF QuotaInv, Orchestrated, OnBackend
  <2>2. WithinQuota BY <1>1, <2>1 DEF ClientInv, QuotaInv
  <2>3. HasSpec' BY <2>1 DEF HasSpec, Orchestrated, OnBackend
  <2>4. c.from >= 1 BY <1>2, <2>3 DEF ClientInv, PlanInv, PlanShown, HasPlan
  <2> QED BY <2>2, <2>4, QuotaKept DEF RunSame
<1>6. BaseInv'
  <2>1. ASSUME c'.pc \in {"terraform", "merging", "committing", "posting"} \/ Ran'
        PROVE  c'.base >= 1 /\ c'.from <= c'.base
    <3>1. c.pc \in {"terraform", "merging", "committing", "posting"} \/ Ran BY <1>1, <2>1 DEF Cut
    <3> QED BY <3>1 DEF ClientInv, BaseInv, RunSame, SpecSame, PlanSame
  <2>2. ASSUME c'.pc \in {"terraform", "merging", "committing"} \/ (Ran' /\ c'.lane # "backend")
        PROVE ReadSetIntact'
    <3>1. c.pc \in {"terraform", "merging", "committing"} \/ (Ran /\ c.lane # "backend")
      BY <1>1, <2>2 DEF Cut, RunSame, SpecSame
    <3>2. ReadSetIntact /\ c.base >= 1 BY <3>1 DEF ClientInv, BaseInv
    <3> QED BY <3>2, GuardKept DEF RunSame
  <2> QED BY <2>1, <2>2 DEF BaseInv
<1>7. DoneInv'
  <2>1. ASSUME c'.pc \in {"merging", "committing"}
        PROVE  c'.done = Replan' /\ Groups(Writes(c.done))' = Groups(c.write)'
    <3>1. c.pc \in {"merging", "committing"} BY <2>1
    <3>2. c.done = Replan /\ Groups(Writes(c.done)) = Groups(c.write) /\ c.base >= 1
      BY <3>1 DEF ClientInv, DoneInv, BaseInv
    <3>3. Replan' = Replan BY <3>2, ReplanKept DEF RunSame
    <3> QED BY <3>2, <3>3 DEF RunSame, SpecSame, Groups, Writes
  <2>2. ASSUME Ran'
        PROVE  /\ \A a \in Addr : c'.done[a] \in {"none", Replan'[a]}
               /\ c'.lane # "backend" => Groups(Writes(Replan))' = Groups(c.write)'
    <3>1. Ran BY <1>1, <2>2
    <3>2. /\ \A a \in Addr : c.done[a] \in {"none", Replan[a]}
          /\ c.lane # "backend" => Groups(Writes(Replan)) = Groups(c.write)
          /\ c.base >= 1
      BY <3>1 DEF ClientInv, DoneInv, BaseInv
    <3>3. Replan' = Replan BY <3>2, ReplanKept DEF RunSame
    <3>4. PICK r : r = Replan OBVIOUS
    <3>5. Replan' = r BY <3>3, <3>4
    <3>6. Writes(Replan)' = Writes(Replan) BY <3>4, <3>5 DEF Writes
    <3> QED BY <3>2, <3>3, <3>6 DEF RunSame, SpecSame, Groups
  <2>3. Ran' => c'.pc \in {"merging", "committing", "closing", "posting", "unlocking", "done"} BY <1>1
  <2> QED BY <2>1, <2>2, <2>3 DEF DoneInv
<1> QED BY <1>3, <1>4, <1>5, <1>6, <1>7 DEF ClientParts

(* A step that changes no lock.                                            *)
LEMMA LocksKept ==
  ASSUME ClientInv, Grown, UNCHANGED locks,
         c'.pc \in {"locked", "posting"} => c.pc \in {"locked", "posting"} /\ c'.locked = c.locked,
         (c'.lane = "native" /\ c'.pc \in {"reserve", "guard", "terraform", "merging", "committing", "closing"}) =>
           c.lane = "native" /\ c.pc \in {"reserve", "guard", "terraform", "merging", "committing", "closing"}
  PROVE  LockInv'
<1>1. Held' = Held BY DEF Held
<1>2. DOMAIN versions \subseteq DOMAIN versions' BY DEF Grown
<1> QED BY <1>1, <1>2 DEF ClientInv, LockInv, NativeAlone

(* The trunk has a serial, and it only grows.                              *)
LEMMA TrunkKnown ==
  ASSUME SerialsKnown, Grown
  PROVE  /\ current \in Nat /\ current' \in Nat /\ current' >= current /\ current >= 1 /\ current' # 0
BY DEF SerialsKnown, Grown

(* ... and a step of the others leaves the client as it is.                *)
LEMMA OthersKeep ==
  ASSUME ClientInv, Grown, UNCHANGED c, LockInv'
  PROVE  ClientParts'
<1>1. RunSame BY DEF RunSame, SpecSame, PlanSame
<1>2. c' \in ClientRecord BY DEF ClientInv
<1>3. /\ current \in Nat /\ current' \in Nat /\ current' >= current /\ current' # 0
      /\ c.pin \in Nat /\ c.from \in Nat /\ c.base \in Nat /\ c.fresh \in Nat /\ c.tries \in Nat
  BY TrunkKnown DEF ClientInv, ClientRecord
<1>4. SerialsKnown' BY <1>3 DEF ClientInv, SerialsKnown
<1>5. LaneInv'
  BY DEF ClientInv, LaneInv, HasSpec, Ran, NoActs, Orchestrated, OnBackend
<1>6. TriesInv' BY <1>3 DEF ClientInv, TriesInv
<1>7. EndInv'
  <2>1. SUFFICES ASSUME c'.pc \in {"closing", "unlocking", "done"}, Ran' PROVE Explained' BY DEF EndInv
  <2>2. Explained BY <2>1 DEF ClientInv, EndInv, Ran, NoActs
  <2> QED BY <1>1, <2>2, ReasonKept
<1>9. Ran => c'.pc \in {"merging", "committing", "closing", "posting", "unlocking", "done"}
  BY DEF ClientInv, DoneInv
<1> QED BY <1>1, <1>2, <1>4, <1>5, <1>6, <1>7, <1>9, MovedOn

(* A Terraform session or another kl apply never breaks the client's       *)
(* invariant; the coarse lock shuts the session out.                       *)
LEMMA OthersStep ==
  ASSUME ClientInv, Grown, StoreInv', TerraformLocks \/ TerraformPosts \/ TerraformUnlocks \/ OtherApply
  PROVE  ClientParts'
<1>1. Me \in LockId /\ Other \in LockId /\ Me # Other BY ClientAssumption
<1>2. locks \in [LockId -> LockRow \cup {NoLock}]
  BY DEF ClientInv, StoreInv, StoreTypeOK
<1>3. UNCHANGED c
  BY DEF TerraformLocks, TerraformPosts, TerraformUnlocks, OtherApply
<1>4. Other \in Held =>
        ~ (c.lane = "native" /\ c.pc \in {"reserve", "guard", "terraform", "merging", "committing", "closing"})
  BY <1>1 DEF ClientInv, LockInv, NativeAlone
<1>5. CASE TerraformLocks
  <2>1. AcquireLock(Other) BY <1>5 DEF TerraformLocks
  <2>2. ~ (c.lane = "native" /\ c.pc \in {"reserve", "guard", "terraform", "merging", "committing", "closing"})
    <3>1. SUFFICES ASSUME c.lane = "native", c.pc \in {"reserve", "guard", "terraform", "merging", "committing", "closing"}
                   PROVE  FALSE
      OBVIOUS
    <3>2. Held = {Me} /\ locks[Me].kind = "engine" BY <3>1 DEF ClientInv, LockInv, NativeAlone
    <3> QED BY <2>1, <3>2 DEF AcquireLock
  <2>3. locks' = [locks EXCEPT ![Other] = [kind |-> "http", source |-> current]]
    <3>1. current \in Nat BY TrunkKnown DEF ClientInv
    <3>2. TrunkSerial = current BY <3>1 DEF TrunkSerial, NoVersion
    <3> QED BY <2>1, <3>2 DEF AcquireLock
  <2>4. locks'[Other] = [kind |-> "http", source |-> current] /\ locks'[Me] = locks[Me]
    BY <1>1, <1>2, <2>3
  <2>5. current \in DOMAIN versions' BY <2>1, SerialsAreVersions DEF ClientInv, AcquireLock, SerialsKnown
  <2>6. LockInv'
    BY <1>3, <2>2, <2>4, <2>5 DEF ClientInv, LockInv, NativeAlone
  <2> QED BY <1>3, <2>6, OthersKeep
<1>6. CASE TerraformPosts
  <2>1. PICK e \in Edits : LET doc == Edited(versions[locks[Other].source], e)
                           IN  Other \in Held /\ WriteState(Other, doc)
    BY <1>6 DEF TerraformPosts
  <2>2. /\ Other \in Held
        /\ locks' = [locks EXCEPT ![Other].source = NextSerial]
        /\ NextSerial \in DOMAIN versions'
    BY <2>1 DEF WriteState, CommitDoc, InsertVersion
  <2>3. locks'[Other].kind = locks[Other].kind /\ locks'[Other].source = NextSerial /\ locks'[Me] = locks[Me]
    <3>1. locks' = [locks EXCEPT ![Other] = [locks[Other] EXCEPT !.source = NextSerial]] BY <2>2
    <3>2. locks[Other] \in LockRow BY <1>2, <2>2 DEF Held
    <3> QED BY <1>1, <1>2, <3>1, <3>2 DEF LockRow
  <2>4. LockInv'
    BY <1>3, <1>4, <2>2, <2>3 DEF ClientInv, LockInv, NativeAlone
  <2> QED BY <1>3, <2>4, OthersKeep
<1>7. CASE TerraformUnlocks
  <2>1. locks[Other].kind = "http" /\ locks' = [locks EXCEPT ![Other] = NoLock]
    BY <1>7 DEF TerraformUnlocks, ReleaseLock
  <2>2. Other \in Held BY <1>1, <2>1 DEF Held, NoLock
  <2>3. Other \notin Held' /\ locks'[Me] = locks[Me] BY <1>1, <1>2, <2>1 DEF Held
  <2>4. LockInv' BY <1>3, <1>4, <2>2, <2>3 DEF ClientInv, LockInv, NativeAlone
  <2> QED BY <1>3, <2>4, OthersKeep
<1>8. CASE OtherApply
  <2>1. UNCHANGED locks BY <1>8 DEF OtherApply, WriteStateForApply
  <2>2. LockInv' BY <1>3, <2>1, LocksKept
  <2> QED BY <1>3, <2>2, OthersKeep
<1> QED BY <1>5, <1>6, <1>7, <1>8

-----------------------------------------------------------------------------
(* Up to the plan                                                          *)

(* A client remembers serials the trunk has or had.                        *)
LEMMA SerialsGrow ==
  ASSUME ClientInv, Grown, c' \in ClientRecord,
         c'.pin \in {0, c.pin, current}, c'.from \in {c.from, current},
         c'.base \in {c.base, current}, c'.fresh \in {c.fresh, current}
  PROVE  SerialsKnown'
<1>1. /\ current \in Nat /\ current' \in Nat /\ current' >= current /\ current' # 0
      /\ c.pin \in Nat /\ c.from \in Nat /\ c.base \in Nat /\ c.fresh \in Nat
      /\ c.pin <= current /\ c.from <= current /\ c.base <= current /\ c.fresh <= current
  BY TrunkKnown DEF ClientInv, ClientRecord, SerialsKnown
<1> QED BY <1>1 DEF SerialsKnown

(* Before there is a spec, all that matters is the plan.                   *)
LEMMA NotYet ==
  ASSUME ClientInv, Grown, c' \in ClientRecord, SerialsKnown', LockInv', ~ Ran', c'.tries = 0,
         c'.pc \in {"start", "pinned", "planning", "rows", "planned"},
         c'.pc = "planned" => PlanShown'
  PROVE  ClientParts'
<1>1. ~ HasSpec' BY DEF HasSpec, Orchestrated, OnBackend
<1>2. PlanInv' BY <1>1 DEF PlanInv, HasPlan
<1>3. SpecInv' BY <1>1 DEF SpecInv
<1>4. LaneInv' BY <1>1 DEF LaneInv, Orchestrated, OnBackend
<1>5. QuotaInv' BY DEF QuotaInv, Orchestrated, OnBackend
<1>6. BaseInv' BY DEF BaseInv
<1>7. DoneInv' /\ TriesInv' /\ EndInv' BY DEF DoneInv, TriesInv, EndInv
<1> QED BY <1>2, <1>3, <1>4, <1>5, <1>6, <1>7 DEF ClientParts

(* A step away from the places where a lock is relied on.                  *)
LEMMA NoLocksTaken ==
  ASSUME ClientInv, Grown, UNCHANGED locks, c'.pc \notin {"locked", "posting"},
         c'.pc \notin {"reserve", "guard", "terraform", "merging", "committing", "closing"}
  PROVE  LockInv'
BY LocksKept

(* A step that changes the client's own lock, away from the same places.   *)
LEMMA OwnLock ==
  ASSUME ClientInv, Grown, NEW row, locks' = [locks EXCEPT ![Me] = row],
         c'.pc \notin {"locked", "posting"},
         c'.pc \notin {"reserve", "guard", "terraform", "merging", "committing", "closing"}
  PROVE  LockInv'
<1>1. Me \in LockId /\ Other \in LockId /\ Me # Other /\ locks \in [LockId -> LockRow \cup {NoLock}]
  BY ClientAssumption DEF ClientInv, StoreInv, StoreTypeOK
<1>2. locks'[Other] = locks[Other] BY <1>1
<1>3. DOMAIN versions \subseteq DOMAIN versions' BY DEF Grown
<1>4. (Other \in Held)' <=> Other \in Held BY <1>1, <1>2 DEF Held
<1> QED BY <1>2, <1>3, <1>4 DEF ClientInv, LockInv, NativeAlone

(* The plan lists what Terraform's plan of that document gives, and what   *)
(* the refresh found drifted.                                              *)
LEMMA PlanMade ==
  ASSUME c \in ClientRecord, NEW upd \in ClientRecord, upd.cmd = c.cmd, upd.want = c.want,
         NEW doc \in Doc, c' \in PlanOn(upd, doc), versions'[upd.from] = doc, upd.from >= 1
  PROVE  /\ c' \in ClientRecord /\ c'.pc = "planned" /\ PlanShown'
         /\ c'.pin = upd.pin /\ c'.from = upd.from /\ c'.base = upd.base /\ c'.fresh = upd.fresh
         /\ c'.done = upd.done /\ c'.tries = upd.tries
<1>1. PICK drift \in Drifts :
        c' = [upd EXCEPT !.pc = "planned", !.acts = Refreshed(Actions(doc, Selected), doc, Selected, drift)]
  BY DEF PlanOn
<1>2. PICK acts : acts = Refreshed(Actions(doc, Selected), doc, Selected, drift) OBVIOUS
<1>3. PICK due : due = Actions(doc, Selected) OBVIOUS
<1>4. \A a \in Addr : due[a] = IF a \in Planned(Selected) THEN Act(doc.res[a].attr, c.want[a]) ELSE "none"
  BY <1>3 DEF Actions
<1>5. \A a \in Addr : /\ due[a] \in Modes
                      /\ acts[a] = IF a \in drift \cap Planned(Selected) /\ due[a] = "none" /\ doc.res[a].attr # NoAttr
                                   THEN "update" ELSE due[a]
  BY <1>2, <1>3, <1>4, ActMeans DEF Refreshed, Modes
<1>6. acts \in Actish
  <2>1. acts = [a \in Addr |-> acts[a]] BY <1>2 DEF Refreshed
  <2>2. \A a \in Addr : acts[a] \in Modes BY <1>5 DEF Modes
  <2> QED BY <2>1, <2>2 DEF Actish
<1>7. c' = [upd EXCEPT !.pc = "planned", !.acts = acts] BY <1>1, <1>2
<1>8. /\ c' \in ClientRecord /\ c'.pc = "planned" /\ c'.acts = acts /\ c'.cmd = c.cmd /\ c'.want = c.want
      /\ c'.pin = upd.pin /\ c'.from = upd.from /\ c'.base = upd.base /\ c'.fresh = upd.fresh
      /\ c'.done = upd.done /\ c'.tries = upd.tries
  BY <1>6, <1>7 DEF ClientRecord, Places
<1>9. Planned(Selected)' = Planned(Selected) BY <1>8 DEF Planned, Selected
<1>10. ASSUME NEW a \in Addr PROVE Shown(a)'
  <2>1. acts[a] = due[a] \/ (a \in Planned(Selected) /\ due[a] = "none" /\ acts[a] = "update") BY <1>5
  <2>2. Act(versions[c.from].res[a].attr, c.want[a])' = Act(doc.res[a].attr, c.want[a])
    BY <1>8 DEF Act
  <2>3. (IF a \in Planned(Selected) THEN Act(versions[c.from].res[a].attr, c.want[a]) ELSE "none")' = due[a]
    BY <1>4, <1>9, <2>2
  <2> QED BY <1>8, <1>9, <2>1, <2>3 DEF Shown
<1> QED BY <1>8, <1>10 DEF PlanShown

(* The steps that make a plan.                                             *)
LEMMA PlanningStep ==
  ASSUME ClientInv, Grown, PinTrunk \/ PlanLock \/ PlanFull \/ PlanFetched \/ ResolveSlice \/ PlanSliced \/ FallBack
  PROVE  ClientParts'
<1>1. /\ c \in ClientRecord /\ current \in Nat /\ current >= 1
      /\ versions[current] \in Doc /\ versions'[current] = versions[current]
  BY TrunkKnown, SerialsAreVersions, VersionKept DEF ClientInv
<1>2. c.pc \in {"start", "pinned", "planning", "rows"}
  BY DEF PinTrunk, PlanLock, PlanFull, PlanFetched, ResolveSlice, PlanSliced, FallBack, At
<1>3. c.done = NoActs /\ c.tries = 0 BY <1>2 DEF ClientInv, DoneInv, TriesInv, Ran
<1>4. ASSUME c' \in ClientRecord, c'.pc \in {"pinned", "planning", "rows", "planned"}, c'.done = c.done, c'.tries = c.tries,
             LockInv', c'.pc = "planned" => PlanShown',
             c'.pin \in {0, c.pin, current}, c'.from \in {c.from, current},
             c'.base = c.base, c'.fresh = c.fresh
      PROVE  ClientParts'
  <2>1. ~ Ran' BY <1>3, <1>4 DEF Ran, NoActs
  <2>2. SerialsKnown' BY <1>4, SerialsGrow
  <2> QED BY <1>3, <1>4, <2>1, <2>2, NotYet
<1>5. ASSUME NEW upd, upd \in ClientRecord, upd.cmd = c.cmd, upd.want = c.want, upd.done = c.done, upd.tries = c.tries,
             upd.pin \in {0, c.pin, current}, upd.from = current, upd.base = c.base, upd.fresh = c.fresh,
             c' \in PlanOn(upd, versions[current]), LockInv'
      PROVE  ClientParts'
  <2>1. /\ c' \in ClientRecord /\ c'.pc = "planned" /\ PlanShown' /\ c'.done = c.done /\ c'.tries = c.tries
        /\ c'.pin = upd.pin /\ c'.from = upd.from /\ c'.base = upd.base /\ c'.fresh = upd.fresh
    BY <1>1, <1>5, PlanMade
  <2> QED BY <1>4, <1>5, <2>1
<1>6. ASSUME UNCHANGED locks, c'.pc \in {"pinned", "planning", "rows", "planned"} PROVE LockInv'
  BY <1>6, NoLocksTaken
<1>7. CASE PinTrunk
  <2>1. c' = [c EXCEPT !.pc = "pinned", !.pin = current] /\ UNCHANGED locks
    BY <1>7 DEF PinTrunk, Go, storeVars
  <2>2. /\ c' \in ClientRecord /\ c'.pc = "pinned" /\ c'.done = c.done /\ c'.tries = c.tries /\ c'.pin = current
        /\ c'.from = c.from /\ c'.base = c.base /\ c'.fresh = c.fresh
    BY <1>1, <2>1 DEF ClientRecord, Places
  <2> QED BY <1>4, <1>6, <2>1, <2>2
<1>8. CASE ResolveSlice
  <2>1. c' = [c EXCEPT !.pc = "rows", !.pin = current, !.meta = "slice"] /\ UNCHANGED locks
    BY <1>8 DEF ResolveSlice, Go, storeVars
  <2>2. /\ c' \in ClientRecord /\ c'.pc = "rows" /\ c'.done = c.done /\ c'.tries = c.tries /\ c'.pin = current
        /\ c'.from = c.from /\ c'.base = c.base /\ c'.fresh = c.fresh
    BY <1>1, <2>1 DEF ClientRecord, Places
  <2> QED BY <1>4, <1>6, <2>1, <2>2
<1>10. CASE PlanFetched \/ PlanSliced \/ FallBack
  <2>1. UNCHANGED locks BY <1>10 DEF PlanFetched, PlanSliced, FallBack, storeVars
  <2>2. PICK upd :
           /\ c' \in PlanOn(upd, versions[current])
           /\ \/ upd = [c EXCEPT !.pin = current, !.from = current]
              \/ upd = [c EXCEPT !.from = current]
              \/ upd = [c EXCEPT !.meta = "fallback", !.from = current,
                                 !.pin = IF c.cmd.spec THEN 0 ELSE current]
    BY <1>10 DEF PlanFetched, PlanSliced, FallBack
  <2>3. /\ upd \in ClientRecord /\ upd.cmd = c.cmd /\ upd.want = c.want /\ upd.done = c.done /\ upd.tries = c.tries
        /\ upd.pin \in {0, c.pin, current} /\ upd.from = current /\ upd.base = c.base /\ upd.fresh = c.fresh
    <3>1. PICK p : p = IF c.cmd.spec THEN 0 ELSE current OBVIOUS
    <3>2. p \in {0, current} /\ p \in Nat BY <1>1, <3>1
    <3>3. \/ upd = [c EXCEPT !.pin = current, !.from = current]
          \/ upd = [c EXCEPT !.from = current]
          \/ upd = [c EXCEPT !.meta = "fallback", !.from = current, !.pin = p]
      BY <2>2, <3>1
    <3>4. CASE upd = [c EXCEPT !.pin = current, !.from = current] BY <1>1, <3>4 DEF ClientRecord
    <3>5. CASE upd = [c EXCEPT !.from = current] BY <1>1, <3>5 DEF ClientRecord
    <3>6. CASE upd = [c EXCEPT !.meta = "fallback", !.from = current, !.pin = p]
      BY <1>1, <3>2, <3>6 DEF ClientRecord
    <3> QED BY <3>3, <3>4, <3>5, <3>6
  <2>4. c'.pc = "planned" BY <1>1, <2>2, <2>3, PlanMade
  <2>5. LockInv' BY <1>6, <2>1, <2>4
  <2> QED BY <1>5, <2>2, <2>3, <2>5
<1>12. ASSUME NEW row, locks' = [locks EXCEPT ![Me] = row], c'.pc \in {"planning", "planned"} PROVE LockInv'
  BY <1>12, OwnLock
<1>13. CASE PlanLock
  <2>1. c' = [c EXCEPT !.pc = "planning"] BY <1>13 DEF PlanLock
  <2>2. PICK row : locks' = [locks EXCEPT ![Me] = row] BY <1>13 DEF PlanLock, AcquireLock
  <2>3. /\ c' \in ClientRecord /\ c'.pc = "planning" /\ c'.done = c.done /\ c'.tries = c.tries /\ c'.pin = c.pin
        /\ c'.from = c.from /\ c'.base = c.base /\ c'.fresh = c.fresh
    BY <1>1, <2>1 DEF ClientRecord, Places
  <2> QED BY <1>4, <1>12, <2>2, <2>3
<1>14. CASE PlanFull
  <2>1. locks' = [locks EXCEPT ![Me] = NoLock] BY <1>14 DEF PlanFull, ReleaseLock
  <2>2. PICK upd : upd = [c EXCEPT !.from = current] /\ c' \in PlanOn(upd, versions[current])
    BY <1>14 DEF PlanFull
  <2>3. /\ upd \in ClientRecord /\ upd.cmd = c.cmd /\ upd.want = c.want /\ upd.done = c.done /\ upd.tries = c.tries
        /\ upd.pin = c.pin /\ upd.from = current /\ upd.base = c.base /\ upd.fresh = c.fresh
    BY <1>1, <2>2 DEF ClientRecord
  <2>4. c'.pc = "planned" BY <1>1, <2>2, <2>3, PlanMade
  <2>5. LockInv' BY <1>12, <2>1, <2>4
  <2> QED BY <1>5, <2>2, <2>3, <2>5
<1> QED BY <1>7, <1>8, <1>10, <1>13, <1>14

-----------------------------------------------------------------------------
(* From the plan to the lane                                               *)

(* A step to another place, with the reason for an end.                    *)
LEMMA StepTo ==
  ASSUME c \in ClientRecord, NEW p \in Places, NEW h \in Outcomes, c' = [c EXCEPT !.pc = p, !.how = h]
  PROVE  /\ c' \in ClientRecord /\ RunSame /\ c'.pc = p /\ c'.how = h
         /\ c'.locked = c.locked /\ c'.fresh = c.fresh /\ c'.tries = c.tries
<1>1. c' \in ClientRecord BY DEF ClientRecord
<1>2. c'.pc = p /\ c'.how = h /\ c'.locked = c.locked /\ c'.fresh = c.fresh /\ c'.tries = c.tries
  BY DEF ClientRecord
<1>3. PlanSame BY DEF ClientRecord, PlanSame
<1>4. RunSame BY <1>3 DEF ClientRecord, RunSame, SpecSame
<1> QED BY <1>1, <1>2, <1>4

(* A step to another place.                                                *)
LEMMA Stepping ==
  ASSUME c \in ClientRecord, NEW p \in Places, c' = [c EXCEPT !.pc = p]
  PROVE  /\ c' \in ClientRecord /\ RunSame /\ c'.pc = p /\ c'.how = c.how
         /\ c'.locked = c.locked /\ c'.fresh = c.fresh /\ c'.tries = c.tries
<1>1. c.how \in Outcomes BY DEF ClientRecord
<1>2. c' = [c EXCEPT !.pc = p, !.how = c.how] BY DEF ClientRecord
<1> QED BY <1>1, <1>2, StepTo

(* ... remembers the same serials, or the trunk read now.                  *)
LEMMA SerialsSame ==
  ASSUME ClientInv, Grown, c' \in ClientRecord, RunSame, c'.fresh \in {c.fresh, current}
  PROVE  SerialsKnown'
BY SerialsGrow DEF RunSame, SpecSame, PlanSame

(* A run that ends before Terraform changed anything.                      *)
LEMMA Quits ==
  ASSUME ClientInv, Grown, UNCHANGED locks, ~ Ran, c' = End("refused")
  PROVE  ClientParts'
<1>1. c' = [c EXCEPT !.pc = "done", !.how = "refused"] BY DEF End
<1>2. /\ c' \in ClientRecord /\ RunSame /\ c'.pc = "done" /\ c'.fresh = c.fresh
  BY <1>1, StepTo DEF ClientInv, Places, Outcomes
<1>3. ~ Ran' BY <1>2 DEF RunSame, Ran, NoActs
<1>4. LaneInv' BY <1>2, <1>3 DEF LaneInv, HasSpec, Orchestrated, OnBackend
<1>5. TriesInv' BY <1>2 DEF TriesInv
<1>6. LockInv' BY <1>2, NoLocksTaken
<1>7. EndInv' BY <1>3 DEF EndInv
<1>8. SerialsKnown' BY <1>2, SerialsSame
<1> QED BY <1>2, <1>3, <1>4, <1>5, <1>6, <1>7, <1>8, MovedOn DEF Orchestrated, OnBackend, Cut

(* Planning fails, or was all there was to do.                             *)
LEMMA PlanEndsStep ==
  ASSUME ClientInv, Grown, PlanEnds
  PROVE  ClientParts'
<1>1. ~ Ran BY DEF PlanEnds, ClientInv, DoneInv
<1> QED BY <1>1, Quits DEF PlanEnds, Go, storeVars

(* The spec: its write set is in scope and acknowledged.                   *)
LEMMA BuildSpecStep ==
  ASSUME ClientInv, Grown, BuildSpec
  PROVE  ClientParts'
<1>1. c.pc = "planned" /\ ~ Ran /\ UNCHANGED locks /\ c \in ClientRecord
  BY DEF BuildSpec, At, Go, storeVars, ClientInv, DoneInv
<1>2. CASE OutOfScope # {} \/ ScopedWrites = {} \/ (~ c.cmd.spec /\ Gated)
  <2>1. c' = End("refused") BY <1>2 DEF BuildSpec, Go
  <2> QED BY <1>1, <2>1, Quits
<1>3. CASE ~ (OutOfScope # {} \/ ScopedWrites = {} \/ (~ c.cmd.spec /\ Gated))
  <2>1. PICK w, r, l, p :
          /\ w = ScopedWrites /\ r = ReadsOf(ScopedWrites) /\ l = Lane
          /\ p = (IF Direct THEN "backend" ELSE "quota")
    OBVIOUS
  <2>2. c' = [c EXCEPT !.pc = p, !.lane = l, !.write = w, !.read = r]
    BY <1>3, <2>1 DEF BuildSpec, Go
  <2>3. /\ w \in SUBSET Addr /\ r \in SUBSET Addr /\ w \subseteq r
        /\ l \in {"native", "snapshot", "backend"} /\ p \in {"backend", "quota"}
        /\ p = "backend" => l = "backend"
    BY <2>1 DEF ScopedWrites, Writes, ReadsOf, Lane, Direct
  <2>4. /\ c' \in ClientRecord /\ PlanSame /\ c'.pc = p /\ c'.lane = l /\ c'.write = w /\ c'.read = r
        /\ c'.base = c.base /\ c'.fresh = c.fresh /\ c'.done = c.done /\ c'.tries = c.tries
    BY <1>1, <2>2, <2>3 DEF ClientRecord, Places, PlanSame
  <2>5. ~ Ran' BY <1>1, <2>4 DEF Ran, NoActs
  <2>6. PlanInv'
    <3>1. PlanShown BY <1>1 DEF ClientInv, PlanInv, HasPlan
    <3> QED BY <2>4, <3>1, PlanKept DEF PlanInv
  <2>7. SpecInv'
    <3>1. ScopedWrites' = ScopedWrites BY <2>4 DEF PlanSame, ScopedWrites, Writes, Kept
    <3>2. OutOfScope' = OutOfScope
      <4>1. \A a \in Addr : Unowned(a)' = Unowned(a) BY <2>4 DEF PlanSame, Unowned
      <4>2. {x \in Destructive(c.acts) \ ScopedWrites : Unowned(x)}' = {x \in Destructive(c.acts) \ ScopedWrites : Unowned(x)}
        BY <3>1, <4>1, <2>4 DEF Destructive, PlanSame
      <4>3. Planned(c.cmd.sel)' = Planned(c.cmd.sel) BY <2>4 DEF Planned, PlanSame
      <4> QED BY <2>4, <3>1, <4>2, <4>3 DEF OutOfScope, PlanSame
    <3>3. Gated' = Gated BY <2>4 DEF Gated, Writes, Destructive, PlanSame
    <3> QED BY <1>3, <2>1, <2>3, <2>4, <3>1, <3>2, <3>3 DEF SpecInv, SpecFits, PlanSame
  <2>8. LaneInv' BY <2>3, <2>4 DEF LaneInv, Orchestrated, OnBackend
  <2>9. QuotaInv'
    <3>1. SUFFICES ASSUME p = "backend" PROVE WithinQuota'
      BY <2>3, <2>4, <2>5 DEF QuotaInv, Orchestrated, OnBackend
    <3>2. Direct BY <2>1, <3>1
    <3>3. Unpreviewed' BY <2>3, <2>4, <3>1, <3>2 DEF Direct, Unpreviewed, PlanSame
    <3> QED BY <3>3 DEF WithinQuota
  <2>10. BaseInv' /\ DoneInv' /\ TriesInv' /\ EndInv'
    BY <1>1, <2>3, <2>4, <2>5 DEF ClientInv, BaseInv, DoneInv, TriesInv, EndInv
  <2>11. LockInv' BY <1>1, <2>3, <2>4, NoLocksTaken
  <2>12. SerialsKnown' BY <2>4, SerialsGrow DEF PlanSame
  <2> QED BY <2>4, <2>6, <2>7, <2>8, <2>9, <2>10, <2>11, <2>12 DEF ClientParts
<1> QED BY <1>2, <1>3

(* The preview counts the open rows: the document of the trunk.            *)
LEMMA QuotaPreflightStep ==
  ASSUME ClientInv, Grown, QuotaPreflight
  PROVE  ClientParts'
<1>1. c.pc = "quota" /\ ~ Ran /\ UNCHANGED <<locks, versions, current>> /\ c \in ClientRecord
  BY DEF QuotaPreflight, At, Go, storeVars, ClientInv, DoneInv
<1>2. PICK projected : projected = Cardinality({r \in rows : IsOpen(r)}) + PlannedDelta OBVIOUS
<1>3. CASE Exceeds(projected)
  <2>1. c' = End("refused") BY <1>2, <1>3 DEF QuotaPreflight, Go
  <2> QED BY <1>1, <2>1, Quits
<1>4. CASE ~ Exceeds(projected)
  <2>1. PICK p : p = IF c.lane = "backend" THEN "backend" ELSE "status" OBVIOUS
  <2>2. c' = [c EXCEPT !.pc = p] BY <1>2, <1>4, <2>1 DEF QuotaPreflight, Go
  <2>3. p \in {"backend", "status"} BY <2>1
  <2>4. /\ c' \in ClientRecord /\ RunSame /\ c'.pc = p /\ c'.fresh = c.fresh /\ c'.tries = c.tries
    BY <1>1, <2>2, <2>3, Stepping DEF Places
  <2>5. WithinQuota
    <3>1. projected = Count(versions[current]) + PlannedDelta
      BY <1>2, OpenRowsCounted DEF ClientInv
    <3> QED BY <1>4, <3>1 DEF WithinQuota
  <2>6. LaneInv'
    <3>1. c.lane \in {"native", "snapshot", "backend"}
      BY <1>1 DEF ClientInv, LaneInv, HasSpec, ClientRecord
    <3> QED BY <2>1, <2>4, <3>1 DEF LaneInv, Orchestrated, OnBackend, RunSame, SpecSame
  <2>7. LockInv' BY <1>1, <2>3, <2>4, NoLocksTaken
  <2>8. TriesInv' /\ EndInv' BY <1>1, <2>3, <2>4 DEF ClientInv, TriesInv, EndInv
  <2>9. SerialsKnown' BY <2>4, SerialsSame
  <2> QED BY <1>1, <2>3, <2>4, <2>5, <2>6, <2>7, <2>8, <2>9, MovedOn DEF Orchestrated, OnBackend, Cut
<1> QED BY <1>3, <1>4

(* The check for plain Terraform's locks.                                  *)
LEMMA CoexistenceStep ==
  ASSUME ClientInv, Grown, CheckCoexistence
  PROVE  ClientParts'
<1>1. c.pc = "status" /\ ~ Ran /\ UNCHANGED locks /\ c \in ClientRecord
  BY DEF CheckCoexistence, At, Go, storeVars, ClientInv, DoneInv
<1>2. CASE "strict" \in c.cmd.acks /\ Held # {}
  <2>1. c' = End("refused") BY <1>2 DEF CheckCoexistence, Go
  <2> QED BY <1>1, <2>1, Quits
<1>3. CASE ~ ("strict" \in c.cmd.acks /\ Held # {})
  <2>1. PICK p : p = IF c.lane = "native" THEN "begin" ELSE "reserve" OBVIOUS
  <2>2. c' = [c EXCEPT !.pc = p] BY <1>3, <2>1 DEF CheckCoexistence, Go
  <2>3. p \in {"begin", "reserve"} BY <2>1
  <2>4. /\ c' \in ClientRecord /\ RunSame /\ c'.pc = p /\ c'.fresh = c.fresh /\ c'.tries = c.tries
    BY <1>1, <2>2, <2>3, Stepping DEF Places
  <2>5. c.lane \in {"native", "snapshot"} BY <1>1 DEF ClientInv, LaneInv, Orchestrated
  <2>6. LaneInv' BY <2>3, <2>4, <2>5 DEF LaneInv, Orchestrated, OnBackend, RunSame, SpecSame
  <2>7. LockInv'
    BY <1>1, <2>1, <2>3, <2>4, LocksKept DEF RunSame, SpecSame
  <2>8. TriesInv' /\ EndInv' BY <1>1, <2>3, <2>4 DEF ClientInv, TriesInv, EndInv
  <2>9. SerialsKnown' BY <2>4, SerialsSame
  <2> QED BY <1>1, <2>3, <2>4, <2>6, <2>7, <2>8, <2>9, MovedOn DEF Orchestrated, OnBackend, Cut
<1> QED BY <1>2, <1>3

-----------------------------------------------------------------------------
(* The backend lane                                                        *)

(* LOCK on the backend lane.                                               *)
LEMMA BackendLockStep ==
  ASSUME ClientInv, Grown, BackendLock
  PROVE  ClientParts'
<1>1. c.pc = "backend" /\ ~ Ran /\ c.lane = "backend" /\ c \in ClientRecord /\ current \in Nat
  BY TrunkKnown DEF BackendLock, At, ClientInv, DoneInv, LaneInv, OnBackend
<1>2. CASE Held # {} /\ Go(End("refused"))
  BY <1>1, <1>2, Quits DEF Go, storeVars
<1>3. CASE AcquireLock(Me) /\ c' = [c EXCEPT !.pc = "locked", !.locked = current]
  <2>1. /\ c' \in ClientRecord /\ RunSame /\ c'.pc = "locked" /\ c'.locked = current /\ c'.fresh = c.fresh /\ c'.tries = c.tries
    BY <1>1, <1>3 DEF ClientRecord, Places, RunSame, SpecSame, PlanSame
  <2>2. locks' = [locks EXCEPT ![Me] = [kind |-> "http", source |-> current]]
    <3>1. TrunkSerial = current BY <1>1 DEF TrunkSerial, NoVersion
    <3> QED BY <1>3, <3>1 DEF AcquireLock
  <2>3. Me \in LockId /\ Other \in LockId /\ Me # Other /\ locks \in [LockId -> LockRow \cup {NoLock}]
    BY ClientAssumption DEF ClientInv, StoreInv, StoreTypeOK
  <2>4. locks'[Me] = [kind |-> "http", source |-> current] /\ locks'[Other] = locks[Other]
    BY <2>2, <2>3
  <2>5. (Other \in Held)' <=> Other \in Held BY <2>3, <2>4 DEF Held
  <2>6. DOMAIN versions \subseteq DOMAIN versions' BY DEF Grown
  <2>7. LockInv' BY <2>1, <2>4, <2>5, <2>6 DEF ClientInv, LockInv, NativeAlone
  <2>8. LaneInv' BY <1>1, <2>1 DEF LaneInv, Orchestrated, OnBackend, RunSame, SpecSame
  <2>9. TriesInv' /\ EndInv' BY <1>1, <2>1 DEF ClientInv, TriesInv, EndInv
  <2>10. SerialsKnown' BY <2>1, SerialsSame
  <2> QED BY <1>1, <2>1, <2>7, <2>8, <2>9, <2>10, MovedOn DEF Orchestrated, OnBackend, Cut
<1> QED BY <1>2, <1>3 DEF BackendLock

(* What Terraform carries out of a plan, in whole or in part.              *)
LEMMA PlanTyped ==
  ASSUME NEW doc, NEW sel
  PROVE  /\ Actions(doc, sel) \in Actish
         /\ \A a \in Addr : Actions(doc, sel)[a] \in {"none", Act(doc.res[a].attr, c.want[a])}
<1>1. PICK acts : acts = Actions(doc, sel) OBVIOUS
<1>2. \A a \in Addr : acts[a] = IF a \in Planned(sel) THEN Act(doc.res[a].attr, c.want[a]) ELSE "none"
  BY <1>1 DEF Actions
<1>3. \A a \in Addr : acts[a] \in Modes BY <1>2, ActMeans DEF Modes
<1>4. acts = [a \in Addr |-> acts[a]] BY <1>1 DEF Actions
<1>5. acts \in Actish BY <1>3, <1>4 DEF Actish
<1> QED BY <1>1, <1>2, <1>5

(* Part of a plan is a plan.                                               *)
LEMMA PartTyped ==
  ASSUME NEW acts \in Actish, NEW kept
  PROVE  [a \in Addr |-> IF a \in kept THEN acts[a] ELSE "none"] \in Actish
BY DEF Actish, Modes

(* terraform apply on the backend lane.                                    *)
LEMMA BackendApplyStep ==
  ASSUME ClientInv, Grown, BackendApply
  PROVE  ClientParts'
<1>1. c.pc = "locked" /\ ~ Ran /\ c.lane = "backend" /\ c \in ClientRecord
      /\ UNCHANGED <<locks, versions, current>>
  BY DEF BackendApply, At, Go, storeVars, ClientInv, DoneInv, LaneInv, OnBackend
<1>2. HasSpec /\ HasPlan /\ PlanShown /\ SpecFits /\ WithinQuota
  BY <1>1 DEF HasSpec, HasPlan, OnBackend, ClientInv, PlanInv, SpecInv, QuotaInv
<1>3. current \in Nat /\ current >= 1 /\ c.from <= current /\ c.from >= 1
  BY <1>2, TrunkKnown DEF ClientInv, SerialsKnown, PlanShown
<1>4. PICK acts : acts = Actions(versions[current], c.write) OBVIOUS
<1>5. PICK kept \in SUBSET Writes(acts) :
        Go([c EXCEPT !.base = current,
                     !.done = [a \in Addr |-> IF a \in kept THEN acts[a] ELSE "none"],
                     !.pc = IF kept = {} THEN "unlocking" ELSE "posting"])
  BY <1>4 DEF BackendApply
<1>6. PICK done, p : done = [a \in Addr |-> IF a \in kept THEN acts[a] ELSE "none"]
                     /\ p = (IF kept = {} THEN "unlocking" ELSE "posting")
  OBVIOUS
<1>7. c' = [c EXCEPT !.base = current, !.done = done, !.pc = p] BY <1>5, <1>6 DEF Go
<1>8. p \in {"unlocking", "posting"} /\ (p = "unlocking" => done = NoActs)
  BY <1>6 DEF NoActs
<1>9. done \in Actish
  <2>1. acts \in Actish BY <1>4, PlanTyped
  <2> QED BY <1>6, <2>1, PartTyped
<1>10. /\ c' \in ClientRecord /\ SpecSame /\ c'.pc = p /\ c'.base = current /\ c'.done = done
       /\ c'.fresh = c.fresh /\ c'.locked = c.locked /\ c'.tries = c.tries
  BY <1>1, <1>3, <1>7, <1>8, <1>9 DEF ClientRecord, Places, SpecSame, PlanSame
<1>11. PlanInv' BY <1>2, <1>10, PlanKept DEF PlanInv, SpecSame
<1>12. SpecInv' BY <1>2, <1>10, SpecKept DEF SpecInv
<1>13. QuotaInv' BY <1>2, <1>3, <1>10, QuotaKept DEF QuotaInv
<1>14. LaneInv' BY <1>1, <1>8, <1>10 DEF LaneInv, Orchestrated, OnBackend, SpecSame
<1>15. BaseInv' BY <1>1, <1>3, <1>8, <1>10 DEF BaseInv, SpecSame, PlanSame
<1>16. DoneInv'
  <2>1. Replan' = acts
    <3>1. Planned(c.write)' = Planned(c.write) BY <1>10 DEF Planned, SpecSame
    <3> QED BY <1>1, <1>4, <1>10, <3>1 DEF Replan, Actions, Act, SpecSame, PlanSame
  <2>2. \A a \in Addr : done[a] \in {"none", acts[a]} BY <1>6
  <2> QED BY <1>1, <1>8, <1>10, <2>1, <2>2 DEF DoneInv, SpecSame
<1>17. TriesInv' BY <1>1, <1>8, <1>10 DEF ClientInv, TriesInv
<1>18. EndInv' BY <1>8, <1>10 DEF EndInv, Ran, NoActs
<1>19. LockInv' BY <1>1, <1>8, <1>10, LocksKept
<1>20. SerialsKnown' BY <1>10, SerialsGrow DEF SpecSame, PlanSame
<1> QED BY <1>10, <1>11, <1>12, <1>13, <1>14, <1>15, <1>16, <1>17, <1>18, <1>19, <1>20 DEF ClientParts

(* A quota that was previewed is exceeded only when the trunk moved, or    *)
(* not all that was planned was done.                                      *)
LEMMA BackendQuota ==
  ASSUME ClientInv, c.pc = "posting", ~ Admitted(Carried(versions[c.base], c.done))
  PROVE  Unpreviewed \/ (c.lane = "backend" /\ c.done # c.acts) \/ current > c.from
<1>1. c \in ClientRecord /\ c.lane = "backend" /\ c.want \in Configs /\ c.done \in Actish
  BY DEF ClientInv, LaneInv, OnBackend, ClientRecord
<1>2. /\ c.base \in Nat /\ c.from \in Nat /\ current \in Nat /\ c.base <= current /\ c.from <= current
      /\ c.base >= 1 /\ c.from <= c.base
  BY DEF ClientInv, SerialsKnown, BaseInv, ClientRecord
<1>3. SUFFICES ASSUME ~ Unpreviewed, c.done = c.acts, ~ (current > c.from) PROVE FALSE
  BY <1>1
<1>4. current = c.from /\ c.base = c.from BY <1>2, <1>3
<1>5. ~ Exceeds(Count(versions[c.from]) + PlannedDelta)
  BY <1>3, <1>4 DEF ClientInv, QuotaInv, OnBackend, WithinQuota
<1>6. versions[c.base] \in Doc BY <1>2, SerialsAreVersions DEF ClientInv
<1>7. \A a \in Addr : c.done[a] \in {"none", Act(versions[c.base].res[a].attr, c.want[a])}
  <2>1. CASE Ran
    <3>1. \A a \in Addr : c.done[a] \in {"none", Replan[a]} BY <2>1 DEF ClientInv, DoneInv
    <3>2. \A a \in Addr : Replan[a] \in {"none", Act(versions[c.base].res[a].attr, c.want[a])}
      BY PlanTyped DEF Replan
    <3> QED BY <3>1, <3>2
  <2>2. CASE ~ Ran BY <2>2 DEF Ran, NoActs
  <2> QED BY <2>1, <2>2
<1>8. Count(Carried(versions[c.base], c.done))
        = Count(versions[c.base]) + Cardinality(Created(c.done)) - Cardinality(Deleted(c.done))
  BY <1>1, <1>6, <1>7, CarriedCounts
<1>9. PlannedDelta = Cardinality(Created(c.done)) - Cardinality(Deleted(c.done))
  BY <1>3 DEF PlannedDelta, Created, Deleted
<1>10. /\ Cardinality(Created(c.done)) \in Nat /\ Cardinality(Deleted(c.done)) \in Nat
       /\ Count(versions[c.base]) \in Nat
  BY FiniteParts DEF Created, Deleted, Count
<1>11. Count(Carried(versions[c.base], c.done)) = Count(versions[c.from]) + PlannedDelta
  BY <1>4, <1>8, <1>9, <1>10
<1> QED BY <1>5, <1>11 DEF Admitted

(* POST on the backend lane: each way it is refused is a reason.           *)
LEMMA BackendPostStep ==
  ASSUME ClientInv, Grown, BackendPost
  PROVE  ClientParts'
<1>1. c.pc = "posting" /\ c.lane = "backend" /\ c \in ClientRecord
  BY DEF BackendPost, At, ClientInv, LaneInv, OnBackend
<1>2. Me \in LockId /\ Other \in LockId /\ Me # Other /\ locks \in [LockId -> LockRow \cup {NoLock}]
      /\ locks[Me] = [kind |-> "http", source |-> c.locked] /\ current \in Nat /\ current >= 1
  BY <1>1, ClientAssumption, TrunkKnown DEF ClientInv, StoreInv, StoreTypeOK, LockInv
<1>3. PICK doc : doc = Carried(versions[c.base], c.done) OBVIOUS
<1>4. PICK h \in {"committed", "quota", "conflict"} :
        /\ c' = [c EXCEPT !.pc = "unlocking", !.how = h]
        /\ h = "committed" => WriteState(Me, doc)
        /\ h = "quota" => ~ Admitted(doc) /\ UNCHANGED storeVars
        /\ h = "conflict" => ~ MergePasses(Me, doc) /\ UNCHANGED storeVars
  <2>1. CASE Admitted(doc) /\ WriteState(Me, doc) /\ c' = [c EXCEPT !.pc = "unlocking", !.how = "committed"]
    BY <2>1
  <2>2. CASE ~ Admitted(doc) /\ Go([c EXCEPT !.pc = "unlocking", !.how = "quota"]) BY <2>2 DEF Go
  <2>3. CASE ~ MergePasses(Me, doc) /\ Go([c EXCEPT !.pc = "unlocking", !.how = "conflict"]) BY <2>3 DEF Go
  <2> QED BY <1>3, <2>1, <2>2, <2>3 DEF BackendPost
<1>5. /\ c' \in ClientRecord /\ RunSame /\ c'.pc = "unlocking" /\ c'.how = h /\ c'.locked = c.locked
      /\ c'.fresh = c.fresh /\ c'.tries = c.tries
  BY <1>1, <1>4, StepTo DEF Places, Outcomes
<1>6. EndInv'
  <2>1. CASE h = "committed" BY <1>5, <2>1 DEF EndInv, Explained
  <2>2. CASE h = "quota"
    <3>1. Unpreviewed \/ (c.lane = "backend" /\ c.done # c.acts) \/ current > c.from
      BY <1>1, <1>3, <1>4, <2>2, BackendQuota
    <3>2. Unpreviewed' = Unpreviewed BY <1>5 DEF Unpreviewed, RunSame, SpecSame, PlanSame
    <3>3. UNCHANGED current BY <1>4, <2>2 DEF storeVars
    <3> QED BY <1>5, <2>2, <3>1, <3>2, <3>3 DEF EndInv, Explained, RunSame, SpecSame, PlanSame
  <2>3. CASE h = "conflict"
    <3>1. MustMerge(Me) /\ UNCHANGED current BY <1>4, <2>3 DEF MergePasses, storeVars
    <3>2. current > c.locked
      <4>1. TrunkSerial = current BY <1>2 DEF TrunkSerial, NoVersion
      <4> QED BY <1>2, <3>1, <4>1 DEF MustMerge
    <3> QED BY <1>5, <2>3, <3>1, <3>2 DEF EndInv, Explained
  <2> QED BY <2>1, <2>2, <2>3
<1>7. LockInv'
  <2>1. PICK row : locks' = [locks EXCEPT ![Me] = row]
    <3>1. CASE h = "committed"
      <4>1. locks' = [locks EXCEPT ![Me].source = NextSerial] \/ locks' = locks
        BY <1>4, <3>1 DEF WriteState
      <4>2. locks = [locks EXCEPT ![Me] = locks[Me]] BY <1>2
      <4> QED BY <4>1, <4>2
    <3>2. CASE h # "committed"
      <4>1. locks' = [locks EXCEPT ![Me] = locks[Me]] BY <1>2, <1>4, <3>2 DEF storeVars
      <4> QED BY <4>1
    <3> QED BY <3>1, <3>2
  <2> QED BY <1>5, <2>1, OwnLock
<1>8. LaneInv' BY <1>1, <1>5 DEF LaneInv, Orchestrated, OnBackend, RunSame, SpecSame
<1>9. TriesInv' BY <1>1, <1>5 DEF ClientInv, TriesInv
<1>10. SerialsKnown' BY <1>5, SerialsSame
<1> QED BY <1>1, <1>5, <1>6, <1>7, <1>8, <1>9, <1>10, MovedOn DEF Orchestrated, OnBackend, Cut

(* UNLOCK on the backend lane.                                             *)
LEMMA BackendUnlockStep ==
  ASSUME ClientInv, Grown, BackendUnlock
  PROVE  ClientParts'
<1>1. c.pc = "unlocking" /\ c.lane = "backend" /\ c \in ClientRecord /\ c' = [c EXCEPT !.pc = "done"]
      /\ locks' = [locks EXCEPT ![Me] = NoLock]
  BY DEF BackendUnlock, ReleaseLock, At, ClientInv, LaneInv, OnBackend
<1>2. /\ c' \in ClientRecord /\ RunSame /\ c'.pc = "done" /\ c'.how = c.how /\ c'.locked = c.locked
      /\ c'.fresh = c.fresh /\ c'.tries = c.tries
  BY <1>1, Stepping DEF Places
<1>3. Ran' <=> Ran BY <1>2 DEF RunSame, Ran, NoActs
<1>4. EndInv' BY <1>1, <1>2, <1>3, ReasonKept DEF EndInv, ClientInv
<1>5. LockInv' BY <1>1, <1>2, OwnLock
<1>6. LaneInv' BY <1>1, <1>2, <1>3 DEF LaneInv, Orchestrated, OnBackend, RunSame, SpecSame
<1>7. TriesInv' BY <1>1, <1>2 DEF ClientInv, TriesInv
<1>8. SerialsKnown' BY <1>2, SerialsSame
<1> QED BY <1>1, <1>2, <1>4, <1>5, <1>6, <1>7, <1>8, MovedOn DEF Orchestrated, OnBackend, Cut

-----------------------------------------------------------------------------
(* The orchestrated lanes                                                  *)

(* What the replan wants was planned, and shown where nothing changed.     *)
LEMMA ReplanShown ==
  ASSUME ClientInv, PlanShown, SpecFits, NEW a \in Addr, Replan[a] # "none"
  PROVE  /\ a \in Planned(Selected) /\ a \in Planned(c.write)
         /\ Replan[a] = Act(versions[c.base].res[a].attr, c.want[a])
         /\ versions[c.base].res[a].attr = versions[c.from].res[a].attr => c.acts[a] = Replan[a]
<1>1. Replan[a] = IF a \in Planned(c.write) THEN Act(versions[c.base].res[a].attr, c.want[a]) ELSE "none"
  BY DEF Replan, Actions
<1>2. a \in Planned(c.write) BY <1>1
<1>3. c.write \subseteq Writes(c.acts) BY DEF SpecFits, ScopedWrites
<1>4. \A b \in Addr : Shown(b) BY DEF PlanShown
<1>5. \A b \in c.write : b \in Planned(Selected) BY <1>3, <1>4 DEF Shown, Writes
<1>6. Selected \subseteq Addr
  BY ClientAssumption DEF Selected, ClientInv, ClientRecord
<1>7. a \in Planned(Selected)
  <2>1. PICK b \in c.write : a = b \/ a \in Needs[b] BY <1>2 DEF Planned
  <2>2. CASE a = b BY <1>5, <2>1, <2>2
  <2>3. CASE a \in Needs[b]
    <3>1. b \in Addr BY <1>3 DEF Writes
    <3>2. PICK d \in Selected : b = d \/ b \in Needs[d] BY <1>5 DEF Planned
    <3>3. a \in Needs[d] BY <1>6, <2>3, <3>1, <3>2, ClientAssumption
    <3> QED BY <3>2, <3>3 DEF Planned
  <2> QED BY <2>1, <2>2, <2>3
<1>8. ASSUME versions[c.base].res[a].attr = versions[c.from].res[a].attr PROVE c.acts[a] = Replan[a]
  <2>1. Replan[a] = Act(versions[c.from].res[a].attr, c.want[a]) BY <1>1, <1>2, <1>8
  <2> QED BY <1>4, <1>7, <2>1 DEF Shown
<1> QED BY <1>1, <1>2, <1>7, <1>8

(* Deletions are never cut off by the file scope: they are refused.        *)
LEMMA DeletesKept ==
  ASSUME ClientInv, SpecFits, NEW a \in Addr, c.acts[a] = "delete", c.want[a] = NoAttr
  PROVE  a \in c.write
<1>1. SUFFICES ASSUME a \notin ScopedWrites PROVE FALSE BY DEF SpecFits
<1>2. a \in Writes(c.acts) /\ ~ Kept(a) BY <1>1 DEF ScopedWrites, Writes
<1>3. c.cmd.mode = "file" BY <1>2 DEF Kept
<1>4. a \in {x \in Destructive(c.acts) \ ScopedWrites : Unowned(x)} BY <1>1 DEF Destructive, Unowned
<1> QED BY <1>3, <1>4 DEF SpecFits, OutOfScope

(* More instances exceed a limit that fewer do.                            *)
LEMMA ExceedsGrows ==
  ASSUME NEW m \in Int, NEW n \in Int, m <= n, Exceeds(m) PROVE Exceeds(n)
<1>1. SoftLimit \in Nat BY ClientAssumption
<1>2. (SoftLimit + 1) \div 2 \in Int BY <1>1
<1>3. HardLimit \in Int BY <1>1, <1>2 DEF HardLimit
<1> QED BY <1>3 DEF Exceeds

(* The limit counts attributes, not what only raw_state carries.           *)
LEMMA CountByAttr ==
  ASSUME NEW d, NEW e, \A a \in Addr : d.res[a].attr = e.res[a].attr PROVE Count(d) = Count(e)
BY DEF Count

(* A quota that was previewed is exceeded only when the trunk moved.       *)
LEMMA PreviewHolds ==
  ASSUME ClientInv, c.pc = "committing", NEW doc, ~ Admitted(doc),
         \A a \in Addr : doc.res[a].attr = AppliedState.res[a].attr
  PROVE  current > c.from
<1>1. /\ c \in ClientRecord /\ c.lane # "backend" /\ c.want \in Configs /\ c.done \in Actish
      /\ c.done = Replan /\ HasSpec /\ HasPlan
  BY DEF ClientInv, LaneInv, Orchestrated, ClientRecord, DoneInv, HasSpec, HasPlan
<1>2. /\ c.base \in Nat /\ c.from \in Nat /\ current \in Nat /\ c.base <= current /\ c.from <= current
      /\ c.base >= 1 /\ c.from <= c.base
  BY DEF ClientInv, SerialsKnown, BaseInv, ClientRecord
<1>3. SUFFICES ASSUME ~ (current > c.from) PROVE FALSE
  BY <1>1
<1>4. current = c.from /\ c.base = c.from BY <1>2, <1>3
<1>5. ~ Exceeds(Count(versions[c.from]) + PlannedDelta)
  BY <1>1, <1>4 DEF ClientInv, QuotaInv, Orchestrated, WithinQuota, Unpreviewed
<1>6. versions[c.base] \in Doc BY <1>2, SerialsAreVersions DEF ClientInv
<1>7. PlanShown /\ SpecFits BY <1>1 DEF ClientInv, PlanInv, SpecInv
<1>8. Count(AppliedState) = Count(versions[c.base]) + Cardinality(Created(c.done)) - Cardinality(Deleted(c.done))
  <2>1. \A a \in Addr : c.done[a] \in {"none", Act(versions[c.base].res[a].attr, c.want[a])}
    BY <1>1, PlanTyped DEF Replan
  <2> QED BY <1>1, <1>6, <2>1, CarriedCounts DEF AppliedState
<1>9. Created(c.done) \subseteq Created(c.acts)
  BY <1>1, <1>4, <1>7, ReplanShown DEF Created
<1>10. Deleted(c.acts) \subseteq Deleted(c.done)
  <2>1. SUFFICES ASSUME NEW a \in Addr, c.acts[a] = "delete" PROVE c.done[a] = "delete" BY DEF Deleted
  <2>2. Shown(a) BY <1>7 DEF PlanShown
  <2>3. Act(versions[c.from].res[a].attr, c.want[a]) = "delete" BY <2>1, <2>2 DEF Shown
  <2>4. c.want[a] = NoAttr BY <2>3, ActMeans
  <2>5. a \in c.write BY <1>7, <2>1, <2>4, DeletesKept
  <2>6. a \in Planned(c.write) BY <2>5 DEF Planned
  <2>7. Replan[a] = Act(versions[c.base].res[a].attr, c.want[a]) BY <2>6 DEF Replan, Actions
  <2> QED BY <1>1, <1>4, <2>3, <2>7
<1>11. Cardinality(Created(c.done)) <= Cardinality(Created(c.acts))
  BY <1>9, FiniteParts, FS_Subset DEF Created
<1>12. Cardinality(Deleted(c.acts)) <= Cardinality(Deleted(c.done))
  BY <1>10, FiniteParts, FS_Subset DEF Deleted
<1>13. PlannedDelta = Cardinality(Created(c.acts)) - Cardinality(Deleted(c.acts))
  BY DEF PlannedDelta, Created, Deleted
<1>14. /\ Cardinality(Created(c.done)) \in Nat /\ Cardinality(Deleted(c.done)) \in Nat
       /\ Cardinality(Created(c.acts)) \in Nat /\ Cardinality(Deleted(c.acts)) \in Nat
       /\ Count(versions[c.base]) \in Nat
  BY FiniteParts DEF Created, Deleted, Count
<1>15. PICK m, n : m = Count(AppliedState) /\ n = Count(versions[c.from]) + PlannedDelta OBVIOUS
<1>16. m <= n /\ m \in Int /\ n \in Int
  BY <1>4, <1>8, <1>11, <1>12, <1>13, <1>14, <1>15
<1>17. Exceeds(m)
  <2>1. Count(doc) = Count(AppliedState) BY CountByAttr
  <2> QED BY <1>15, <2>1 DEF Admitted
<1> QED BY <1>5, <1>15, <1>16, <1>17, ExceedsGrows

(* The coarse lock is taken on a state without locks.                      *)
LEMMA CoarseLockStep ==
  ASSUME ClientInv, Grown, CoarseLock
  PROVE  ClientParts'
<1>1. c.pc = "begin" /\ ~ Ran /\ c \in ClientRecord /\ c.lane \in {"native", "snapshot"}
  BY DEF CoarseLock, At, ClientInv, DoneInv, LaneInv, Orchestrated
<1>2. CASE Held # {} /\ Go(End("refused"))
  BY <1>1, <1>2, Quits DEF Go, storeVars
<1>3. CASE AcquireStateEngineLock(Me) /\ c' = [c EXCEPT !.pc = "reserve"]
  <2>1. /\ c' \in ClientRecord /\ RunSame /\ c'.pc = "reserve" /\ c'.fresh = c.fresh /\ c'.tries = c.tries
    BY <1>1, <1>3, Stepping DEF Places
  <2>2. Held = {} /\ locks' = [locks EXCEPT ![Me] = [kind |-> "engine", source |-> 0]]
    BY <1>3 DEF AcquireStateEngineLock
  <2>3. Me \in LockId /\ Other \in LockId /\ Me # Other /\ locks \in [LockId -> LockRow \cup {NoLock}]
    BY ClientAssumption DEF ClientInv, StoreInv, StoreTypeOK
  <2>4. locks'[Me].kind = "engine" /\ \A l \in LockId : l # Me => locks'[l] = NoLock
    BY <2>2, <2>3 DEF Held
  <2>5. Held' = {Me} BY <2>3, <2>4 DEF Held, NoLock
  <2>6. LockInv' BY <2>1, <2>3, <2>4, <2>5 DEF LockInv, NativeAlone
  <2>7. LaneInv' BY <1>1, <2>1 DEF LaneInv, Orchestrated, OnBackend, RunSame, SpecSame
  <2>8. TriesInv' /\ EndInv' BY <1>1, <2>1 DEF ClientInv, TriesInv, EndInv
  <2>9. SerialsKnown' BY <2>1, SerialsSame
  <2> QED BY <1>1, <2>1, <2>6, <2>7, <2>8, <2>9, MovedOn DEF Orchestrated, OnBackend, Cut
<1> QED BY <1>2, <1>3 DEF CoarseLock

(* The reservations.                                                       *)
LEMMA ReserveStep ==
  ASSUME ClientInv, Grown, Reserve
  PROVE  ClientParts'
<1>1. c.pc = "reserve" /\ ~ Ran /\ c \in ClientRecord /\ c.lane \in {"native", "snapshot"}
      /\ UNCHANGED locks /\ c' = [c EXCEPT !.pc = "guard"]
  BY DEF Reserve, At, Go, storeVars, ClientInv, DoneInv, LaneInv, Orchestrated
<1>2. /\ c' \in ClientRecord /\ RunSame /\ c'.pc = "guard" /\ c'.fresh = c.fresh /\ c'.tries = c.tries
  BY <1>1, Stepping DEF Places
<1>3. LockInv' BY <1>1, <1>2, LocksKept DEF RunSame, SpecSame
<1>4. LaneInv' BY <1>1, <1>2 DEF LaneInv, Orchestrated, OnBackend, RunSame, SpecSame
<1>5. TriesInv' /\ EndInv' BY <1>1, <1>2 DEF ClientInv, TriesInv, EndInv
<1>6. SerialsKnown' BY <1>2, SerialsSame
<1> QED BY <1>1, <1>2, <1>3, <1>4, <1>5, <1>6, MovedOn DEF Orchestrated, OnBackend, Cut

(* A run that stops with its locks and reservations still held.            *)
LEMMA Stops ==
  ASSUME ClientInv, Grown, NEW h \in Outcomes, c.pc \in {"guard", "terraform", "merging", "committing"},
         UNCHANGED locks, c' = Stop(h), Ran => Explained'
  PROVE  ClientParts'
<1>1. c \in ClientRecord /\ c.lane \in {"native", "snapshot"} /\ c' = [c EXCEPT !.pc = "closing", !.how = h]
  BY DEF ClientInv, LaneInv, Orchestrated, Stop
<1>2. /\ c' \in ClientRecord /\ RunSame /\ c'.pc = "closing" /\ c'.fresh = c.fresh /\ c'.tries = c.tries
  BY <1>1, StepTo DEF Places
<1>3. Ran' <=> Ran BY <1>2 DEF RunSame, Ran, NoActs
<1>4. LockInv' BY <1>1, <1>2, LocksKept DEF RunSame, SpecSame
<1>5. LaneInv' BY <1>1, <1>2 DEF LaneInv, Orchestrated, OnBackend, RunSame, SpecSame
<1>6. TriesInv' BY <1>2 DEF TriesInv
<1>7. EndInv' BY <1>3 DEF EndInv
<1>8. SerialsKnown' BY <1>2, SerialsSame
<1> QED BY <1>1, <1>2, <1>4, <1>5, <1>6, <1>7, <1>8, MovedOn DEF Orchestrated, OnBackend, Cut

(* The staleness guard compares the read sets of the two versions.         *)
LEMMA GuardStep ==
  ASSUME ClientInv, Grown, Guard
  PROVE  ClientParts'
<1>1. c.pc = "guard" /\ ~ Ran /\ c \in ClientRecord /\ c.lane \in {"native", "snapshot"}
      /\ UNCHANGED <<locks, versions, current>>
  BY DEF Guard, At, Go, storeVars, ClientInv, DoneInv, LaneInv, Orchestrated
<1>2. CASE Stale
  <2>1. c' = Stop("refused") BY <1>2 DEF Guard, Go
  <2> QED BY <1>1, <2>1, Stops DEF Outcomes
<1>3. CASE ~ Stale
  <2>1. c' = [c EXCEPT !.pc = "terraform", !.base = current] BY <1>3 DEF Guard, Go
  <2>2. HasSpec /\ HasPlan /\ PlanShown /\ SpecFits /\ WithinQuota
    BY <1>1 DEF HasSpec, HasPlan, Orchestrated, ClientInv, PlanInv, SpecInv, QuotaInv
  <2>3. current \in Nat /\ current >= 1 /\ c.from <= current /\ c.from >= 1 /\ c.pin <= current /\ c.pin \in Nat
    BY <1>1, <2>2, TrunkKnown DEF ClientInv, SerialsKnown, PlanShown, ClientRecord
  <2>4. /\ c' \in ClientRecord /\ SpecSame /\ c'.pc = "terraform" /\ c'.base = current /\ c'.done = c.done
        /\ c'.fresh = c.fresh /\ c'.locked = c.locked /\ c'.tries = c.tries
    BY <1>1, <2>1, <2>3 DEF ClientRecord, Places, SpecSame, PlanSame
  <2>5. ~ Ran' BY <1>1, <2>4 DEF Ran, NoActs
  <2>6. PlanInv' BY <2>2, <2>4, PlanKept DEF PlanInv, SpecSame
  <2>7. SpecInv' BY <2>2, <2>4, SpecKept DEF SpecInv
  <2>8. QuotaInv' BY <2>2, <2>3, <2>4, QuotaKept DEF QuotaInv
  <2>9. LaneInv' BY <1>1, <2>4 DEF LaneInv, Orchestrated, OnBackend, SpecSame
  <2>10. ReadSetIntact'
    <3>1. c.pin > 0 => \A a \in GroupClosure(c.read) : versions[c.pin].res[a] = versions[current].res[a]
      <4>1. CASE current = c.pin BY <4>1
      <4>2. CASE current > c.pin
        <5>1. c.pin > 0 => ChangedReadSet(versions[c.pin], versions[current], c.read) = {}
          BY <1>3, <4>2 DEF Stale
        <5> QED BY <5>1 DEF ChangedReadSet
      <4> QED BY <2>3, <4>1, <4>2
    <3>2. GroupClosure(c.read)' = GroupClosure(c.read) BY <2>4 DEF GroupClosure, Groups, SpecSame
    <3>3. c'.pin = c.pin BY <2>4 DEF SpecSame, PlanSame
    <3> QED BY <1>1, <2>4, <3>1, <3>2, <3>3 DEF ReadSetIntact
  <2>11. BaseInv' BY <2>3, <2>4, <2>10 DEF BaseInv, SpecSame, PlanSame
  <2>12. DoneInv' BY <2>4, <2>5 DEF DoneInv
  <2>13. TriesInv' BY <1>1, <2>4 DEF ClientInv, TriesInv
  <2>14. EndInv' BY <2>4 DEF EndInv
  <2>15. LockInv' BY <1>1, <2>4, LocksKept DEF SpecSame
  <2>16. SerialsKnown' BY <2>4, SerialsGrow DEF SpecSame, PlanSame
  <2> QED BY <2>4, <2>6, <2>7, <2>8, <2>9, <2>11, <2>12, <2>13, <2>14, <2>15, <2>16 DEF ClientParts
<1> QED BY <1>2, <1>3

(* The replan must want the groups of the write set; what it wants is      *)
(* done, in part or in whole.                                              *)
LEMMA RunTerraformStep ==
  ASSUME ClientInv, Grown, RunTerraform
  PROVE  ClientParts'
<1>1. c.pc = "terraform" /\ ~ Ran /\ c \in ClientRecord /\ c.lane \in {"native", "snapshot"}
      /\ UNCHANGED <<locks, versions, current>>
  BY DEF RunTerraform, At, Go, storeVars, ClientInv, DoneInv, LaneInv, Orchestrated
<1>2. CASE Groups(Writes(Replan)) # Groups(c.write)
  <2>1. c' = Stop("refused") BY <1>2 DEF RunTerraform, Go
  <2> QED BY <1>1, <2>1, Stops DEF Outcomes
<1>3. CASE Groups(Writes(Replan)) = Groups(c.write)
  <2>1. PICK plan : plan = Replan OBVIOUS
  <2>2. plan \in Actish BY <2>1, PlanTyped DEF Replan
  <2>3. PICK done, p, h :
          /\ c' = [c EXCEPT !.pc = p, !.how = h, !.done = done]
          /\ done \in Actish /\ \A a \in Addr : done[a] \in {"none", plan[a]}
          /\ \/ p = "merging" /\ h = c.how /\ done = plan
             \/ p = "closing" /\ h = "terraform"
    <3>1. CASE Go([c EXCEPT !.pc = "merging", !.done = Replan])
      <4>1. c' = [c EXCEPT !.pc = "merging", !.how = c.how, !.done = plan]
        BY <1>1, <2>1, <3>1 DEF Go, ClientRecord
      <4> QED BY <2>2, <4>1
    <3>2. CASE \E kept \in SUBSET Writes(Replan) :
                 Go([Stop("terraform") EXCEPT
                       !.done = [a \in Addr |-> IF a \in kept THEN Replan[a] ELSE "none"]])
      <4>1. PICK kept : Go([Stop("terraform") EXCEPT
                       !.done = [a \in Addr |-> IF a \in kept THEN Replan[a] ELSE "none"]])
        BY <3>2
      <4>2. PICK part : part = [a \in Addr |-> IF a \in kept THEN plan[a] ELSE "none"] OBVIOUS
      <4>3. c' = [[c EXCEPT !.pc = "closing", !.how = "terraform"] EXCEPT !.done = part]
        BY <2>1, <4>1, <4>2 DEF Go, Stop
      <4>4. c' = [c EXCEPT !.pc = "closing", !.how = "terraform", !.done = part] BY <4>3
      <4>5. part \in Actish BY <2>2, <4>2, PartTyped
      <4>6. \A a \in Addr : part[a] \in {"none", plan[a]} BY <4>2
      <4> WITNESS part, "closing", "terraform"
      <4> QED BY <4>4, <4>5, <4>6
    <3> QED BY <1>3, <3>1, <3>2 DEF RunTerraform
  <2>4. HasSpec /\ HasPlan /\ PlanShown /\ SpecFits /\ WithinQuota /\ ReadSetIntact
    BY <1>1 DEF HasSpec, HasPlan, Orchestrated, ClientInv, PlanInv, SpecInv, QuotaInv, BaseInv
  <2>5. /\ current \in Nat /\ c.from >= 1 /\ c.base \in Nat /\ c.base >= 1 /\ c.from <= c.base /\ c.base <= current
        /\ c.tries = 0
    BY <1>1, <2>4, TrunkKnown DEF ClientInv, SerialsKnown, PlanShown, ClientRecord, BaseInv, TriesInv
  <2>6. /\ c' \in ClientRecord /\ SpecSame /\ c'.pc = p /\ c'.how = h /\ c'.base = c.base /\ c'.done = done
        /\ c'.fresh = c.fresh /\ c'.locked = c.locked /\ c'.tries = c.tries
    <3>1. p \in Places /\ h \in Outcomes BY <1>1, <2>3 DEF Places, Outcomes, ClientRecord
    <3> QED BY <1>1, <2>3, <3>1 DEF ClientRecord, SpecSame, PlanSame
  <2>7. Replan' = plan BY <2>1, <2>5, <2>6, ReplanKept
  <2>8. PlanInv' BY <2>4, <2>6, PlanKept DEF PlanInv, SpecSame
  <2>9. SpecInv' BY <2>4, <2>6, SpecKept DEF SpecInv
  <2>10. QuotaInv' BY <2>4, <2>5, <2>6, QuotaKept DEF QuotaInv
  <2>11. LaneInv' BY <1>1, <2>3, <2>6 DEF LaneInv, Orchestrated, OnBackend, SpecSame
  <2>12. ReadSetIntact' BY <2>4, <2>5, <2>6, GuardKept
  <2>13. BaseInv' BY <2>5, <2>6, <2>12 DEF BaseInv, SpecSame, PlanSame
  <2>14. DoneInv'
    <3>1. Writes(plan)' = Writes(plan) BY DEF Writes
    <3>2. c'.write = c.write BY <2>6 DEF SpecSame
    <3>3. Groups(Writes(plan)) = Groups(c.write) BY <1>3, <2>1
    <3>4. Groups(Writes(Replan))' = Groups(c.write)' BY <2>7, <3>2, <3>3 DEF Writes, Groups
    <3>5. c'.pc \in {"merging", "committing"} =>
             c'.done = Replan' /\ Groups(Writes(c.done))' = Groups(c.write)'
      BY <2>3, <2>6, <2>7, <3>2, <3>3 DEF Writes, Groups
    <3> QED BY <2>3, <2>6, <2>7, <3>4, <3>5 DEF DoneInv
  <2>15. TriesInv' BY <1>1, <2>3, <2>5, <2>6 DEF TriesInv
  <2>16. EndInv' BY <2>3, <2>6 DEF EndInv, Explained
  <2>17. LockInv' BY <1>1, <2>3, <2>6, LocksKept DEF SpecSame
  <2>18. SerialsKnown' BY <2>6, SerialsGrow DEF SpecSame, PlanSame
  <2> QED BY <2>6, <2>8, <2>9, <2>10, <2>11, <2>13, <2>14, <2>15, <2>16, <2>17, <2>18 DEF ClientParts
<1> QED BY <1>2, <1>3

(* The reasons a run stops for are explained.                              *)
LEMMA StoppedFor ==
  ASSUME ClientInv, NEW h, c' = Stop(h), UNCHANGED current,
         \/ h \in {"terraform", "committed"}
         \/ h = "intent" /\ \E a \in Indexed : c.done[a] = "delete"
         \/ h = "quota" /\ current > c.from
         \/ h = "retries" /\ current >= c.base + MaxCommitRetries
  PROVE  Explained'
<1>1. /\ c'.how = h /\ c'.done = c.done /\ c'.from = c.from /\ c'.base = c.base
  BY DEF Stop, ClientInv, ClientRecord
<1>2. CASE h \in {"terraform", "committed"} BY <1>1, <1>2 DEF Explained
<1>3. CASE h = "intent" /\ \E a \in Indexed : c.done[a] = "delete" BY <1>1, <1>3 DEF Explained
<1>4. CASE h = "quota" /\ current > c.from BY <1>1, <1>4 DEF Explained
<1>5. CASE h = "retries" /\ current >= c.base + MaxCommitRetries BY <1>1, <1>5 DEF Explained
<1> QED BY <1>2, <1>3, <1>4, <1>5

(* The trunk the commit goes on top of; each retry was lost to a newer     *)
(* one.                                                                    *)
LEMMA ReadFreshStep ==
  ASSUME ClientInv, Grown, ReadFresh
  PROVE  ClientParts'
<1>1. c.pc = "merging" /\ c \in ClientRecord /\ c.lane \in {"native", "snapshot"}
      /\ UNCHANGED <<locks, versions, current>>
  BY DEF ReadFresh, At, Go, storeVars, ClientInv, LaneInv, Orchestrated
<1>2. Groups(Writes(c.done)) = Groups(c.write) BY <1>1 DEF ClientInv, DoneInv
<1>3. CASE c.lane = "native" /\ Untrusted
  <2>1. c' = Stop("intent") BY <1>3 DEF ReadFresh, Go
  <2>2. \E a \in Indexed : c.done[a] = "delete" BY <1>2, <1>3 DEF Untrusted
  <2>3. Explained' BY <1>1, <2>1, <2>2, StoppedFor
  <2> QED BY <1>1, <2>1, <2>3, Stops DEF Outcomes
<1>4. CASE ~ (c.lane = "native" /\ Untrusted)
  <2>1. c' = [c EXCEPT !.pc = "committing", !.fresh = current] BY <1>4 DEF ReadFresh, Go
  <2>2. current \in Nat /\ c.base \in Nat /\ c.tries \in Nat /\ current >= c.base + c.tries
    BY <1>1, TrunkKnown DEF ClientInv, ClientRecord, TriesInv
  <2>3. /\ c' \in ClientRecord /\ RunSame /\ c'.pc = "committing" /\ c'.fresh = current /\ c'.tries = c.tries
    BY <1>1, <2>1, <2>2 DEF ClientRecord, Places, RunSame, SpecSame, PlanSame
  <2>4. TriesInv' BY <2>2, <2>3 DEF TriesInv, RunSame
  <2>5. LaneInv' BY <1>1, <2>3 DEF LaneInv, Orchestrated, OnBackend, RunSame, SpecSame
  <2>6. LockInv' BY <1>1, <2>3, LocksKept DEF RunSame, SpecSame
  <2>7. EndInv' BY <2>3 DEF EndInv
  <2>8. SerialsKnown' BY <2>3, SerialsSame
  <2> QED BY <1>1, <2>3, <2>4, <2>5, <2>6, <2>7, <2>8, MovedOn DEF Orchestrated, OnBackend, Cut
<1> QED BY <1>3, <1>4

(* What the native lane stores has, by attribute, the applied state where  *)
(* the run started on the trunk it commits to.                             *)
LEMMA DeltaCounts ==
  ASSUME ClientInv, c.pc = "committing", current = c.base, NEW a \in Addr
  PROVE  RebuiltRes(AppliedState.res, DeltaAddresses)[a].attr = AppliedState.res[a].attr
<1>1. OpenAttr(a) = versions[current].res[a].attr BY RowsMirrorTrunk DEF ClientInv
<1>2. RebuiltRes(AppliedState.res, DeltaAddresses)[a].attr
        = IF a \in DeltaAddresses THEN AppliedState.res[a].attr ELSE OpenAttr(a)
  BY DEF RebuiltRes
<1>3. a \notin DeltaAddresses => AppliedState.res[a] = versions[c.base].res[a]
  <2>1. c.want \in Configs /\ versions[c.base] \in Doc
    BY SerialsAreVersions DEF ClientInv, ClientRecord, BaseInv, SerialsKnown
  <2>2. AppliedState.res[a] = IF c.done[a] = "none" THEN versions[c.base].res[a]
                              ELSE [attr |-> c.want[a], meta |-> NoMeta]
    BY <2>1, CarriedIsDoc DEF AppliedState
  <2> QED BY <2>2 DEF DeltaAddresses, Writes
<1> QED BY <1>1, <1>2, <1>3

(* The delta commit of the native lane.                                    *)
LEMMA CommitNativeStep ==
  ASSUME ClientInv, Grown, CommitNative
  PROVE  ClientParts'
<1>1. c.pc = "committing" /\ c.lane = "native"
  BY DEF CommitNative, At
<1>2. PICK doc : doc = [AppliedState EXCEPT !.res = RebuiltRes(AppliedState.res, DeltaAddresses)] OBVIOUS
<1>3. CASE Admitted(doc)
  <2>1. c' = Stop("committed") /\ UNCHANGED locks
    BY <1>2, <1>3 DEF CommitNative, CommitOf, WriteStateEngineDeltaForApply
  <2>2. Explained' BY <2>1 DEF Explained, Stop, ClientInv, ClientRecord
  <2> QED BY <1>1, <2>1, <2>2, Stops DEF Outcomes
<1>4. CASE ~ Admitted(doc)
  <2>1. c' = Stop("quota") /\ UNCHANGED <<locks, current>>
    BY <1>2, <1>4 DEF CommitNative, CommitOf, Go, storeVars
  <2>2. current > c.from
    <3>1. /\ c.base \in Nat /\ c.from \in Nat /\ current \in Nat /\ c.base <= current /\ c.from <= c.base
      BY <1>1 DEF ClientInv, SerialsKnown, BaseInv, ClientRecord
    <3>2. CASE current # c.base BY <3>1, <3>2
    <3>3. CASE current = c.base
      <4>1. c.want \in Configs /\ versions[c.base] \in Doc
        BY <1>1, SerialsAreVersions DEF ClientInv, ClientRecord, BaseInv, SerialsKnown
      <4>2. AppliedState \in Doc BY <4>1, CarriedIsDoc DEF AppliedState
      <4>3. doc.res = RebuiltRes(AppliedState.res, DeltaAddresses) BY <1>2, <4>2 DEF Doc
      <4>4. \A a \in Addr : doc.res[a].attr = AppliedState.res[a].attr
        BY <1>1, <3>3, <4>3, DeltaCounts
      <4> QED BY <1>1, <1>4, <4>4, PreviewHolds
    <3> QED BY <3>2, <3>3
  <2>3. Explained' BY <2>1, <2>2, StoppedFor
  <2> QED BY <1>1, <2>1, <2>3, Stops DEF Outcomes
<1> QED BY <1>3, <1>4

(* The same of the snapshot lane's merge, on the trunk of the replan.      *)
LEMMA MergeCounts ==
  ASSUME ClientInv, c.pc = "committing", c.fresh = c.base, NEW a \in Addr
  PROVE  Merged.res[a] = AppliedState.res[a]
<1>1. Merged.res[a] = IF a \in GroupClosure(c.write) THEN AppliedState.res[a] ELSE versions[c.fresh].res[a]
  BY DEF Merged, BuildMergedState
<1>2. c.want \in Configs /\ versions[c.base] \in Doc
  BY SerialsAreVersions DEF ClientInv, ClientRecord, BaseInv, SerialsKnown
<1>3. AppliedState.res[a] = IF c.done[a] = "none" THEN versions[c.base].res[a]
                            ELSE [attr |-> c.want[a], meta |-> NoMeta]
  BY <1>2, CarriedIsDoc DEF AppliedState
<1>4. c.done[a] # "none" => a \in GroupClosure(c.write)
  <2>1. Groups(Writes(c.done)) = Groups(c.write) BY DEF ClientInv, DoneInv
  <2>2. c.done[a] # "none" => GroupOf[a] \in Groups(Writes(c.done)) BY DEF Groups, Writes
  <2> QED BY <2>1, <2>2 DEF GroupClosure
<1> QED BY <1>1, <1>3, <1>4

(* The commit of the snapshot lane, and its retries.                       *)
LEMMA CommitSnapshotStep ==
  ASSUME ClientInv, Grown, CommitSnapshot
  PROVE  ClientParts'
<1>1. c.pc = "committing" /\ c.lane = "snapshot" /\ c \in ClientRecord
  BY DEF CommitSnapshot, At, ClientInv
<1>2. /\ c.base \in Nat /\ c.from \in Nat /\ current \in Nat /\ c.fresh \in Nat /\ c.tries \in Nat
      /\ c.base <= current /\ c.from <= c.base /\ c.fresh <= current /\ c.fresh >= c.base + c.tries
      /\ \A s \in DOMAIN versions : s <= current
  BY <1>1 DEF ClientInv, SerialsKnown, BaseInv, ClientRecord, TriesInv, StoreInv, HistoryGapFree, NoVersion
<1>3. CASE Admitted(Merged) /\ c.fresh + 1 \in DOMAIN versions
  <2>1. current >= c.base + c.tries + 1 /\ UNCHANGED <<locks, current>>
    BY <1>1, <1>2, <1>3 DEF CommitSnapshot, Go, storeVars
  <2>2. CASE c.tries + 1 = MaxCommitRetries
    <3>1. c' = Stop("retries") BY <1>3, <2>2 DEF CommitSnapshot, Go
    <3>2. current >= c.base + MaxCommitRetries BY <1>2, <2>1, <2>2
    <3>3. Explained' BY <2>1, <3>1, <3>2, StoppedFor
    <3> QED BY <1>1, <2>1, <3>1, <3>3, Stops DEF Outcomes
  <2>3. CASE c.tries + 1 # MaxCommitRetries
    <3>1. PICK t \in Nat : t = c.tries + 1 BY <1>2
    <3>2. /\ c' \in ClientRecord /\ RunSame /\ c'.pc = "merging" /\ c'.fresh = c.fresh /\ c'.tries = c.tries + 1
      <4>1. c' = [c EXCEPT !.pc = "merging", !.tries = t] BY <1>3, <2>3, <3>1 DEF CommitSnapshot, Go
      <4> QED BY <1>1, <3>1, <4>1 DEF ClientRecord, Places, RunSame, SpecSame, PlanSame
    <3>3. TriesInv' BY <1>2, <2>1, <3>2 DEF TriesInv, RunSame
    <3>4. LaneInv' BY <1>1, <3>2 DEF LaneInv, Orchestrated, OnBackend, RunSame, SpecSame
    <3>5. LockInv' BY <1>1, <2>1, <3>2, LocksKept DEF RunSame, SpecSame
    <3>6. EndInv' BY <3>2 DEF EndInv
    <3>7. SerialsKnown' BY <3>2, SerialsSame
    <3> QED BY <1>1, <3>2, <3>3, <3>4, <3>5, <3>6, <3>7, MovedOn DEF Orchestrated, OnBackend, Cut
  <2> QED BY <2>2, <2>3
<1>4. CASE ~ (Admitted(Merged) /\ c.fresh + 1 \in DOMAIN versions)
  <2>1. CommitOf(Merged, WriteStateForApply(c.fresh + 1, Merged)) BY <1>4 DEF CommitSnapshot
  <2>2. CASE Admitted(Merged)
    <3>1. c' = Stop("committed") /\ UNCHANGED locks
      BY <2>1, <2>2 DEF CommitOf, WriteStateForApply
    <3>2. Explained' BY <3>1 DEF Explained, Stop, ClientInv, ClientRecord
    <3> QED BY <1>1, <3>1, <3>2, Stops DEF Outcomes
  <2>3. CASE ~ Admitted(Merged)
    <3>1. c' = Stop("quota") /\ UNCHANGED <<locks, current>>
      BY <2>1, <2>3 DEF CommitOf, Go, storeVars
    <3>2. current > c.from
      <4>1. CASE c.fresh # c.base BY <1>2, <4>1
      <4>2. CASE c.fresh = c.base
        <5>1. \A a \in Addr : Merged.res[a].attr = AppliedState.res[a].attr BY <1>1, <4>2, MergeCounts
        <5> QED BY <1>1, <2>3, <5>1, PreviewHolds
      <4> QED BY <4>1, <4>2
    <3>3. Explained' BY <3>1, <3>2, StoppedFor
    <3> QED BY <1>1, <3>1, <3>3, Stops DEF Outcomes
  <2> QED BY <2>2, <2>3
<1> QED BY <1>3, <1>4

(* The end of a run, with the coarse lock released.                        *)
LEMMA CloseStep ==
  ASSUME ClientInv, Grown, Close
  PROVE  ClientParts'
<1>1. c.pc = "closing" /\ c.lane \in {"native", "snapshot"} /\ c \in ClientRecord /\ c' = [c EXCEPT !.pc = "done"]
  BY DEF Close, At, ClientInv, LaneInv, Orchestrated
<1>2. /\ c' \in ClientRecord /\ RunSame /\ c'.pc = "done" /\ c'.how = c.how /\ c'.locked = c.locked
      /\ c'.fresh = c.fresh
  BY <1>1, Stepping DEF Places
<1>3. Ran' <=> Ran BY <1>2 DEF RunSame, Ran, NoActs
<1>4. EndInv' BY <1>1, <1>2, <1>3, ReasonKept DEF EndInv, ClientInv
<1>5. LockInv'
  <2>1. CASE c.lane = "native"
    <3>1. locks' = [locks EXCEPT ![Me] = NoLock] BY <2>1 DEF Close, ReleaseStateEngineLock
    <3> QED BY <1>2, <3>1, OwnLock
  <2>2. CASE c.lane # "native"
    <3>1. UNCHANGED locks BY <2>2 DEF Close, storeVars
    <3> QED BY <1>2, <3>1, NoLocksTaken
  <2> QED BY <2>1, <2>2
<1>6. LaneInv' BY <1>1, <1>2, <1>3 DEF LaneInv, HasSpec, Orchestrated, OnBackend, RunSame, SpecSame, ClientInv
<1>7. TriesInv' BY <1>2 DEF TriesInv
<1>8. SerialsKnown' BY <1>2, SerialsSame
<1> QED BY <1>1, <1>2, <1>4, <1>5, <1>6, <1>7, <1>8, MovedOn DEF Orchestrated, OnBackend, Cut

-----------------------------------------------------------------------------
(* The invariant holds                                                     *)

(* A run begins in the invariant.                                          *)
LEMMA ClientInitInv == ClientInit => ClientInv
<1> SUFFICES ASSUME ClientInit PROVE ClientInv
  OBVIOUS
<1>1. PICK doc \in StartDocs :
         /\ versions = [s \in {1} |-> doc]
         /\ rows = {NewRow(a, doc.res, 1) : a \in {b \in Addr : doc.res[b].attr # NoAttr}}
  BY DEF ClientInit
<1>2. doc \in Doc BY ClientAssumption
<1>3. current = 1 /\ locks = [l \in LockId |-> NoLock] /\ exclusive = FALSE BY DEF ClientInit
<1>4. DOMAIN versions = {1} /\ versions[1] = doc BY <1>1
<1>5. \A a \in Addr : doc.res[a].attr \in Attr \cup {NoAttr} BY <1>2 DEF Doc, Cell, Absent
<1>6. \A r \in rows : /\ r.addr \in Addr /\ r.attr = doc.res[r.addr].attr /\ r.attr \in Attr
                      /\ r.create = 1 /\ r.delete = Open
                      /\ r = NewRow(r.addr, doc.res, 1)
  BY <1>1, <1>5 DEF NewRow
<1>7. StoreTypeOK
  <2>1. rows \subseteq ResourceRow
    <3>1. SUFFICES ASSUME NEW r \in rows PROVE r \in ResourceRow OBVIOUS
    <3>2. PICK a \in Addr : r = NewRow(a, doc.res, 1) BY <1>1
    <3>3. doc.res[a].attr \in Attr BY <1>6, <3>2 DEF NewRow
    <3> QED BY <3>2, <3>3 DEF ResourceRow, NewRow
  <2>2. versions \in [DOMAIN versions -> Doc] BY <1>1, <1>2, <1>4
  <2>3. DOMAIN versions \subseteq Nat /\ current \in Nat BY <1>3, <1>4
  <2>4. locks \in [LockId -> LockRow \cup {NoLock}] /\ exclusive \in BOOLEAN BY <1>3
  <2> QED BY <2>1, <2>2, <2>3, <2>4 DEF StoreTypeOK
<1>8. HistoryGapFree BY <1>3, <1>4 DEF HistoryGapFree, NoVersion
<1>9. LifecyclesDisjoint BY <1>3, <1>6 DEF LifecyclesDisjoint, IsOpen
<1>10. RowsMatchHistory
  <2>1. ASSUME NEW a \in Addr, doc.res[a].attr # NoAttr PROVE \E r \in rows : r.addr = a /\ Covers(r, 1)
    <3>1. NewRow(a, doc.res, 1) \in rows BY <1>1, <2>1
    <3>2. NewRow(a, doc.res, 1).addr = a /\ Covers(NewRow(a, doc.res, 1), 1)
      BY DEF NewRow, Covers, IsOpen
    <3> QED BY <3>1, <3>2
  <2> QED BY <1>4, <1>6, <2>1 DEF RowsMatchHistory
<1>11. BaselineStored BY <1>3 DEF BaselineStored, NoLock
<1>12. PICK cmd \in Invocations, want \in Configs : c = NewClient(cmd, want) BY DEF ClientInit
<1>13. NoActs \in Actish BY DEF NoActs, Actish, Modes
<1>14. c \in ClientRecord
  BY <1>12, <1>13 DEF NewClient, ClientRecord, Places, Outcomes
<1>15. /\ c.pc = "start" /\ c.done = NoActs /\ c.tries = 0 /\ c.pin = 0 /\ c.from = 0 /\ c.base = 0 /\ c.fresh = 0
  BY <1>12 DEF NewClient
<1>16. ~ Ran /\ ~ HasSpec BY <1>15 DEF Ran, HasSpec, Orchestrated, OnBackend
<1>17. SerialsKnown BY <1>3, <1>15 DEF SerialsKnown
<1>18. PlanInv /\ SpecInv /\ LaneInv /\ QuotaInv
  BY <1>15, <1>16 DEF PlanInv, HasPlan, SpecInv, LaneInv, QuotaInv, Orchestrated, OnBackend
<1>19. BaseInv /\ DoneInv /\ TriesInv /\ EndInv
  BY <1>15, <1>16 DEF BaseInv, DoneInv, TriesInv, EndInv
<1>20. LockInv
  <2>1. Other \notin Held BY <1>3 DEF Held
  <2> QED BY <1>15, <2>1 DEF LockInv, NativeAlone
<1> QED BY <1>7, <1>8, <1>9, <1>10, <1>11, <1>14, <1>17, <1>18, <1>19, <1>20 DEF ClientInv, StoreInv

(* Every step keeps it.                                                    *)
LEMMA ClientInvStep ==
  ASSUME ClientInv, [ClientNext]_clientVars
  PROVE  ClientInv'
<1>1. [StoreNext]_storeVars BY ClientUsesStore
<1>2. StoreInv' /\ BaselineStored' BY <1>1, StoreInvStep, BaselineStep DEF ClientInv
<1>3. Grown BY <1>1, StoreStepGrows DEF ClientInv
<1>4. SUFFICES ClientParts' BY <1>2 DEF ClientParts, ClientInv
<1>5. CASE PinTrunk \/ PlanLock \/ PlanFull \/ PlanFetched \/ ResolveSlice \/ PlanSliced \/ FallBack
  BY <1>3, <1>5, PlanningStep
<1>6. CASE BuildSpec \/ QuotaPreflight \/ CheckCoexistence \/ PlanEnds
  BY <1>3, <1>6, BuildSpecStep, QuotaPreflightStep, CoexistenceStep, PlanEndsStep
<1>7. CASE BackendLock \/ BackendApply \/ BackendPost \/ BackendUnlock
  BY <1>3, <1>7, BackendLockStep, BackendApplyStep, BackendPostStep, BackendUnlockStep
<1>8. CASE CoarseLock \/ Reserve \/ Guard \/ RunTerraform \/ ReadFresh
  BY <1>3, <1>8, CoarseLockStep, ReserveStep, GuardStep, RunTerraformStep, ReadFreshStep
<1>9. CASE CommitNative \/ CommitSnapshot \/ Close
  BY <1>3, <1>9, CommitNativeStep, CommitSnapshotStep, CloseStep
<1>10. CASE TerraformLocks \/ TerraformPosts \/ TerraformUnlocks \/ OtherApply
  BY <1>2, <1>3, <1>10, OthersStep
<1>11. CASE UNCHANGED clientVars
  <2>1. UNCHANGED <<c, locks>> BY <1>11 DEF clientVars, storeVars
  <2>2. LockInv' BY <1>3, <2>1, LocksKept
  <2> QED BY <1>3, <2>1, <2>2, OthersKeep
<1> QED BY <1>5, <1>6, <1>7, <1>8, <1>9, <1>10, <1>11 DEF ClientNext, Client

-----------------------------------------------------------------------------
(* What it means                                                           *)

(* The plan shown, the guard and the group check give AsConfirmed.         *)
LEMMA ConfirmedByInv ==
  ASSUME ClientInv PROVE AsConfirmed
<1>1. SUFFICES ASSUME Ran, IF c.lane = "backend" THEN Undisturbed ELSE Pinned
               PROVE  /\ \A a \in Addr : c.done[a] \in {"none", c.acts[a]}
                      /\ (c.cmd.mode = "file" /\ ~ c.cmd.spec /\ "destructive" \notin c.cmd.acks)
                            => Destructive(c.done) = {}
  BY DEF AsConfirmed
<1>2. HasSpec /\ HasPlan BY <1>1 DEF HasSpec, HasPlan
<1>3. PlanShown /\ SpecFits BY <1>2 DEF ClientInv, PlanInv, SpecInv
<1>4. \A a \in Addr : c.done[a] \in {"none", Replan[a]} BY <1>1 DEF ClientInv, DoneInv
<1>5. ASSUME NEW a \in Addr PROVE c.done[a] \in {"none", c.acts[a]}
  <2>1. SUFFICES ASSUME Replan[a] # "none" PROVE c.acts[a] = Replan[a] BY <1>4
  <2>2. versions[c.base].res[a].attr = versions[c.from].res[a].attr
    <3>1. CASE c.lane = "backend" BY <1>1, <3>1 DEF Undisturbed
    <3>2. CASE c.lane # "backend"
      <4>1. c.pin > 0 /\ c.pin = c.from BY <1>1, <3>2 DEF Pinned
      <4>2. ReadSetIntact /\ Groups(Writes(Replan)) = Groups(c.write)
        BY <1>1, <3>2 DEF ClientInv, BaseInv, DoneInv
      <4>3. GroupOf[a] \in Groups(Writes(Replan)) BY <2>1 DEF Groups, Writes
      <4>4. a \in GroupClosure(c.read) BY <1>3, <4>2, <4>3 DEF SpecFits, GroupClosure, Groups
      <4> QED BY <4>1, <4>2, <4>4 DEF ReadSetIntact
    <3> QED BY <3>1, <3>2
  <2> QED BY <1>3, <2>1, <2>2, ReplanShown
<1>6. ASSUME c.cmd.mode = "file", ~ c.cmd.spec, "destructive" \notin c.cmd.acks
      PROVE  Destructive(c.done) = {}
  <2>1. Destructive(c.acts) = {} BY <1>3, <1>6 DEF SpecFits, Gated
  <2> QED BY <1>5, <2>1 DEF Destructive
<1> QED BY <1>5, <1>6

(* The reason a run ended for gives RecordedOrExplained.                   *)
LEMMA RecordedByInv ==
  ASSUME ClientInv PROVE RecordedOrExplained
<1>1. SUFFICES ASSUME c.pc = "done", Ran PROVE RecordedOrExplained
  BY DEF RecordedOrExplained
<1>2. Explained BY <1>1 DEF ClientInv, EndInv
<1>3. CASE c.how = "intent" BY <1>2, <1>3 DEF Explained, RecordedOrExplained
<1>4. CASE c.how = "quota" BY <1>2, <1>4 DEF Explained, RecordedOrExplained, Unpreviewed
<1>5. CASE c.how = "conflict" BY <1>2, <1>5 DEF Explained, RecordedOrExplained
<1>6. CASE c.how = "retries" BY <1>2, <1>6 DEF Explained, RecordedOrExplained
<1>7. CASE c.how \notin {"intent", "quota", "conflict", "retries"}
  BY <1>2, <1>7 DEF Explained, RecordedOrExplained
<1> QED BY <1>3, <1>4, <1>5, <1>6, <1>7

(* The rows mirror the trunk, and a serial that is free is one past it.    *)
LEMMA ScopeKeptStep ==
  ASSUME ClientInv, CommitNative \/ CommitSnapshot, current' # current
  PROVE  InScope(versions[current].res, versions'[current'].res)
<1>1. c.pc = "committing" /\ c \in ClientRecord /\ c.want \in Configs
  BY DEF CommitNative, CommitSnapshot, At, ClientInv, ClientRecord
<1>2. versions[c.base] \in Doc
  BY <1>1, SerialsAreVersions DEF ClientInv, ClientRecord, BaseInv, SerialsKnown
<1>3. AppliedState \in Doc BY <1>1, <1>2, CarriedIsDoc DEF AppliedState
<1>4. \A a \in Writes(c.done) : AppliedState.res[a].attr = c.want[a]
  <2>1. \A a \in Addr : AppliedState.res[a] = IF c.done[a] = "none" THEN versions[c.base].res[a]
                                              ELSE [attr |-> c.want[a], meta |-> NoMeta]
    BY <1>1, <1>2, CarriedIsDoc DEF AppliedState
  <2> SUFFICES ASSUME NEW a \in Writes(c.done) PROVE AppliedState.res[a].attr = c.want[a] OBVIOUS
  <2>2. AppliedState.res[a] = [attr |-> c.want[a], meta |-> NoMeta] BY <2>1 DEF Writes
  <2> QED BY <2>2
<1>5. CASE CommitNative
  <2>1. PICK doc : doc = [AppliedState EXCEPT !.res = RebuiltRes(AppliedState.res, DeltaAddresses)] OBVIOUS
  <2>2. WriteStateEngineDeltaForApply(AppliedState, DeltaAddresses, {})
    <3>1. CommitOf(doc, WriteStateEngineDeltaForApply(AppliedState, DeltaAddresses, {}))
      BY <1>5, <2>1 DEF CommitNative
    <3> QED BY <3>1 DEF CommitOf, Go, storeVars
  <2>3. PICK outs : CommitSelected(NextSerial, [AppliedState EXCEPT !.out = outs], DeltaAddresses)
    BY <2>2 DEF WriteStateEngineDeltaForApply
  <2>4. PICK d : d = [AppliedState EXCEPT !.out = outs] OBVIOUS
  <2>5. d.res = AppliedState.res BY <1>3, <2>4 DEF Doc
  <2>6. InsertVersion(NextSerial, [d EXCEPT !.res = RebuiltRes(d.res, DeltaAddresses)])
    BY <2>3, <2>4 DEF CommitSelected
  <2>7. versions'[current'] = [d EXCEPT !.res = RebuiltRes(d.res, DeltaAddresses)]
    BY <2>6 DEF InsertVersion
  <2>8. versions'[current'].res = RebuiltRes(AppliedState.res, DeltaAddresses)
    BY <1>3, <2>4, <2>5, <2>7 DEF Doc
  <2>9. \A a \in Addr : versions'[current'].res[a].attr
           = IF a \in Writes(c.done) THEN AppliedState.res[a].attr ELSE versions[current].res[a].attr
    BY <2>8, RowsMirrorTrunk DEF RebuiltRes, ClientInv, DeltaAddresses
  <2>10. c.lane = "native" BY <1>5 DEF CommitNative
  <2> QED BY <1>4, <2>9, <2>10 DEF InScope, Writes
<1>6. CASE CommitSnapshot
  <2>1. c.lane = "snapshot" BY <1>6 DEF CommitSnapshot
  <2>2. WriteStateForApply(c.fresh + 1, Merged)
    BY <1>6 DEF CommitSnapshot, CommitOf, Go, storeVars
  <2>3. InsertVersion(c.fresh + 1, Merged) BY <2>2 DEF WriteStateForApply, CommitDoc
  <2>4. versions'[current'] = Merged /\ c.fresh + 1 \notin DOMAIN versions
    BY <2>3 DEF InsertVersion
  <2>5. c.fresh = current
    <3>1. c.fresh \in Nat /\ current \in Nat /\ c.fresh <= current
      BY <1>1 DEF ClientInv, ClientRecord, SerialsKnown
    <3>2. c.fresh + 1 \notin 1..current BY <2>4, SerialsAreVersions DEF ClientInv
    <3> QED BY <3>1, <3>2
  <2>6. \A a \in Addr : versions'[current'].res[a]
           = IF a \in GroupClosure(c.write) THEN AppliedState.res[a] ELSE versions[current].res[a]
    BY <2>4, <2>5 DEF Merged, BuildMergedState
  <2>7. Writes(c.done) \subseteq GroupClosure(c.write)
    <3>1. Groups(Writes(c.done)) = Groups(c.write) BY <1>1 DEF ClientInv, DoneInv
    <3> QED BY <3>1 DEF Groups, Writes, GroupClosure
  <2> QED BY <1>4, <2>1, <2>6, <2>7 DEF InScope, GroupClosure
<1> QED BY <1>5, <1>6

(* The invariant, for every configuration, command line, configuration of  *)
(* the dependencies, quota and retry bound, and for every interleaving     *)
(* with a Terraform session and other kl applies.                          *)
THEOREM ClientSafe == ClientSpec => []ClientInv
<1> QED BY ClientInitInv, ClientInvStep, PTL DEF ClientSpec

(* Terraform carries out nothing the operator was not shown, although it   *)
(* plans again: what the staleness guard and the gates of cmd_apply.go are *)
(* for.                                                                    *)
THEOREM AppliesAsConfirmed == ClientSpec => []AsConfirmed
<1> QED BY ClientSafe, ConfirmedByInv, PTL

(* What Terraform did is committed, or the run ends for one of the reasons *)
(* the property lists: no other path of runTerraform, the retry loop, the  *)
(* intent check and the quota preflight loses it.                          *)
THEOREM AppliesRecorded == ClientSpec => []RecordedOrExplained
<1> QED BY ClientSafe, RecordedByInv, PTL

(* While the coarse state-engine lock is held no other lock is.            *)
THEOREM NativesAlone == ClientSpec => []NativeAlone
<1>1. ClientInv => NativeAlone BY DEF ClientInv, LockInv
<1> QED BY <1>1, ClientSafe, PTL

(* A commit of the orchestrated lanes writes what Terraform made and       *)
(* nothing outside its scope, whatever was committed since the replan.     *)
THEOREM ScopesKept == ClientSpec => ScopeKept
<1>1. ClientInv /\ [ClientNext]_clientVars =>
        [(CommitNative \/ CommitSnapshot) /\ current' # current =>
           InScope(versions[current].res, versions'[current'].res)]_clientVars
  BY ScopeKeptStep
<1> QED BY <1>1, ClientSafe, PTL DEF ClientSpec, ScopeKept
=============================================================================
