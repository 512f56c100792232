--------------------------- MODULE PlanningProofs ---------------------------
(***************************************************************************)
(* Proofs about what a client decides before it asks to write: the refresh *)
(* orchestrator (Refresh), for any instances, groups and limits, and scoped*)
(* planning (Scope), for any graphs, configurations and requests.          *)
(*                                                                         *)
(* Refresh.  The inductive invariant says what a group has settled at each *)
(* point of its goroutine (GroupInv), which processes can be alive there   *)
(* (ProcInv), and that the main goroutine writes, and finishes a row as    *)
(* succeeded, only when every group is done and nothing failed (MainInv).  *)
(*                                                                         *)
(* Scope.  The inductive invariant says that a visited address has all it  *)
(* leads to visited or queued (WalkInv), that the contract drawn from the  *)
(* finished walk is closed (ContractInv), that the planned state holds what*)
(* the pinned version and the version of the rows both have of the         *)
(* configuration (BasisInv), and that the guard found the read set         *)
(* unchanged between the pinned version and its own (GuardInv).            *)
(***************************************************************************)
EXTENDS Refresh, Scope, FiniteSetTheorems, SequenceTheorems, TLAPS

Size(k)    == Len(Entries[k])
HasAnswer(e) == attrs[e] \in {"read", "declined"}
Settled(e) == tally[e].failed > 0 \/ HasAnswer(e)
Broken(k)  == \E j \in 1..Size(k) : tally[Entries[k][j]].failed > 0
AllDone    == \A k \in Group : gor[k].pc = "done"

GroupInvAt(k) ==
  /\ gor[k].i \in 1..(Size(k) + 1)
  /\ gor[k].pc \in {"upgrade", "read"} => gor[k].i <= Size(k)
  /\ \A j \in 1..(gor[k].i - 1) : Settled(Entries[k][j])
  /\ gor[k].pc \in {"closing", "done"} => Broken(k) \/ gor[k].i = Size(k) + 1

GroupInv == \A k \in Group : GroupInvAt(k)

ProcInvAt(k) ==
  /\ gor[k].pc \in {"waiting", "start", "discover"} => proc[k] = "none"
  /\ gor[k].pc = "launch" => proc[k] \in {"forking", "running"}
  /\ gor[k].pc \in {"resolve", "schema", "configure", "next", "upgrade", "read", "closing"} =>
       proc[k] \in {"running", "stopping"}
  /\ gor[k].pc = "done" => proc[k] \in {"none", "forking", "orphan", "killed"}
  /\ proc[k] = "orphan" => gor[k].pc = "done" /\ gctx
  /\ gor[k].pc = "done" /\ proc[k] = "forking" => gctx

ProcInv == \A k \in Group : ProcInvAt(k)

LimitInv == opts.limit > 0 => Cardinality(Busy) <= opts.limit

MainInv ==
  /\ run.pc \in {"load", "begin", "spawn"} => run.wrote = 0 /\ row.status # "succeeded"
  /\ \A k \in Group : k >= run.next => gor[k].pc = "waiting"
  /\ run.pc \in {"write", "lookup", "finish"} => AllDone
  /\ run.pc \in {"write", "lookup"} => Failures = {}
  /\ run.wrote # 0 => AllDone /\ Failures = {}
  /\ row.status = "succeeded" => AllDone /\ Failures = {}

RefreshInv == RefreshTypeOK /\ GroupInv /\ ProcInv /\ LimitInv /\ MainInv

-----------------------------------------------------------------------------
(* Constants and types                                                     *)

LEMMA GroupShape ==
  /\ Group = 1..Len(Entries) /\ Len(Entries) \in Nat /\ IsFiniteSet(Group)
  /\ \A k \in Group : Size(k) \in Nat /\ Size(k) >= 1
  /\ \A k \in Group : \A j \in 1..Size(k) : Entries[k][j] \in Entry
<1>1. Entries \in Seq(Seq(Entry) \ {<<>>}) BY RefreshAssumption
<1>2. Group = 1..Len(Entries) /\ Len(Entries) \in Nat BY <1>1 DEF Group
<1>3. IsFiniteSet(Group) BY <1>2, FS_Interval
<1>4. \A k \in Group : Entries[k] \in Seq(Entry) /\ Entries[k] # <<>> BY <1>1, <1>2
<1>5. \A k \in Group : Size(k) \in Nat /\ Size(k) >= 1
  BY <1>4 DEF Size
<1>6. \A k \in Group : \A j \in 1..Size(k) : Entries[k][j] \in Entry
  BY <1>4 DEF Size
<1> QED BY <1>2, <1>3, <1>5, <1>6

LEMMA SlotsDistinct ==
  \A k, m \in Group : \A i \in 1..Size(k), j \in 1..Size(m) :
    Entries[k][i] = Entries[m][j] => k = m /\ i = j
BY RefreshAssumption DEF Size

LEMMA TalliesFinite ==
  /\ Cardinality(Checks) \in Nat /\ Cardinality(Failures) \in Nat
<1>1. IsFiniteSet(Entry) BY RefreshAssumption
<1>2. Checks \in SUBSET Entry /\ Failures \in SUBSET Entry BY DEF Checks, Failures
<1>3. IsFiniteSet(Checks) /\ IsFiniteSet(Failures) BY <1>1, <1>2, FS_Subset
<1> QED BY <1>3, FS_CardinalityType

LEMMA InitTyped == RefreshInit => RefreshTypeOK
<1> HAVE RefreshInit
<1> USE GroupShape DEF RefreshInit
<1>1. run \in RunRecord BY DEF RunRecord
<1>2. row \in RowRecord BY DEF RowRecord
<1>3. opts \in OptionRecord BY DEF OptionRecord
<1>4. gor \in [Group -> GoroutineRecord] BY DEF GoroutineRecord
<1> QED BY <1>1, <1>2, <1>3, <1>4 DEF RefreshTypeOK

LEMMA MainKeepsTypes ==
  ASSUME RefreshTypeOK, Main \/ Cancel \/ OtherCommit
  PROVE  RefreshTypeOK'
<1> USE DEF RefreshTypeOK, workVars, Goto, At
<1>1. CASE LoadState BY <1>1 DEF LoadState, RunRecord
<1>2. CASE BeginRefreshRun
  <2>1. run' \in RunRecord BY <1>2 DEF BeginRefreshRun, RunRecord
  <2>2. row' \in RowRecord BY <1>2 DEF BeginRefreshRun, RowRecord
  <2> QED BY <1>2, <2>1, <2>2 DEF BeginRefreshRun
<1>3. CASE GroupingFails BY <1>3 DEF GroupingFails, RunRecord
<1>4. CASE Spawn
  <2>1. run.next \in Group /\ run.next + 1 \in 1..(Len(Entries) + 1)
    BY <1>4, GroupShape DEF Spawn
  <2>2. run' \in RunRecord BY <1>4, <2>1 DEF Spawn, RunRecord
  <2>3. gor' \in [Group -> GoroutineRecord] BY <1>4, <2>1 DEF Spawn, GoroutineRecord
  <2> QED BY <1>4, <2>2, <2>3 DEF Spawn
<1>5. CASE Wait
  <2>1. run' \in RunRecord BY <1>5 DEF Wait, RunRecord
  <2> QED BY <1>5, <2>1 DEF Wait
<1>6. CASE WriteState
  <2>1. serial' \in Nat BY <1>6 DEF WriteState
  <2>2. run' \in RunRecord
    <3> DEFINE n == serial + 1
    <3>0. n \in Nat OBVIOUS
    <3> HIDE DEF n
    <3>1. CASE run' = [run EXCEPT !.pc = "failing"] BY <3>1 DEF RunRecord
    <3>2. CASE run' = [run EXCEPT !.pc = "lookup", !.wrote = n] BY <3>0, <3>2 DEF RunRecord
    <3>3. CASE run' = [run EXCEPT !.pc = "failing", !.wrote = n] BY <3>0, <3>3 DEF RunRecord
    <3> QED BY <1>6, <3>1, <3>2, <3>3 DEF WriteState, n
  <2> QED BY <1>6, <2>1, <2>2 DEF WriteState
<1>7. CASE LookupStateVersionID
  <2>1. run.base + 1 \in Nat BY DEF RunRecord
  <2>2. run' \in RunRecord BY <1>7, <2>1 DEF LookupStateVersionID, RunRecord
  <2> QED BY <1>7, <2>2 DEF LookupStateVersionID
<1>8. CASE FinishRefreshRun
  <2>1. run' \in RunRecord BY <1>8 DEF FinishRefreshRun, RunRecord
  <2>2. \A st \in {"failed", "succeeded"}, to \in Nat : Terminal(st, to) \in RowRecord
    BY TalliesFinite DEF Terminal, RowRecord
  <2>3. run.to \in Nat BY DEF RunRecord
  <2>4. row' \in RowRecord BY <1>8, <2>2, <2>3 DEF FinishRefreshRun
  <2> QED BY <1>8, <2>1, <2>4 DEF FinishRefreshRun
<1>9. CASE Cancel BY <1>9 DEF Cancel
<1>10. CASE OtherCommit BY <1>10 DEF OtherCommit
<1> QED BY <1>1, <1>2, <1>3, <1>4, <1>5, <1>6, <1>7, <1>8, <1>9, <1>10 DEF Main

LEMMA EntryAtHand ==
  ASSUME RefreshTypeOK, GroupInv, NEW k \in Group, gor[k].i <= Size(k)
  PROVE  gor[k].i \in 1..Size(k) /\ EntryOf(k) \in Entry
<1>1. gor[k].i \in 1..Size(k) BY GroupShape DEF GroupInv, GroupInvAt
<1> QED BY <1>1, GroupShape DEF EntryOf

LEMMA GroupsKeepTypes ==
  ASSUME RefreshTypeOK, GroupInv, NEW k \in Group, Own(k) \/ Answer(k)
  PROVE  RefreshTypeOK'
<1> USE DEF RefreshTypeOK
<1> DEFINE Tallies == [Entry -> [checked : Nat, failed : Nat]]
<1>1. GroupAborted(k) \in Tallies
  BY DEF GroupAborted
<1>2. \A e \in Entry : EntryFailed(e) \in Tallies /\ [tally EXCEPT ![e].checked = @ + 1] \in Tallies
  BY DEF EntryFailed
<1>3. \A pc \in {"discover", "launch", "resolve", "schema", "configure", "next", "upgrade",
                 "read", "closing", "done"} :
         [gor EXCEPT ![k].pc = pc] \in [Group -> GoroutineRecord]
  BY DEF GoroutineRecord
<1>4. [gor EXCEPT ![k].i = @ + 1] \in [Group -> GoroutineRecord]
  BY DEF GoroutineRecord
<1>5. [gor EXCEPT ![k] = [pc |-> "next", i |-> @.i + 1]] \in [Group -> GoroutineRecord]
  BY DEF GoroutineRecord
<1>6. [gor EXCEPT ![k] = AfterFailure(k)] \in [Group -> GoroutineRecord]
  BY DEF GoroutineRecord, AfterFailure
<1>7. gor[k].pc \in {"upgrade", "read"} => EntryOf(k) \in Entry
  BY EntryAtHand DEF GroupInv, GroupInvAt
<1>8. ~ gor[k].i > Size(k) => EntryOf(k) \in Entry
  BY EntryAtHand, GroupShape DEF GroupInv, GroupInvAt
<1> USE DEF Move, In
<1>11. CASE Start(k) BY <1>11, <1>1, <1>3 DEF Start
<1>12. CASE Discover(k) BY <1>12, <1>3 DEF Discover
<1>13. CASE Fork(k) BY <1>13 DEF Fork
<1>14. CASE ResolveSchema(k) BY <1>14, <1>3 DEF ResolveSchema
<1>15. CASE NextEntry(k)
  <2>1. CASE gor[k].i > Len(Entries[k])
    <3>1. gor' \in [Group -> GoroutineRecord] BY <1>15, <1>3, <2>1 DEF NextEntry
    <3> QED BY <1>15, <2>1, <3>1 DEF NextEntry
  <2>2. CASE ~ gor[k].i > Len(Entries[k]) /\ gctx
    <3>1. EntryOf(k) \in Entry BY <1>8, <2>2 DEF Size
    <3>2. tally' \in Tallies BY <1>15, <1>2, <2>2, <3>1 DEF NextEntry
    <3>3. gor' \in [Group -> GoroutineRecord] BY <1>15, <1>4, <2>2 DEF NextEntry
    <3> QED BY <1>15, <3>2, <3>3 DEF NextEntry
  <2>3. CASE ~ gor[k].i > Len(Entries[k]) /\ ~ gctx
    <3>1. gor' \in [Group -> GoroutineRecord] BY <1>15, <1>3, <2>3 DEF NextEntry
    <3> QED BY <1>15, <2>3, <3>1 DEF NextEntry
  <2> QED BY <2>1, <2>2, <2>3
<1>16. CASE Stop(k) BY <1>16 DEF Stop
<1>17. CASE Close(k) BY <1>17, <1>3 DEF Close
<1>18. CASE Launch(k) BY <1>18, <1>3 DEF Launch
<1>19. CASE GetSchema(k) BY <1>19, <1>3 DEF GetSchema
<1>20. CASE Configure(k) BY <1>20, <1>3 DEF Configure
<1>21. CASE Upgraded(k)
  <2>1. attrs' \in [Entry -> {"stored", "upgraded", "read", "declined"}] BY <1>21, <1>7 DEF Upgraded
  <2> QED BY <1>21, <1>3, <2>1 DEF Upgraded
<1>22. CASE ReadResource(k)
  <2>1. attrs' \in [Entry -> {"stored", "upgraded", "read", "declined"}] BY <1>22, <1>7 DEF ReadResource
  <2> QED BY <1>22, <1>2, <1>5, <1>7, <2>1 DEF ReadResource
<1>23. CASE ReadDeferred(k)
  <2>1. attrs' \in [Entry -> {"stored", "upgraded", "read", "declined"}] BY <1>23, <1>7 DEF ReadDeferred
  <2> QED BY <1>23, <1>2, <1>5, <1>7, <2>1 DEF ReadDeferred
<1>24. CASE OpenFails(k)
  <2>1. gctx' \in BOOLEAN BY <1>24 DEF OpenFails, FailFast, OptionRecord
  <2>2. proc' \in [Group -> {"none", "forking", "orphan", "running", "stopping", "killed"}]
    BY <1>24 DEF OpenFails, Closed
  <2> QED BY <1>24, <1>1, <1>3, <2>1, <2>2 DEF OpenFails
<1>25. CASE CallFails(k)
  <2>1. gctx' \in BOOLEAN BY <1>25 DEF CallFails, FailFast, OptionRecord
  <2> QED BY <1>25, <1>2, <1>6, <1>7, <2>1 DEF CallFails
<1> QED
  BY <1>11, <1>12, <1>13, <1>14, <1>15, <1>16, <1>17, <1>18, <1>19, <1>20, <1>21, <1>22,
     <1>23, <1>24, <1>25 DEF Own, Answer

-----------------------------------------------------------------------------
(* What the groups have settled                                            *)

(* A step of group k leaves alone what the other groups have settled.      *)
Apart(k) ==
  /\ \A m \in Group : m # k => gor'[m] = gor[m]
  /\ \A e \in Entry : (\A j \in 1..Size(k) : Entries[k][j] # e) =>
       attrs'[e] = attrs[e] /\ tally'[e] = tally[e]

LEMMA OthersKeepSettled ==
  ASSUME GroupInv, NEW k \in Group, Apart(k), NEW m \in Group, m # k
  PROVE  GroupInvAt(m)'
<1>1. \A j \in 1..Size(m) : Entries[m][j] \in Entry /\ \A l \in 1..Size(k) : Entries[k][l] # Entries[m][j]
  BY GroupShape, SlotsDistinct
<1>2. \A j \in 1..Size(m) : attrs'[Entries[m][j]] = attrs[Entries[m][j]]
                              /\ tally'[Entries[m][j]] = tally[Entries[m][j]]
  BY <1>1 DEF Apart
<1>3. gor'[m] = gor[m] BY DEF Apart
<1>4. GroupInvAt(m) BY DEF GroupInv
<1>5. \A j \in 1..(gor[m].i - 1) : j \in 1..Size(m) BY <1>4, GroupShape DEF GroupInvAt
<1> QED BY <1>2, <1>3, <1>4, <1>5 DEF GroupInvAt, Settled, HasAnswer, Broken, Size

(* The steps that change neither attributes nor tallies.                   *)
LEMMA QuietKeepsSettled ==
  ASSUME GroupInv, attrs' = attrs, tally' = tally, NEW m \in Group, gor'[m] = gor[m]
  PROVE  GroupInvAt(m)'
BY DEF GroupInv, GroupInvAt, Settled, HasAnswer, Broken, Size

LEMMA AbortBreaks ==
  ASSUME RefreshTypeOK, GroupInv, NEW k \in Group, tally' = GroupAborted(k), attrs' = attrs,
         gor' = [gor EXCEPT ![k].pc = "done"]
  PROVE  Apart(k) /\ GroupInvAt(k)'
<1>1. \A e \in Entry : tally'[e] = tally[e] \/ tally'[e].failed = tally[e].failed + 1
  BY DEF GroupAborted, RefreshTypeOK
<1>2. \A j \in 1..Size(k) : tally'[Entries[k][j]].failed = tally[Entries[k][j]].failed + 1
  BY GroupShape DEF GroupAborted, RefreshTypeOK, Size
<1>3. \A e \in Entry : tally[e].failed \in Nat BY DEF RefreshTypeOK
<1>4. Apart(k) BY DEF Apart, GroupAborted, RefreshTypeOK, Size
<1>5. gor'[k].i = gor[k].i /\ gor'[k].pc = "done" BY DEF RefreshTypeOK, GoroutineRecord
<1>6. GroupInvAt(k) BY DEF GroupInv
<1>7. Broken(k)'
  <2>1. 1 \in 1..Size(k) /\ Entries[k][1] \in Entry BY GroupShape
  <2>2. tally'[Entries[k][1]].failed > 0 BY <1>2, <1>3, <2>1
  <2> QED BY <2>1, <2>2 DEF Broken, Size
<1>8. \A j \in 1..(gor[k].i - 1) : Settled(Entries[k][j])'
  <2> TAKE j \in 1..(gor[k].i - 1)
  <2>1. j \in 1..Size(k) /\ Entries[k][j] \in Entry BY <1>6, GroupShape DEF GroupInvAt
  <2>2. tally'[Entries[k][j]].failed > 0 BY <1>2, <1>3, <2>1
  <2> QED BY <2>2 DEF Settled
<1> QED BY <1>4, <1>5, <1>6, <1>7, <1>8 DEF GroupInvAt, Size

(* The steps that count the entry at hand.                                 *)
LEMMA CountingSettles ==
  ASSUME RefreshTypeOK, GroupInv, NEW k \in Group, gor[k].i <= Size(k),
         \A m \in Group : m # k => gor'[m] = gor[m],
         \A e \in Entry : e # EntryOf(k) => attrs'[e] = attrs[e] /\ tally'[e] = tally[e],
         tally'[EntryOf(k)].failed > 0 \/ attrs'[EntryOf(k)] \in {"read", "declined"},
         \/ gor'[k].i = gor[k].i + 1 /\ gor'[k].pc = "next"
         \/ gor'[k].i = gor[k].i /\ gor'[k].pc = "closing" /\ tally'[EntryOf(k)].failed > 0
  PROVE  Apart(k) /\ GroupInvAt(k)'
<1>1. gor[k].i \in 1..Size(k) /\ EntryOf(k) \in Entry BY EntryAtHand
<1>2. EntryOf(k) = Entries[k][gor[k].i] BY DEF EntryOf
<1>3. Apart(k) BY <1>1, <1>2 DEF Apart
<1>4. GroupInvAt(k) BY DEF GroupInv
<1>5. \A j \in 1..gor[k].i : Settled(Entries[k][j])'
  <2> TAKE j \in 1..gor[k].i
  <2>1. CASE j = gor[k].i BY <2>1, <1>2 DEF Settled, HasAnswer
  <2>2. CASE j # gor[k].i
    <3>1. j \in 1..(gor[k].i - 1) /\ j \in 1..Size(k) BY <2>2, <1>1, GroupShape
    <3>2. Entries[k][j] \in Entry /\ Entries[k][j] # EntryOf(k)
      BY <3>1, <2>2, <1>1, <1>2, GroupShape, SlotsDistinct
    <3> QED BY <3>1, <3>2, <1>4 DEF GroupInvAt, Settled, HasAnswer
  <2> QED BY <2>1, <2>2
<1>6. Size(k) \in Nat /\ gor[k].i \in Nat BY <1>1, GroupShape
<1>7. CASE gor'[k].i = gor[k].i + 1 /\ gor'[k].pc = "next"
  <2>1. gor'[k].i \in 1..(Size(k) + 1) BY <1>1, <1>6, <1>7
  <2>2. \A j \in 1..(gor'[k].i - 1) : Settled(Entries[k][j])' BY <1>5, <1>6, <1>7
  <2> QED BY <1>3, <1>7, <2>1, <2>2 DEF GroupInvAt, Size
<1>8. CASE gor'[k].i = gor[k].i /\ gor'[k].pc = "closing" /\ tally'[EntryOf(k)].failed > 0
  <2>1. gor'[k].i \in 1..(Size(k) + 1) BY <1>1, <1>6, <1>8
  <2>2. \A j \in 1..(gor'[k].i - 1) : Settled(Entries[k][j])' BY <1>5, <1>6, <1>8
  <2>3. Broken(k)' BY <1>1, <1>2, <1>8 DEF Broken, Size
  <2> QED BY <1>3, <1>8, <2>1, <2>2, <2>3 DEF GroupInvAt, Size
<1> QED BY <1>7, <1>8

LEMMA GroupsKeepSettled ==
  ASSUME RefreshTypeOK, GroupInv, NEW k \in Group, Own(k) \/ Answer(k)
  PROVE  GroupInv'
<1> SUFFICES Apart(k) /\ GroupInvAt(k)'
  BY OthersKeepSettled DEF GroupInv
<1>1. GroupInvAt(k) BY DEF GroupInv
<1>2. gor[k] \in GoroutineRecord /\ gor[k].i \in Nat /\ Size(k) \in Nat
  BY GroupShape DEF RefreshTypeOK, GoroutineRecord
<1>3. ASSUME attrs' = attrs, tally' = tally, NEW pc,
             gor' = [gor EXCEPT ![k].pc = pc],
             pc \in {"discover", "launch", "resolve", "schema", "configure", "next"}
      PROVE  Apart(k) /\ GroupInvAt(k)'
  <2>1. gor'[k].i = gor[k].i /\ gor'[k].pc = pc BY <1>3 DEF RefreshTypeOK, GoroutineRecord
  <2>2. Apart(k) BY <1>3 DEF Apart, RefreshTypeOK
  <2> QED BY <1>1, <1>3, <2>1, <2>2 DEF GroupInvAt, Settled, HasAnswer, Size
<1>4. ASSUME attrs' = attrs, tally' = tally, gor' = gor
      PROVE  Apart(k) /\ GroupInvAt(k)'
  BY <1>4, QuietKeepsSettled DEF Apart
<1>5. CASE gor[k].pc \in {"upgrade", "read"} /\ (ReadResource(k) \/ ReadDeferred(k))
  <2>1. gor[k].i <= Size(k) BY <1>5, <1>1 DEF GroupInvAt
  <2>2. EntryOf(k) \in Entry BY <2>1, EntryAtHand
  <2>3. gor' = [gor EXCEPT ![k] = [pc |-> "next", i |-> gor[k].i + 1]]
    BY <1>5 DEF ReadResource, ReadDeferred
  <2>4. gor'[k].i = gor[k].i + 1 /\ gor'[k].pc = "next" /\ \A m \in Group : m # k => gor'[m] = gor[m]
    BY <2>3 DEF RefreshTypeOK
  <2>5. /\ attrs'[EntryOf(k)] \in {"read", "declined"}
        /\ \A e \in Entry : e # EntryOf(k) => attrs'[e] = attrs[e] /\ tally'[e] = tally[e]
    BY <1>5, <2>2 DEF ReadResource, ReadDeferred, RefreshTypeOK
  <2> QED BY <2>1, <2>4, <2>5, CountingSettles
<1>6. CASE CallFails(k)
  <2>1. gor[k].i <= Size(k) BY <1>6, <1>1 DEF GroupInvAt, CallFails
  <2>2. EntryOf(k) \in Entry BY <2>1, EntryAtHand
  <2>3. gor'[k] = AfterFailure(k) /\ \A m \in Group : m # k => gor'[m] = gor[m]
    BY <1>6 DEF CallFails, RefreshTypeOK
  <2>4. \/ gor'[k].i = gor[k].i + 1 /\ gor'[k].pc = "next"
        \/ gor'[k].i = gor[k].i /\ gor'[k].pc = "closing"
    BY <2>3, <1>2 DEF AfterFailure, GoroutineRecord
  <2>5. /\ tally'[EntryOf(k)].failed > 0
        /\ \A e \in Entry : e # EntryOf(k) => attrs'[e] = attrs[e] /\ tally'[e] = tally[e]
    BY <1>6, <2>2 DEF CallFails, EntryFailed, RefreshTypeOK
  <2> QED BY <2>1, <2>3, <2>4, <2>5, CountingSettles
<1>7. CASE NextEntry(k)
  <2>1. CASE gor[k].i > Size(k)
    <3>1. gor' = [gor EXCEPT ![k].pc = "closing"] /\ tally' = tally /\ attrs' = attrs
      BY <1>7, <2>1 DEF NextEntry, Move, Size
    <3>2. gor'[k].i = gor[k].i /\ gor'[k].pc = "closing" BY <3>1 DEF RefreshTypeOK, GoroutineRecord
    <3>3. gor[k].i = Size(k) + 1 BY <2>1, <1>1, <1>2 DEF GroupInvAt
    <3>4. Apart(k) BY <3>1 DEF Apart, RefreshTypeOK
    <3> QED BY <1>1, <3>1, <3>2, <3>3, <3>4 DEF GroupInvAt, Settled, HasAnswer, Size
  <2>2. CASE ~ gor[k].i > Size(k) /\ gctx
    <3>1. gor[k].i <= Size(k) BY <2>2, <1>2
    <3>2. EntryOf(k) \in Entry BY <3>1, EntryAtHand
    <3>3. gor' = [gor EXCEPT ![k].i = @ + 1] /\ tally' = EntryFailed(EntryOf(k)) /\ attrs' = attrs
      BY <1>7, <2>2 DEF NextEntry, Size
    <3>4. gor'[k].i = gor[k].i + 1 /\ gor'[k].pc = "next" /\ \A m \in Group : m # k => gor'[m] = gor[m]
      BY <1>7, <3>3 DEF RefreshTypeOK, GoroutineRecord, NextEntry, In
    <3>5. /\ tally'[EntryOf(k)].failed > 0
          /\ \A e \in Entry : e # EntryOf(k) => attrs'[e] = attrs[e] /\ tally'[e] = tally[e]
      BY <3>2, <3>3 DEF EntryFailed, RefreshTypeOK
    <3> QED BY <3>1, <3>4, <3>5, CountingSettles
  <2>3. CASE ~ gor[k].i > Size(k) /\ ~ gctx
    <3>1. PICK pc \in {"upgrade", "read"} : gor' = [gor EXCEPT ![k].pc = pc]
      BY <1>7, <2>3 DEF NextEntry, Move, Size
    <3>2. tally' = tally /\ attrs' = attrs BY <1>7, <2>3 DEF NextEntry, Size
    <3>3. gor'[k].i = gor[k].i /\ gor'[k].pc = pc BY <3>1 DEF RefreshTypeOK, GoroutineRecord
    <3>4. gor[k].i <= Size(k) BY <2>3, <1>2
    <3>5. Apart(k) BY <3>1, <3>2 DEF Apart, RefreshTypeOK
    <3> QED BY <1>1, <3>2, <3>3, <3>4, <3>5 DEF GroupInvAt, Settled, HasAnswer, Size
  <2> QED BY <2>1, <2>2, <2>3
<1>8. CASE Upgraded(k)
  <2>1. gor[k].i <= Size(k) BY <1>8, <1>1 DEF GroupInvAt, Upgraded, In
  <2>2. gor[k].i \in 1..Size(k) /\ EntryOf(k) \in Entry /\ EntryOf(k) = Entries[k][gor[k].i]
    BY <2>1, EntryAtHand DEF EntryOf
  <2>3. tally' = tally /\ \A e \in Entry : e # EntryOf(k) => attrs'[e] = attrs[e]
    BY <1>8, <2>2 DEF Upgraded, RefreshTypeOK
  <2>4. gor'[k].i = gor[k].i /\ gor'[k].pc = "read" /\ \A m \in Group : m # k => gor'[m] = gor[m]
    BY <1>8 DEF Upgraded, Move, RefreshTypeOK, GoroutineRecord
  <2>5. Apart(k) BY <2>2, <2>3, <2>4 DEF Apart
  <2>6. \A j \in 1..(gor[k].i - 1) : Entries[k][j] \in Entry /\ Entries[k][j] # EntryOf(k)
    <3> TAKE j \in 1..(gor[k].i - 1)
    <3>1. j \in 1..Size(k) /\ j # gor[k].i BY <2>2, <1>2
    <3> QED BY <3>1, <2>2, GroupShape, SlotsDistinct
  <2> QED BY <1>1, <2>1, <2>3, <2>4, <2>5, <2>6 DEF GroupInvAt, Settled, HasAnswer, Size
<1>9. CASE Close(k)
  <2>1. gor' = [gor EXCEPT ![k].pc = "done"] /\ tally' = tally /\ attrs' = attrs /\ gor[k].pc = "closing"
    BY <1>9 DEF Close, Move, In
  <2>2. gor'[k].i = gor[k].i /\ gor'[k].pc = "done" BY <2>1 DEF RefreshTypeOK, GoroutineRecord
  <2>3. Apart(k) BY <2>1 DEF Apart, RefreshTypeOK
  <2> QED BY <1>1, <2>1, <2>2, <2>3 DEF GroupInvAt, Settled, HasAnswer, Broken, Size
<1>10. CASE OpenFails(k) BY <1>10, AbortBreaks DEF OpenFails, Move
<1>11. CASE Start(k)
  <2>1. CASE gctx BY <1>11, <2>1, AbortBreaks DEF Start, Move
  <2>2. CASE ~ gctx BY <1>11, <2>2, <1>3 DEF Start, Move
  <2> QED BY <2>1, <2>2
<1>12. CASE Discover(k) \/ ResolveSchema(k) \/ Launch(k) \/ GetSchema(k) \/ Configure(k)
  BY <1>12, <1>3 DEF Discover, ResolveSchema, Launch, GetSchema, Configure, Move
<1>13. CASE Fork(k) \/ Stop(k) BY <1>13, <1>4 DEF Fork, Stop
<1>14. ReadResource(k) \/ ReadDeferred(k) => gor[k].pc \in {"upgrade", "read"}
  BY DEF ReadResource, ReadDeferred, In
<1> QED BY <1>5, <1>6, <1>7, <1>8, <1>9, <1>10, <1>11, <1>12, <1>13, <1>14 DEF Own, Answer

LEMMA MainKeepsSettled ==
  ASSUME RefreshTypeOK, GroupInv, Main \/ Cancel \/ OtherCommit
  PROVE  GroupInv'
<1>1. attrs' = attrs /\ tally' = tally
  BY DEF Main, LoadState, BeginRefreshRun, GroupingFails, Spawn, Wait, WriteState,
         LookupStateVersionID, FinishRefreshRun, Cancel, OtherCommit, workVars
<1>2. CASE Spawn
  <2> SUFFICES ASSUME NEW m \in Group PROVE GroupInvAt(m)' BY DEF GroupInv
  <2>1. CASE m = run.next
    <3>1. gor'[m].i = gor[m].i /\ gor'[m].pc = "start"
      BY <1>2, <2>1 DEF Spawn, RefreshTypeOK, GoroutineRecord
    <3>2. GroupInvAt(m) BY DEF GroupInv
    <3> QED BY <1>1, <3>1, <3>2 DEF GroupInvAt, Settled, HasAnswer, Size
  <2>2. CASE m # run.next
    <3>1. gor'[m] = gor[m] BY <1>2, <2>2 DEF Spawn, RefreshTypeOK
    <3> QED BY <1>1, <3>1, QuietKeepsSettled
  <2> QED BY <2>1, <2>2
<1>3. CASE gor' = gor BY <1>1, <1>3, QuietKeepsSettled DEF GroupInv
<1>4. Spawn \/ gor' = gor
  BY DEF Main, LoadState, BeginRefreshRun, GroupingFails, Wait, WriteState,
         LookupStateVersionID, FinishRefreshRun, Cancel, OtherCommit, workVars
<1> QED BY <1>2, <1>3, <1>4

-----------------------------------------------------------------------------
(* Processes and the semaphore                                             *)

LEMMA GroupsKeepProcs ==
  ASSUME RefreshTypeOK, ProcInv, NEW k \in Group, Own(k) \/ Answer(k)
  PROVE  ProcInv'
<1> SUFFICES ASSUME NEW m \in Group PROVE ProcInvAt(m)' BY DEF ProcInv
<1>1. gctx => gctx'
  BY DEF Own, Answer, Start, Discover, Fork, ResolveSchema, NextEntry, Stop, Close, Launch,
         GetSchema, Configure, Upgraded, ReadResource, ReadDeferred, OpenFails, CallFails, FailFast
<1>2. CASE m # k
  <2>1. gor'[m] = gor[m] /\ proc'[m] = proc[m]
    BY <1>2 DEF Own, Answer, Start, Discover, Fork, ResolveSchema, NextEntry, Stop, Close, Launch,
         GetSchema, Configure, Upgraded, ReadResource, ReadDeferred, OpenFails, CallFails, Closed,
         Move, RefreshTypeOK
  <2> QED BY <1>1, <2>1 DEF ProcInv, ProcInvAt
<1>3. CASE m = k
  <2> USE <1>1, <1>3 DEF ProcInv, ProcInvAt, RefreshTypeOK, GoroutineRecord, Move, In, Alive
  <2>1. CASE Start(k) BY <2>1 DEF Start
  <2>2. CASE Discover(k) BY <2>2 DEF Discover
  <2>3. CASE Fork(k) BY <2>3 DEF Fork
  <2>4. CASE ResolveSchema(k) BY <2>4 DEF ResolveSchema
  <2>5. CASE NextEntry(k) BY <2>5 DEF NextEntry
  <2>6. CASE Stop(k) BY <2>6 DEF Stop
  <2>7. CASE Close(k) BY <2>7 DEF Close
  <2>8. CASE Launch(k) BY <2>8 DEF Launch
  <2>9. CASE GetSchema(k) BY <2>9 DEF GetSchema
  <2>10. CASE Configure(k) BY <2>10 DEF Configure
  <2>11. CASE Upgraded(k) BY <2>11 DEF Upgraded
  <2>12. CASE ReadResource(k) BY <2>12 DEF ReadResource
  <2>13. CASE ReadDeferred(k) BY <2>13 DEF ReadDeferred
  <2>14. CASE OpenFails(k) BY <2>14 DEF OpenFails, Closed
  <2>15. CASE CallFails(k) BY <2>15 DEF CallFails, AfterFailure
  <2> QED BY <2>1, <2>2, <2>3, <2>4, <2>5, <2>6, <2>7, <2>8, <2>9, <2>10, <2>11, <2>12, <2>13,
             <2>14, <2>15 DEF Own, Answer
<1> QED BY <1>2, <1>3

LEMMA MainKeepsProcs ==
  ASSUME RefreshTypeOK, ProcInv, MainInv, Main \/ Cancel \/ OtherCommit
  PROVE  ProcInv'
<1> SUFFICES ASSUME NEW m \in Group PROVE ProcInvAt(m)' BY DEF ProcInv
<1>1. proc' = proc /\ (gctx => gctx')
  BY DEF Main, LoadState, BeginRefreshRun, GroupingFails, Spawn, Wait, WriteState,
         LookupStateVersionID, FinishRefreshRun, Cancel, OtherCommit, workVars
<1>2. CASE Spawn /\ m = run.next
  <2>1. gor[m].pc = "waiting"
    BY <1>2, GroupShape DEF MainInv
  <2>2. gor'[m].pc = "start" BY <1>2 DEF Spawn, RefreshTypeOK, GoroutineRecord
  <2> QED BY <1>1, <2>1, <2>2 DEF ProcInv, ProcInvAt
<1>3. CASE gor'[m] = gor[m] BY <1>1, <1>3 DEF ProcInv, ProcInvAt
<1>4. (Spawn /\ m = run.next) \/ gor'[m] = gor[m]
  BY DEF Main, LoadState, BeginRefreshRun, GroupingFails, Spawn, Wait, WriteState,
         LookupStateVersionID, FinishRefreshRun, Cancel, OtherCommit, workVars, RefreshTypeOK
<1> QED BY <1>2, <1>3, <1>4

LEMMA BusyFinite == Busy \in SUBSET Group /\ IsFiniteSet(Busy) /\ Cardinality(Busy) \in Nat
<1>1. Busy \in SUBSET Group BY DEF Busy
<1>2. IsFiniteSet(Busy) BY <1>1, GroupShape, FS_Subset
<1> QED BY <1>1, <1>2, FS_CardinalityType

LEMMA StepsKeepLimit ==
  ASSUME RefreshTypeOK, LimitInv, RefreshNext
  PROVE  LimitInv'
<1>1. opts' = opts /\ opts.limit \in Nat
  <2>1. opts' = opts
    BY DEF RefreshNext, Main, LoadState, BeginRefreshRun, GroupingFails, Spawn, Wait, WriteState,
         LookupStateVersionID, FinishRefreshRun, Cancel, OtherCommit, Own, Answer, Start, Discover,
         Fork, ResolveSchema, NextEntry, Stop, Close, Launch, GetSchema, Configure, Upgraded,
         ReadResource, ReadDeferred, OpenFails, CallFails
  <2> QED BY <2>1, RefreshAssumption DEF RefreshTypeOK, OptionRecord
<1>2. CASE Spawn
  <2>1. Busy' \subseteq Busy \cup {run.next}
    BY <1>2 DEF Spawn, Busy, RefreshTypeOK
  <2>2. IsFiniteSet(Busy \cup {run.next}) /\ Cardinality(Busy \cup {run.next}) <= Cardinality(Busy) + 1
    BY BusyFinite, FS_AddElement
  <2>3. Cardinality(Busy') <= Cardinality(Busy \cup {run.next})
    BY <2>1, <2>2, FS_Subset
  <2>4. Cardinality(Busy') \in Nat /\ Cardinality(Busy \cup {run.next}) \in Nat
    BY <2>1, <2>2, FS_Subset, FS_CardinalityType
  <2>5. opts.limit > 0 => Cardinality(Busy) < opts.limit BY <1>2 DEF Spawn
  <2> QED BY <1>1, <2>2, <2>3, <2>4, <2>5, BusyFinite DEF LimitInv
<1>3. CASE Busy' \subseteq Busy
  <2>1. Cardinality(Busy') <= Cardinality(Busy) /\ Cardinality(Busy') \in Nat
    BY <1>3, BusyFinite, FS_Subset, FS_CardinalityType
  <2> QED BY <1>1, <2>1, BusyFinite DEF LimitInv
<1>4. CASE Main \/ Cancel \/ OtherCommit
  <2>1. Spawn \/ gor' = gor
    BY <1>4 DEF Main, LoadState, BeginRefreshRun, GroupingFails, Wait, WriteState,
         LookupStateVersionID, FinishRefreshRun, Cancel, OtherCommit, workVars
  <2> QED BY <1>2, <1>3, <2>1 DEF Busy
<1>5. ASSUME NEW k \in Group, Own(k) \/ Answer(k) PROVE LimitInv'
  <2>1. \A m \in Group : m # k => gor'[m] = gor[m]
    BY <1>5 DEF Own, Answer, Start, Discover, Fork, ResolveSchema, NextEntry, Stop, Close, Launch,
         GetSchema, Configure, Upgraded, ReadResource, ReadDeferred, OpenFails, CallFails,
         Move, RefreshTypeOK
  <2>2. k \in Busy \/ gor' = gor
    BY <1>5 DEF Own, Answer, Start, Discover, Fork, ResolveSchema, NextEntry, Stop, Close, Launch,
         GetSchema, Configure, Upgraded, ReadResource, ReadDeferred, OpenFails, CallFails, Busy, In
  <2> QED BY <1>3, <2>1, <2>2 DEF Busy
<1> QED BY <1>4, <1>5 DEF RefreshNext

-----------------------------------------------------------------------------
(* The main goroutine                                                      *)

(* Groups that are done, or wait, take no step that counts or answers.     *)
LEMMA DoneGroupsRest ==
  ASSUME RefreshTypeOK, NEW k \in Group, Own(k) \/ Answer(k),
         gor[k].pc \in {"waiting", "done"}
  PROVE  gor' = gor /\ tally' = tally /\ attrs' = attrs
BY DEF Own, Answer, Start, Discover, Fork, ResolveSchema, NextEntry, Stop, Close, Launch,
       GetSchema, Configure, Upgraded, ReadResource, ReadDeferred, OpenFails, CallFails, In

LEMMA GroupsKeepMain ==
  ASSUME RefreshTypeOK, MainInv, NEW k \in Group, Own(k) \/ Answer(k)
  PROVE  MainInv'
<1>1. run' = run /\ row' = row
  BY DEF Own, Answer, Start, Discover, Fork, ResolveSchema, NextEntry, Stop, Close, Launch,
         GetSchema, Configure, Upgraded, ReadResource, ReadDeferred, OpenFails, CallFails
<1>2. CASE gor' = gor /\ tally' = tally
  BY <1>1, <1>2 DEF MainInv, AllDone, Failures
<1>3. CASE gor[k].pc \notin {"waiting", "done"}
  <2>1. ~ AllDone BY <1>3 DEF AllDone
  <2>2. \A m \in Group : m # k => gor'[m] = gor[m]
    BY DEF Own, Answer, Start, Discover, Fork, ResolveSchema, NextEntry, Stop, Close, Launch,
         GetSchema, Configure, Upgraded, ReadResource, ReadDeferred, OpenFails, CallFails,
         Move, RefreshTypeOK
  <2>3. \A m \in Group : m >= run.next => gor'[m].pc = "waiting"
    BY <2>2, <1>3 DEF MainInv
  <2>4. /\ run.pc \in {"load", "begin", "spawn"} => run.wrote = 0 /\ row.status # "succeeded"
        /\ run.pc \notin {"write", "lookup", "finish"} /\ run.wrote = 0 /\ row.status # "succeeded"
    BY <2>1 DEF MainInv
  <2> QED BY <1>1, <2>3, <2>4 DEF MainInv
<1> QED BY <1>2, <1>3, DoneGroupsRest

LEMMA MainKeepsMain ==
  ASSUME RefreshTypeOK, MainInv, Main \/ Cancel \/ OtherCommit
  PROVE  MainInv'
<1>1. run \in RunRecord /\ row \in RowRecord BY DEF RefreshTypeOK
<1>2. CASE gor' = gor /\ tally' = tally /\ run'.next = run.next
           /\ (run'.pc \in {"load", "begin", "spawn"} => run'.wrote = 0 /\ row'.status # "succeeded")
           /\ (run'.pc \in {"write", "lookup", "finish"} => AllDone)
           /\ (run'.pc \in {"write", "lookup"} => Failures = {})
           /\ (run'.wrote # 0 => AllDone /\ Failures = {})
           /\ (row'.status = "succeeded" => AllDone /\ Failures = {})
  BY <1>2 DEF MainInv, AllDone, Failures
<1> USE <1>1, <1>2 DEF MainInv, RunRecord, At, Goto, workVars
<1>3. CASE LoadState BY <1>3 DEF LoadState
<1>4. CASE BeginRefreshRun BY <1>4 DEF BeginRefreshRun, RowRecord
<1>5. CASE GroupingFails BY <1>5 DEF GroupingFails
<1>6. CASE Wait
  <2>1. AllDone BY <1>6 DEF Wait, AllDone
  <2> QED BY <1>6, <2>1 DEF Wait
<1>7. CASE WriteState BY <1>7 DEF WriteState
<1>8. CASE LookupStateVersionID BY <1>8 DEF LookupStateVersionID
<1>9. CASE FinishRefreshRun
  <2>1. row'.status = "succeeded" => AllDone /\ Failures = {}
    BY <1>9 DEF FinishRefreshRun, Terminal
  <2> QED BY <1>9, <2>1 DEF FinishRefreshRun
<1>10. CASE Cancel \/ OtherCommit BY <1>10 DEF Cancel, OtherCommit
<1>11. CASE Spawn
  <2>1. run' = [run EXCEPT !.next = @ + 1] /\ run.pc = "spawn" /\ row' = row /\ tally' = tally
    BY <1>11 DEF Spawn
  <2>2. run'.pc = "spawn" /\ run'.wrote = 0 /\ row'.status # "succeeded" /\ run'.next = run.next + 1
    BY <2>1
  <2>3. ASSUME NEW m \in Group, m >= run.next + 1 PROVE gor'[m].pc = "waiting"
    <3>1. m # run.next /\ m >= run.next BY <2>3, GroupShape
    <3>2. gor'[m] = gor[m] BY <1>11, <3>1 DEF Spawn, RefreshTypeOK
    <3> QED BY <3>1, <3>2
  <2> QED BY <2>2, <2>3
<1> QED BY <1>3, <1>4, <1>5, <1>6, <1>7, <1>8, <1>9, <1>10, <1>11 DEF Main

-----------------------------------------------------------------------------
(* Theorems                                                                *)

LEMMA InitInvariant == RefreshInit => RefreshInv
<1> HAVE RefreshInit
<1>1. RefreshTypeOK BY InitTyped
<1>2. GroupInv
  BY GroupShape DEF RefreshInit, GroupInv, GroupInvAt
<1>3. ProcInv BY DEF RefreshInit, ProcInv, ProcInvAt
<1>4. LimitInv
  <2>1. Busy = {} BY DEF RefreshInit, Busy
  <2>2. opts.limit \in Nat BY RefreshAssumption DEF RefreshInit
  <2> QED BY <2>1, <2>2, FS_EmptySet DEF LimitInv
<1>5. MainInv BY DEF RefreshInit, MainInv
<1> QED BY <1>1, <1>2, <1>3, <1>4, <1>5 DEF RefreshInv

LEMMA StepsKeepInvariant == RefreshInv /\ [RefreshNext]_vars => RefreshInv'
<1> SUFFICES ASSUME RefreshInv, [RefreshNext]_vars PROVE RefreshInv' OBVIOUS
<1> USE DEF RefreshInv
<1>1. CASE RefreshNext
  <2>1. LimitInv' BY <1>1, StepsKeepLimit
  <2>2. CASE Main \/ Cancel \/ OtherCommit
    BY <2>1, <2>2, MainKeepsTypes, MainKeepsSettled, MainKeepsProcs, MainKeepsMain
  <2>3. CASE \E k \in Group : Own(k) \/ Answer(k)
    BY <2>1, <2>3, GroupsKeepTypes, GroupsKeepSettled, GroupsKeepProcs, GroupsKeepMain
  <2> QED BY <1>1, <2>2, <2>3 DEF RefreshNext
<1>2. CASE UNCHANGED vars
  BY <1>2 DEF vars, workVars, RefreshTypeOK, GroupInv, GroupInvAt, Settled, HasAnswer, Broken, Size,
              ProcInv, ProcInvAt, LimitInv, Busy, MainInv, AllDone, Failures
<1> QED BY <1>1, <1>2

(* The inductive invariant holds in every state of every run.              *)
THEOREM RefreshSafe == RefreshSpec => []RefreshInv
<1> QED BY InitInvariant, StepsKeepInvariant, PTL DEF RefreshSpec

(* The variables of a refresh keep their shapes.                           *)
THEOREM RefreshTyped == RefreshSpec => []RefreshTypeOK
<1>1. RefreshInv => RefreshTypeOK BY DEF RefreshInv
<1> QED BY <1>1, RefreshSafe, PTL

(* When every group is done and nothing failed, every instance was         *)
(* answered: a group that is done has a failure or is through its loop.    *)
LEMMA NothingFailedAllAnswered ==
  ASSUME RefreshTypeOK, GroupInv, AllDone, Failures = {}, NEW e \in Entry
  PROVE  HasAnswer(e)
<1>0. PICK k \in Group : \E j \in 1..Size(k) : Entries[k][j] = e
  BY RefreshAssumption DEF Size
<1>1. PICK j \in 1..Size(k) : Entries[k][j] = e BY <1>0
<1>2. \A f \in Entry : ~ tally[f].failed > 0 BY DEF Failures
<1>3. ~ Broken(k) BY <1>2, GroupShape DEF Broken
<1>4. gor[k].pc = "done" /\ GroupInvAt(k) BY DEF AllDone, GroupInv
<1>5. gor[k].i = Size(k) + 1 BY <1>3, <1>4 DEF GroupInvAt
<1>6. j \in 1..(gor[k].i - 1) BY <1>5, GroupShape
<1>7. Settled(e) BY <1>1, <1>4, <1>6 DEF GroupInvAt
<1> QED BY <1>2, <1>7 DEF Settled

(* commitRefreshedState is reached, and a row finished as succeeded, only  *)
(* when the provider answered for every instance of every group, for any   *)
(* number of groups, any limit and any failure or cancellation.            *)
THEOREM RefreshesWhole == RefreshSpec => []SuccessIsWhole
<1>1. RefreshInv => SuccessIsWhole
  BY NothingFailedAllAnswered DEF RefreshInv, MainInv, SuccessIsWhole, HasAnswer
<1> QED BY <1>1, RefreshSafe, PTL

(* processGroups and Open never have more provider processes alive than    *)
(* the semaphore has places, none outlives its group, and a child started  *)
(* after its Kill belongs to a cancelled run.                              *)
THEOREM ProvidersAreContained == RefreshSpec => []ProvidersContained
<1>1. RefreshInv => ProvidersContained
  <2> SUFFICES ASSUME RefreshInv PROVE ProvidersContained OBVIOUS
  <2> DEFINE Living == {k \in Group : Alive(k)}
  <2>1. Living \subseteq Busy
    BY DEF RefreshInv, ProcInv, ProcInvAt, Busy, Alive
  <2>2. Cardinality(Living) <= Cardinality(Busy) /\ Cardinality(Living) \in Nat
    BY <2>1, BusyFinite, FS_Subset, FS_CardinalityType
  <2>3. opts.limit \in Nat BY RefreshAssumption DEF RefreshInv, RefreshTypeOK, OptionRecord
  <2>4. opts.limit > 0 => Cardinality(Living) <= opts.limit
    BY <2>2, <2>3, BusyFinite DEF RefreshInv, LimitInv
  <2>5. \A k \in Group : /\ In(k, "done") => ~ Alive(k)
                         /\ proc[k] = "orphan" => gctx
    BY DEF RefreshInv, ProcInv, ProcInvAt, In, Alive
  <2> QED BY <2>4, <2>5 DEF ProvidersContained
<1> QED BY <1>1, RefreshSafe, PTL


-----------------------------------------------------------------------------
(* Reachability                                                            *)

(* A closed set around the seeds holds all that is reachable.              *)
LEMMA ReachLeast ==
  ASSUME NEW seeds, NEW next, NEW S \in SUBSET Addr, seeds \subseteq S, ClosedUnder(S, next)
  PROVE  Reach(seeds, next) \subseteq S
BY DEF Reach

(* What is reachable holds the seeds and is closed.                        *)
LEMMA ReachClosed ==
  ASSUME NEW seeds \in SUBSET Addr, NEW next, \A a \in Addr \cap DOMAIN next : next[a] \subseteq Addr
  PROVE  /\ Reach(seeds, next) \subseteq Addr
         /\ seeds \subseteq Reach(seeds, next)
         /\ ClosedUnder(Reach(seeds, next), next)
<1>1. Reach(seeds, next) \subseteq Addr /\ seeds \subseteq Reach(seeds, next) BY DEF Reach
<1>2. ASSUME NEW a \in Reach(seeds, next) \cap DOMAIN next, NEW b \in next[a]
      PROVE  b \in Reach(seeds, next)
  <2>1. b \in Addr BY <1>1, <1>2
  <2>2. SUFFICES ASSUME NEW S \in SUBSET Addr, seeds \subseteq S, ClosedUnder(S, next)
                 PROVE  b \in S
    BY <2>1 DEF Reach
  <2>3. a \in S BY <2>2 DEF Reach
  <2> QED BY <2>2, <2>3, <1>2 DEF ClosedUnder
<1> QED BY <1>1, <1>2 DEF ClosedUnder

(* The closures of a configuration are sets of addresses, around its       *)
(* roots.                                                                  *)
LEMMA ConfigShape ==
  ASSUME NEW k \in Configs
  PROVE  /\ GraphClosure[k] \subseteq Addr /\ ScanClosure[k] \subseteq Addr
         /\ Candidates(k) \subseteq Addr /\ k.roots \subseteq Addr
         /\ ConfigNodes(k) \subseteq Addr
         /\ \A a \in Addr \cap DOMAIN k.graph : k.graph[a] \subseteq Addr
<1>1. GraphClosure[k] \subseteq Addr /\ ScanClosure[k] \subseteq Addr
  BY DEF GraphClosure, ScanClosure, Reach
<1>2. Candidates(k) \subseteq Addr BY <1>1 DEF Candidates, SliceTargets
<1> QED BY <1>1, <1>2, ScopeAssumption DEF ConfigNodes

(* CloseReadSet follows an edge both ways: neither the read set nor its    *)
(* complement is left along the dependency graph.                          *)
LEMMA ReadSetClosed ==
  ASSUME NEW k \in Configs, NEW w \in SUBSET Addr
  PROVE  /\ CloseReadSet(k, w) \subseteq Addr /\ w \subseteq CloseReadSet(k, w)
         /\ ClosedUnder(CloseReadSet(k, w), k.graph)
         /\ ClosedUnder(Addr \ CloseReadSet(k, w), k.graph)
<1> DEFINE next == [a \in Addr |-> Neighbours(k, a)]
           R    == CloseReadSet(k, w)
<1>1. \A a \in Addr : Neighbours(k, a) \subseteq Addr BY ScopeAssumption DEF Neighbours
<1>2. R \subseteq Addr /\ w \subseteq R /\ ClosedUnder(R, next)
  <2>1. \A a \in Addr \cap DOMAIN next : next[a] \subseteq Addr BY <1>1
  <2> HIDE DEF next
  <2>2. R = Reach(w, next) BY DEF CloseReadSet, next
  <2> QED BY <2>1, <2>2, ReachClosed
<1>3. \A a \in R : Neighbours(k, a) \subseteq R BY <1>2 DEF ClosedUnder
<1>4. ClosedUnder(R, k.graph)
  <2>1. SUFFICES ASSUME NEW a \in R \cap DOMAIN k.graph PROVE k.graph[a] \subseteq R
    BY DEF ClosedUnder
  <2>2. k.graph[a] \subseteq Neighbours(k, a) BY <2>1 DEF Neighbours
  <2> QED BY <2>2, <1>3
<1>5. ClosedUnder(Addr \ R, k.graph)
  <2>1. SUFFICES ASSUME NEW a \in (Addr \ R) \cap DOMAIN k.graph, NEW d \in k.graph[a]
                 PROVE  d \in Addr \ R
    BY DEF ClosedUnder
  <2>2. d \in Addr BY <2>1, ScopeAssumption
  <2>3. ASSUME d \in R PROVE FALSE
    <3>1. a \in Neighbours(k, d) BY <2>1 DEF Neighbours
    <3> QED BY <3>1, <2>1, <2>3, <1>3
  <2> QED BY <2>2, <2>3
<1> QED BY <1>2, <1>4, <1>5

(* So an address linked to one that is written is read.                    *)
LEMMA LinkedRead ==
  ASSUME NEW k \in Configs, NEW w \in SUBSET Addr, NEW e \in Linked[k], e[1] \in w
  PROVE  e[2] \in CloseReadSet(k, w)
<1> DEFINE R == CloseReadSet(k, w)
<1>1. /\ R \subseteq Addr /\ w \subseteq R
      /\ ClosedUnder(R, k.graph) /\ ClosedUnder(Addr \ R, k.graph)
  BY ReadSetClosed
<1>2. /\ e[1] \in Addr /\ e[2] \in Addr
      /\ \/ Reach({e[1]}, k.graph) \cap Reach({e[2]}, k.graph) # {}
         \/ \E d \in Addr : {e[1], e[2]} \subseteq Reach({d}, k.graph)
  BY DEF Linked
<1> HIDE DEF R
<1>3. \A d \in R : Reach({d}, k.graph) \subseteq R
  <2>1. TAKE d \in R
  <2> QED BY <2>1, <1>1, ReachLeast
<1>4. \A d \in Addr \ R : Reach({d}, k.graph) \subseteq Addr \ R
  <2>1. TAKE d \in Addr \ R
  <2> QED BY <2>1, <1>1, ReachLeast
<1>5. e[1] \in R BY <1>1
<1>6. CASE Reach({e[1]}, k.graph) \cap Reach({e[2]}, k.graph) # {}
  <2>1. PICK x : x \in Reach({e[1]}, k.graph) \cap Reach({e[2]}, k.graph) BY <1>6
  <2>2. x \in R BY <2>1, <1>3, <1>5
  <2> QED BY <2>1, <2>2, <1>2, <1>4 DEF R
<1>7. CASE \E d \in Addr : {e[1], e[2]} \subseteq Reach({d}, k.graph)
  <2>1. PICK d \in Addr : {e[1], e[2]} \subseteq Reach({d}, k.graph) BY <1>7
  <2>2. d \in R BY <2>1, <1>4, <1>5
  <2> QED BY <2>1, <2>2, <1>3 DEF R
<1> QED BY <1>2, <1>6, <1>7

-----------------------------------------------------------------------------
(* The inductive invariant                                                 *)

RequestRecordOf(n) == [pc : {"none", "graph", "put", "served"}, serial : 0..n, at : 0..n]

PlanRecordOf(S) ==
  [pc : {"idle", "expand", "walk", "slice", "rows", "plan", "spec", "emitted",
         "rejected", "failed", "stale", "admitted"},
   cfg : Configs, at : S, queue : SUBSET Addr, visited : SUBSET Addr,
   meta : [fetch : SUBSET Addr, required : SUBSET Addr],
   pin : S, from : S, state : SUBSET Addr, acts : [Addr -> Action],
   write : SUBSET Addr, read : SUBSET Addr, guard : S]

PlanRecord(n) == PlanRecordOf(0..n)

TrunkInv == trunk \in Seq(Graphs) /\ Serial \in 1..MaxSerial

UniqueKeys(entries) ==
  \A i, j \in DOMAIN entries : entries[i].serial = entries[j].serial => i = j

(* One entry per serial, within the capacity, of graphs that exist.        *)
CacheInv ==
  /\ cache \in Seq([serial : Nat, at : Nat])
  /\ \A i \in DOMAIN cache : cache[i].at \in 1..Serial
  /\ Len(cache) <= MaxEntries
  /\ UniqueKeys(cache)

(* A request that has been given a graph was given one that exists.        *)
RequestInv ==
  /\ req \in [Request -> RequestRecordOf(Serial)]
  /\ \A q \in Request : req[q].pc \in {"put", "served"} => req[q].at >= 1

(* The walk has seen, or will see, the seeds and whatever is known of what *)
(* the visited addresses need.                                             *)
WalkInv ==
  /\ plan.pc \in {"idle", "expand"} => plan.visited = {}
  /\ plan.pc = "walk" =>
       /\ plan.at >= 1
       /\ Seeds(plan.cfg, plan.at) \subseteq plan.visited \cup plan.queue
       /\ \A a \in plan.visited :
            Deps(plan.cfg, plan.at, a) \cap Known(plan.cfg, plan.at) \subseteq plan.visited \cup plan.queue

(* The scope of an accepted contract leads out of itself only to addresses *)
(* the client vouches for, and fetches all it asked for that exists.       *)
ContractInv ==
  LET scope == plan.meta.fetch \cup plan.meta.required IN
  plan.pc \in {"slice", "rows"} =>
    /\ plan.at >= 1
    /\ \A a \in scope, d \in Addr :
         \/ a \in Realised(plan.at) /\ d \in Adjacency(plan.at, a)
         \/ a \in ConfigNodes(plan.cfg) /\ d \in plan.cfg.graph[a]
         => d \in scope \/ d \in Candidates(plan.cfg) \ Known(plan.cfg, plan.at)
    /\ Candidates(plan.cfg) \cap Realised(plan.at) \subseteq plan.meta.fetch

(* The contract is never newer than the pin, nor the pin than the rows; if *)
(* it is as new, what is configured, was pinned and is still in the rows   *)
(* is in the state the plan sees.                                          *)
BasisInv ==
  /\ plan.pc = "rows" => 1 <= plan.pin /\ plan.at <= plan.pin
  /\ plan.pc \in {"plan", "spec", "emitted", "admitted"} =>
       /\ plan.from >= 1
       /\ (/\ GraphClosure[plan.cfg] \subseteq SliceTargets(plan.cfg)
           /\ plan.pin >= 1 /\ plan.at >= plan.pin) =>
            GraphClosure[plan.cfg] \cap Realised(plan.pin) \cap Realised(plan.from) \subseteq plan.state

(* What Terraform would create is configured and not in its state.         *)
CreatesMissing(k, state, acts) ==
  \A a \in Addr : (acts[a] = "create" /\ BaseOf[a] = a) =>
     a \in GraphClosure[k] /\ a \notin StateSlice(k, state)

PlannedInv ==
  /\ plan.pc \in {"spec", "emitted", "admitted"} => CreatesMissing(plan.cfg, plan.state, plan.acts)
  /\ plan.pc \in {"emitted", "admitted"} => plan.read = CloseReadSet(plan.cfg, plan.write)
  /\ plan.write \subseteq plan.read

(* A plan that was let through on its serial: what it read has not changed.*)
GuardInv ==
  plan.pc = "admitted" =>
    /\ plan.guard >= 1
    /\ plan.pin >= 1 => Changed(plan.pin, plan.guard, plan.read) = {}

ScopeInv ==
  /\ TrunkInv /\ CacheInv /\ RequestInv /\ plan \in PlanRecord(Serial)
  /\ WalkInv /\ ContractInv /\ BasisInv /\ PlannedInv /\ GuardInv

-----------------------------------------------------------------------------
(* What the invariant says                                                 *)

(* The invariant types the variables.                                      *)
LEMMA InvTyped == ScopeInv => ScopeTypeOK
<1> SUFFICES ASSUME ScopeInv PROVE ScopeTypeOK OBVIOUS
<1> USE DEF ScopeInv, TrunkInv, CacheInv, UniqueKeys, PlannedInv, PlanRecord, PlanRecordOf
<1>1. Serial \in 1..MaxSerial /\ \A v \in 1..Serial : trunk[v] \in Graphs BY DEF Serial
<1>2. plan.read \subseteq Addr /\ plan.at \in 0..Serial /\ plan.pin \in 0..Serial /\ plan.from \in 0..Serial
  OBVIOUS
<1> QED BY <1>1, <1>2 DEF ScopeTypeOK

(* A contract accepted by the client is closed.                            *)
LEMMA InvClosed == ScopeInv => ContractClosed
<1> SUFFICES ASSUME ScopeInv PROVE ContractClosed OBVIOUS
<1>1. ScopeTypeOK BY InvTyped
<1> QED BY <1>1 DEF ScopeInv, ContractInv, ContractClosed

(* A plan that the guard lets through creates what the trunk lacks: by     *)
(* BasisInv what the plan would create was not both in the pinned version  *)
(* and in that of the rows, and by GuardInv its group has not changed      *)
(* since the pinned version.                                               *)
LEMMA InvTrue == ScopeInv => AdmittedPlanTrue
<1> SUFFICES ASSUME ScopeInv, AdmittedOnSerial, plan.at >= plan.pin,
                    NEW a \in plan.write, plan.acts[a] = "create", a \in Realised(plan.guard)
             PROVE  a \in Realised(plan.pin) \ Realised(plan.from)
  BY DEF AdmittedPlanTrue
<1>1. /\ plan.pc = "admitted" /\ plan.pin >= 1 /\ BaseOf[a] = a
      /\ GraphClosure[plan.cfg] \subseteq SliceTargets(plan.cfg)
  BY DEF AdmittedOnSerial, ScopeInv, PlanRecord, PlanRecordOf
<1>2. plan.write \subseteq plan.read /\ plan.write \subseteq Addr
  BY DEF ScopeInv, PlannedInv, PlanRecord, PlanRecordOf
<1>3. a \in GraphClosure[plan.cfg] /\ a \notin plan.state
  <2>1. a \in GraphClosure[plan.cfg] /\ a \notin StateSlice(plan.cfg, plan.state)
    BY <1>1, <1>2 DEF ScopeInv, PlannedInv, CreatesMissing
  <2> QED BY <2>1, <1>1 DEF StateSlice
<1>4. a \notin Realised(plan.pin) \/ a \notin Realised(plan.from)
  BY <1>1, <1>3 DEF ScopeInv, BasisInv
<1>5. ResourceGroup(plan.pin, a) = ResourceGroup(plan.guard, a)
  BY <1>1, <1>2 DEF ScopeInv, GuardInv, Changed
<1>6. <<a, trunk[plan.guard][a]>> \in ResourceGroup(plan.guard, a) BY DEF ResourceGroup
<1>7. a \in Realised(plan.pin)
  <2>1. PICK b \in Realised(plan.pin) : <<a, trunk[plan.guard][a]>> = <<b, trunk[plan.pin][b]>>
    BY <1>5, <1>6 DEF ResourceGroup
  <2> QED BY <2>1
<1> QED BY <1>4, <1>7

(* The read set of an emitted plan holds all that is linked to its writes. *)
LEMMA InvConflicts == ScopeInv => LinkedPlansConflict
<1> SUFFICES ASSUME ScopeInv, plan.pc \in {"emitted", "admitted"},
                    NEW e \in Linked[plan.cfg], e[1] \in plan.write
             PROVE  e[2] \in plan.read
  BY DEF LinkedPlansConflict
<1>1. plan.cfg \in Configs /\ plan.write \in SUBSET Addr BY DEF ScopeInv, PlanRecord, PlanRecordOf
<1>2. plan.read = CloseReadSet(plan.cfg, plan.write) BY DEF ScopeInv, PlannedInv
<1> QED BY <1>1, <1>2, LinkedRead

-----------------------------------------------------------------------------
(* Initial states                                                          *)

(* The invariant holds before the first request.                           *)
LEMMA InitInv == ScopeInit => ScopeInv
<1> SUFFICES ASSUME ScopeInit PROVE ScopeInv OBVIOUS
<1>1. PICK g \in Graphs : trunk = <<g>> BY DEF ScopeInit
<1>2. PICK k \in Configs : plan = Idle(k) BY DEF ScopeInit
<1>3. TrunkInv /\ Serial = 1 BY <1>1, ScopeAssumption DEF TrunkInv, Serial
<1>4. CacheInv BY <1>3, ScopeAssumption DEF CacheInv, UniqueKeys, ScopeInit
<1>5. RequestInv BY <1>3 DEF RequestInv, RequestRecordOf, ScopeInit, NoRequest
<1>6. plan \in PlanRecord(Serial)
  BY <1>2, <1>3 DEF PlanRecord, PlanRecordOf, Idle, NoContract, Action
<1>7. WalkInv /\ ContractInv /\ BasisInv /\ GuardInv
  BY <1>2 DEF Idle, WalkInv, ContractInv, BasisInv, GuardInv
<1>8. PlannedInv BY <1>2 DEF Idle, PlannedInv
<1> QED BY <1>3, <1>4, <1>5, <1>6, <1>7, <1>8 DEF ScopeInv

-----------------------------------------------------------------------------
(* Versions and the walk                                                   *)

(* What a version realises are addresses.                                  *)
LEMMA RealisedAddr ==
  ASSUME TrunkInv, NEW v \in 1..Serial
  PROVE  trunk[v] \in Graphs /\ Realised(v) \subseteq Addr
BY ScopeAssumption DEF TrunkInv, Serial, Realised

(* What the walk can meet are addresses.                                   *)
LEMMA KnownAddr ==
  ASSUME TrunkInv, NEW k \in Configs, NEW v \in 1..Serial
  PROVE  Known(k, v) \subseteq Addr /\ Seeds(k, v) \subseteq Addr
BY RealisedAddr, ConfigShape DEF Known, Seeds, SelectedWrite

(* The graph of a version depends on that version only.                    *)
LEMMA VersionsStay ==
  ASSUME NEW v, NEW k, trunk'[v] = trunk[v]
  PROVE  /\ Realised(v)' = Realised(v) /\ Known(k, v)' = Known(k, v)
         /\ \A a : /\ Adjacency(v, a)' = Adjacency(v, a) /\ Deps(k, v, a)' = Deps(k, v, a)
                   /\ ResourceGroup(v, a)' = ResourceGroup(v, a)
         /\ Seeds(k, v)' = Seeds(k, v)
BY DEF Realised, Adjacency, Deps, Known, Seeds, SelectedWrite, ResourceGroup

(* A finished walk that leaves nothing unknown is closed.                  *)
LEMMA WalkCloses ==
  ASSUME NEW k \in Configs, NEW v, NEW visited,
         Seeds(k, v) \subseteq visited,
         \A a \in visited : Deps(k, v, a) \cap Known(k, v) \subseteq visited,
         UnknownMissing(k, v, visited) = {},
         NEW a \in Fetch(v, visited) \cup ConfigRequired(k, v, visited), NEW d \in Addr,
         \/ a \in Realised(v) /\ d \in Adjacency(v, a)
         \/ a \in ConfigNodes(k) /\ d \in k.graph[a]
  PROVE  \/ d \in Fetch(v, visited) \cup ConfigRequired(k, v, visited)
         \/ d \in Candidates(k) \ Known(k, v)
<1>1. a \in visited BY DEF Fetch, ConfigRequired
<1>2. d \in Deps(k, v, a) BY DEF Deps
<1>3. CASE d \in Known(k, v)
  <2>1. d \in visited BY <1>1, <1>2, <1>3
  <2> QED BY <2>1, <1>3 DEF Fetch, ConfigRequired, Known
<1>4. CASE d \notin Known(k, v)
  <2> DEFINE needed  == UNION {Deps(k, v, b) : b \in visited}
             missing == (k.roots \cup Candidates(k)) \ Realised(v)
  <2>1. d \in needed BY <1>1, <1>2
  <2>3. UnknownMissing(k, v, visited)
          = ((missing \ Removed(k)) \cup (needed \ Known(k, v))) \ Candidates(k)
    BY DEF UnknownMissing
  <2> HIDE DEF needed, missing
  <2>2. d \in Candidates(k) BY <2>1, <2>3, <1>4
  <2> QED BY <2>2, <1>4
<1> QED BY <1>3, <1>4

(* Terraform creates only what is configured and missing.                  *)
LEMMA TerraformCreatesMissing ==
  ASSUME NEW k \in Configs, NEW state \in SUBSET Addr,
         NEW acts \in TerraformActions(k, StateSlice(k, state))
  PROVE  acts \in [Addr -> Action] /\ CreatesMissing(k, state, acts)
<1> DEFINE slice   == StateSlice(k, state)
           planned == UNION {Instances(b) : b \in GraphClosure[k] \cap DOMAIN k.graph}
           orphans == slice \ planned
           Fate(a) == IF a \in k.removed THEN {"delete", "forget"} ELSE {"none", "delete"}
           Decided(keep, gone) ==
             [a \in Addr |-> CASE a \in planned \cap slice -> keep[a]
                               [] a \in planned \ slice    -> "create"
                               [] a \in orphans            -> gone[a]
                               [] OTHER                    -> "none"]
<1>1. PICK keep \in [planned \cap slice -> {"none", "update", "replace"}] :
        acts \in {Decided(keep, gone) :
                    gone \in {g \in [orphans -> Action] : \A a \in orphans : g[a] \in Fate(a)}}
  BY DEF TerraformActions
<1>2. PICK gone \in [orphans -> Action] :
        acts = Decided(keep, gone) /\ \A a \in orphans : gone[a] \in Fate(a)
  BY <1>1
<1>3. \A a \in Addr : acts[a] = "create" => a \in planned \ slice
  <2>1. TAKE a \in Addr
  <2>2. CASE a \in planned \cap slice BY <2>2, <1>1, <1>2
  <2>3. CASE a \in orphans
    <3>1. gone[a] \in Fate(a) /\ acts[a] = gone[a] BY <2>3, <1>2
    <3> QED BY <3>1
  <2>4. CASE a \notin planned /\ a \notin slice BY <2>4, <1>2
  <2> QED BY <2>2, <2>3, <2>4
<1>4. acts \in [Addr -> Action]
  <2>1. \A a \in Addr : acts[a] \in Action
    <3>1. TAKE a \in Addr
    <3>2. CASE a \in planned \cap slice
      <4>1. acts[a] = keep[a] /\ keep[a] \in {"none", "update", "replace"} BY <3>2, <1>1, <1>2
      <4> QED BY <4>1 DEF Action
    <3>3. CASE a \in planned \ slice BY <3>3, <1>2 DEF Action
    <3>4. CASE a \in orphans BY <3>4, <1>2
    <3>5. CASE a \notin planned /\ a \notin slice BY <3>5, <1>2 DEF Action
    <3> QED BY <3>2, <3>3, <3>4, <3>5
  <2>2. acts = [a \in Addr |-> acts[a]] BY <1>2
  <2> QED BY <2>1, <2>2
<1>5. ASSUME NEW a \in Addr, acts[a] = "create", BaseOf[a] = a
      PROVE  a \in GraphClosure[k] /\ a \notin slice
  <2>1. a \in planned \ slice BY <1>3, <1>5
  <2> HIDE DEF slice
  <2>2. PICK b \in GraphClosure[k] \cap DOMAIN k.graph : a \in Instances(b) BY <2>1
  <2>3. a = b BY <2>2, <1>5 DEF Instances
  <2> QED BY <2>1, <2>2, <2>3
<1> QED BY <1>4, <1>5 DEF CreatesMissing

-----------------------------------------------------------------------------
(* Commits and the cache                                                   *)

(* Another writer appends a version and disturbs none that exists.         *)
LEMMA CommitKeepsInv ==
  ASSUME ScopeInv, Commit
  PROVE  ScopeInv'
<1> USE DEF Commit
<1>1. PICK g \in Graphs : trunk' = Append(trunk, g) OBVIOUS
<1>2. /\ trunk \in Seq(Graphs) /\ Serial \in 1..MaxSerial /\ Serial < MaxSerial
      /\ Serial \in Nat /\ MaxSerial \in Nat
  BY ScopeAssumption DEF ScopeInv, TrunkInv
<1>3. trunk' \in Seq(Graphs) /\ Serial' = Serial + 1 BY <1>1, <1>2 DEF Serial
<1>4. \A v \in 1..Serial : trunk'[v] = trunk[v] BY <1>1, <1>2 DEF Serial
<1>5. TrunkInv' BY <1>2, <1>3 DEF TrunkInv
<1>6. CacheInv'
  <2>1. cache' = cache /\ CacheInv BY DEF ScopeInv
  <2> QED BY <2>1, <1>2, <1>3 DEF CacheInv
<1>7. RequestInv' BY <1>2, <1>3 DEF ScopeInv, RequestInv, RequestRecordOf
<1>8. plan \in PlanRecord(Serial) BY DEF ScopeInv
<1>9. (plan \in PlanRecord(Serial))'
  <2>1. plan' = plan /\ 0..Serial \subseteq 0..(Serial + 1) BY <1>2
  <2> QED BY <2>1, <1>3, <1>8 DEF PlanRecord, PlanRecordOf
<1>10. /\ plan.at \in 0..Serial /\ plan.pin \in 0..Serial /\ plan.from \in 0..Serial
       /\ plan.guard \in 0..Serial
  BY <1>8 DEF PlanRecord, PlanRecordOf
<1>11. WalkInv'
  <2>1. SUFFICES ASSUME plan.pc = "walk" PROVE WalkInv' BY DEF WalkInv, ScopeInv
  <2>2. plan.at \in 1..Serial BY <2>1, <1>2, <1>10 DEF ScopeInv, WalkInv
  <2> DEFINE v == plan.at
  <2>3. PICK n, k : n = plan.at /\ k = plan.cfg OBVIOUS
  <2>4. trunk'[n] = trunk[n] BY <2>2, <2>3, <1>4
  <2>5. /\ Seeds(k, n)' = Seeds(k, n) /\ Known(k, n)' = Known(k, n)
        /\ \A a : Deps(k, n, a)' = Deps(k, n, a)
    BY <2>4, VersionsStay
  <2> QED BY <2>1, <2>2, <2>3, <2>5 DEF ScopeInv, WalkInv
<1>12. ContractInv'
  <2>1. SUFFICES ASSUME plan.pc \in {"slice", "rows"} PROVE ContractInv' BY DEF ContractInv
  <2>2. plan.at \in 1..Serial BY <2>1, <1>2, <1>10 DEF ScopeInv, ContractInv
  <2>3. PICK n, k : n = plan.at /\ k = plan.cfg OBVIOUS
  <2>4. trunk'[n] = trunk[n] BY <2>2, <2>3, <1>4
  <2>5. /\ Realised(n)' = Realised(n) /\ Known(k, n)' = Known(k, n)
        /\ \A a : Adjacency(n, a)' = Adjacency(n, a)
    BY <2>4, VersionsStay
  <2> QED BY <2>1, <2>2, <2>3, <2>5 DEF ScopeInv, ContractInv
<1>13. BasisInv'
  <2>1. plan.pc = "rows" => 1 <= plan.pin /\ plan.at <= plan.pin BY DEF ScopeInv, BasisInv
  <2>2. ASSUME plan.pc \in {"plan", "spec", "emitted", "admitted"}
        PROVE  /\ plan.from >= 1
               /\ (/\ GraphClosure[plan.cfg] \subseteq SliceTargets(plan.cfg)
                   /\ plan.pin >= 1 /\ plan.at >= plan.pin) =>
                     GraphClosure[plan.cfg] \cap Realised(plan.pin)' \cap Realised(plan.from)' \subseteq plan.state
    <3>1. plan.from >= 1 BY <2>2 DEF ScopeInv, BasisInv
    <3>2. ASSUME plan.pin >= 1 PROVE Realised(plan.pin)' = Realised(plan.pin) /\ Realised(plan.from)' = Realised(plan.from)
      <4>1. PICK n, m : n = plan.pin /\ m = plan.from OBVIOUS
      <4>2. n \in 1..Serial /\ m \in 1..Serial BY <4>1, <3>1, <3>2, <1>2, <1>10
      <4>4. trunk'[n] = trunk[n] /\ trunk'[m] = trunk[m] BY <4>2, <1>4
      <4>3. Realised(n)' = Realised(n) /\ Realised(m)' = Realised(m) BY <4>4 DEF Realised
      <4> QED BY <4>1, <4>3
    <3> QED BY <2>2, <3>1, <3>2 DEF ScopeInv, BasisInv
  <2> QED BY <2>1, <2>2 DEF BasisInv
<1>14. PlannedInv' BY DEF ScopeInv, PlannedInv
<1>15. GuardInv'
  <2>1. SUFFICES ASSUME plan.pc = "admitted" PROVE GuardInv' BY DEF GuardInv
  <2>2. plan.guard >= 1 BY <2>1 DEF ScopeInv, GuardInv
  <2>3. ASSUME plan.pin >= 1 PROVE Changed(plan.pin, plan.guard, plan.read)' = {}
    <3>1. PICK n, m, r : n = plan.pin /\ m = plan.guard /\ r = plan.read OBVIOUS
    <3>2. n \in 1..Serial /\ m \in 1..Serial BY <3>1, <2>2, <2>3, <1>2, <1>10
    <3>6. trunk'[n] = trunk[n] /\ trunk'[m] = trunk[m] BY <3>2, <1>4
    <3>3. \A a : ResourceGroup(n, a)' = ResourceGroup(n, a) /\ ResourceGroup(m, a)' = ResourceGroup(m, a)
      BY <3>6, VersionsStay
    <3>4. Changed(n, m, r) = {} BY <3>1, <2>1, <2>3 DEF ScopeInv, GuardInv
    <3>5. Changed(n, m, r)' = {} BY <3>3, <3>4 DEF Changed
    <3> QED BY <3>1, <3>5
  <2> QED BY <2>2, <2>3 DEF GuardInv
<1> QED BY <1>5, <1>6, <1>7, <1>9, <1>11, <1>12, <1>13, <1>14, <1>15 DEF ScopeInv

(* Taking an entry out of the cache, or the oldest, leaves the others.     *)
PartOf(t, s)   == \A i \in DOMAIN t : \E j \in DOMAIN s : t[i] = s[j]
Grown(t, s, e) == \A i \in DOMAIN t : (i \in DOMAIN s /\ t[i] = s[i]) \/ t[i] = e
FreeKey(s, n)  == \A i \in DOMAIN s : s[i].serial # n

(* A cache without its oldest entry has one entry per serial.              *)
LEMMA TailKeepsEntries ==
  ASSUME NEW R, NEW s \in Seq(R), s # <<>>, UniqueKeys(s), NEW t, t = Tail(s)
  PROVE  t \in Seq(R) /\ Len(t) = Len(s) - 1 /\ PartOf(t, s) /\ UniqueKeys(t)
<1>1. t \in Seq(R) /\ Len(t) = Len(s) - 1 OBVIOUS
<1>2. DOMAIN t = 1..(Len(s) - 1) /\ DOMAIN s = 1..Len(s) /\ Len(s) \in Nat BY <1>1
<1>3. \A i \in DOMAIN t : t[i] = s[i + 1] /\ i + 1 \in DOMAIN s BY <1>2
<1>4. ASSUME NEW i \in DOMAIN t, NEW j \in DOMAIN t, t[i].serial = t[j].serial PROVE i = j
  <2>1. s[i + 1].serial = s[j + 1].serial /\ i + 1 \in DOMAIN s /\ j + 1 \in DOMAIN s BY <1>3, <1>4
  <2>2. i + 1 = j + 1 BY <2>1 DEF UniqueKeys
  <2> QED BY <2>2, <1>2
<1> QED BY <1>1, <1>3, <1>4 DEF PartOf, UniqueKeys

(* Removing an entry shifts those behind it.                               *)
LEMMA RemovingOne ==
  ASSUME NEW R, NEW s \in Seq(R), NEW m \in 1..Len(s), NEW t, t = RemoveAt(s, m)
  PROVE  /\ t \in Seq(R) /\ Len(t) = Len(s) - 1
         /\ \A i \in 1..(Len(s) - 1) : t[i] = IF i < m THEN s[i] ELSE s[i + 1]
<1> DEFINE u == SubSeq(s, 1, m - 1)
           w == SubSeq(s, m + 1, Len(s))
<1>1. Len(s) \in Nat /\ m \in Nat /\ m >= 1 /\ m <= Len(s) OBVIOUS
<1>2. \A i \in 1..Len(s) : s[i] \in R OBVIOUS
<1>3. u \in Seq(R) /\ Len(u) = m - 1 /\ \A i \in 1..(m - 1) : u[i] = s[i]
  <2>1. 1 \in Int /\ m - 1 \in Int /\ \A i \in 1..(m - 1) : s[i] \in R BY <1>1, <1>2
  <2>2. /\ u \in Seq(R) /\ Len(u) = IF 1 <= m - 1 THEN m - 1 - 1 + 1 ELSE 0
        /\ \A i \in 1..(m - 1 - 1 + 1) : u[i] = s[1 + i - 1]
    BY <2>1, SubSeqProperties
  <2>3. m - 1 - 1 + 1 = m - 1 /\ \A i \in 1..(m - 1) : 1 + i - 1 = i BY <1>1
  <2> QED BY <2>2, <2>3, <1>1
<1>4. w \in Seq(R) /\ Len(w) = Len(s) - m /\ \A i \in 1..(Len(s) - m) : w[i] = s[m + i]
  <2>1. m + 1 \in Int /\ Len(s) \in Int /\ \A i \in (m + 1)..Len(s) : s[i] \in R BY <1>1, <1>2
  <2>2. /\ w \in Seq(R) /\ Len(w) = IF m + 1 <= Len(s) THEN Len(s) - (m + 1) + 1 ELSE 0
        /\ \A i \in 1..(Len(s) - (m + 1) + 1) : w[i] = s[(m + 1) + i - 1]
    BY <2>1, SubSeqProperties
  <2>3. Len(s) - (m + 1) + 1 = Len(s) - m /\ \A i \in 1..(Len(s) - m) : (m + 1) + i - 1 = m + i
    BY <1>1
  <2> HIDE DEF w
  <2>4. Len(w) = Len(s) - m BY <2>2, <1>1
  <2>5. \A i \in 1..(Len(s) - m) : w[i] = s[m + i]
    <3>1. TAKE i \in 1..(Len(s) - m)
    <3>2. i \in 1..(Len(s) - (m + 1) + 1) BY <2>3
    <3> QED BY <3>2, <2>2, <2>3
  <2> QED BY <2>2, <2>4, <2>5
<1>5. t = u \o w BY DEF RemoveAt
<1> HIDE DEF u, w
<1>6. /\ t \in Seq(R) /\ Len(t) = (m - 1) + (Len(s) - m)
      /\ \A i \in 1..((m - 1) + (Len(s) - m)) : t[i] = IF i <= m - 1 THEN u[i] ELSE w[i - (m - 1)]
  <2>1. /\ t \in Seq(R) /\ Len(t) = Len(u) + Len(w)
        /\ \A i \in 1..(Len(u) + Len(w)) : t[i] = IF i <= Len(u) THEN u[i] ELSE w[i - Len(u)]
    <3>1. u \in Seq(R) /\ w \in Seq(R) BY <1>3, <1>4
    <3> QED BY <3>1, <1>5, ConcatProperties, ZenonT(30)
  <2>2. Len(u) = m - 1 /\ Len(w) = Len(s) - m BY <1>3, <1>4
  <2> QED BY <2>1, <2>2
<1>7. (m - 1) + (Len(s) - m) = Len(s) - 1 BY <1>1
<1>8. ASSUME NEW i \in 1..(Len(s) - 1) PROVE t[i] = IF i < m THEN s[i] ELSE s[i + 1]
  <2>1. CASE i < m
    <3>1. i \in 1..(m - 1) /\ i <= m - 1 BY <2>1, <1>1
    <3> QED BY <3>1, <2>1, <1>3, <1>6, <1>7
  <2>2. CASE ~ (i < m)
    <3>1. i - (m - 1) \in 1..(Len(s) - m) /\ ~ (i <= m - 1) /\ m + (i - (m - 1)) = i + 1
      BY <2>2, <1>1
    <3> QED BY <3>1, <2>2, <1>4, <1>6, <1>7
  <2> QED BY <2>1, <2>2
<1> QED BY <1>6, <1>7, <1>8

(* A cache without the entry of a serial has none under it.                *)
LEMMA DroppedKeepsEntries ==
  ASSUME NEW R, NEW s \in Seq(R), NEW n, UniqueKeys(s), NEW t, t = Dropped(s, n)
  PROVE  /\ t \in Seq(R) /\ Len(t) <= Len(s) /\ PartOf(t, s) /\ UniqueKeys(t)
         /\ FreeKey(t, n)
<1>1. CASE ~ \E i \in DOMAIN s : s[i].serial = n
  <2>1. t = s BY <1>1 DEF Dropped
  <2> QED BY <2>1, <1>1 DEF PartOf, FreeKey
<1>2. CASE \E i \in DOMAIN s : s[i].serial = n
  <2>1. PICK m \in DOMAIN s : s[m].serial = n /\ t = RemoveAt(s, m) BY <1>2 DEF Dropped
  <2>2. m \in 1..Len(s) /\ Len(s) \in Nat /\ DOMAIN s = 1..Len(s) OBVIOUS
  <2>3. /\ t \in Seq(R) /\ Len(t) = Len(s) - 1
        /\ \A i \in 1..(Len(s) - 1) : t[i] = IF i < m THEN s[i] ELSE s[i + 1]
    BY <2>1, <2>2, RemovingOne, ZenonT(30)
  <2>4. DOMAIN t = 1..(Len(s) - 1) BY <2>3
  <2> DEFINE Old(i) == IF i < m THEN i ELSE i + 1
  <2>5. \A i \in DOMAIN t : Old(i) \in DOMAIN s /\ Old(i) # m /\ t[i] = s[Old(i)]
    <3>1. TAKE i \in DOMAIN t
    <3>2. i \in 1..(Len(s) - 1) /\ i \in Nat BY <2>2, <2>4
    <3>3. CASE i < m BY <3>2, <3>3, <2>2, <2>3
    <3>4. CASE ~ (i < m)
      <4>1. Old(i) = i + 1 BY <3>4
      <4>2. i + 1 \in 1..Len(s) /\ i + 1 # m BY <3>2, <3>4, <2>2
      <4>3. t[i] = s[i + 1] BY <3>2, <3>4, <2>3
      <4> QED BY <4>1, <4>2, <4>3, <2>2
    <3> QED BY <3>3, <3>4
  <2>6. \A i, j \in DOMAIN t : Old(i) = Old(j) => i = j BY <2>2, <2>4
  <2> HIDE DEF Old
  <2>7. PartOf(t, s) BY <2>5 DEF PartOf
  <2>8. UniqueKeys(t) BY <2>5, <2>6 DEF UniqueKeys
  <2>9. FreeKey(t, n) BY <2>1, <2>5 DEF UniqueKeys, FreeKey
  <2> QED BY <2>2, <2>3, <2>7, <2>8, <2>9
<1> QED BY <1>1, <1>2

(* An entry under a new serial may be added.                               *)
LEMMA AppendingNew ==
  ASSUME NEW R, NEW s \in Seq(R), NEW e \in R, UniqueKeys(s),
         FreeKey(s, e.serial), NEW t, t = Append(s, e)
  PROVE  /\ t \in Seq(R) /\ Len(t) = Len(s) + 1 /\ UniqueKeys(t) /\ Grown(t, s, e)
<1>1. /\ t \in Seq(R) /\ Len(t) = Len(s) + 1 /\ Len(s) \in Nat
      /\ DOMAIN t = 1..(Len(s) + 1) /\ DOMAIN s = 1..Len(s)
      /\ \A i \in 1..Len(s) : t[i] = s[i]
      /\ t[Len(s) + 1] = e
  OBVIOUS
<1>2. \A i \in DOMAIN t : i \in DOMAIN s \/ i = Len(s) + 1 BY <1>1
<1>3. \A i, j \in DOMAIN t : t[i].serial = t[j].serial => i = j
  <2>1. SUFFICES ASSUME NEW i \in DOMAIN t, NEW j \in DOMAIN t, t[i].serial = t[j].serial
                 PROVE  i = j
    OBVIOUS
  <2>2. CASE i \in DOMAIN s /\ j \in DOMAIN s BY <2>1, <2>2, <1>1 DEF UniqueKeys
  <2>3. CASE i \in DOMAIN s /\ j = Len(s) + 1 BY <2>1, <2>3, <1>1 DEF FreeKey
  <2>4. CASE j \in DOMAIN s /\ i = Len(s) + 1 BY <2>1, <2>4, <1>1 DEF FreeKey
  <2>5. CASE i = Len(s) + 1 /\ j = Len(s) + 1 BY <2>5
  <2> QED BY <2>2, <2>3, <2>4, <2>5, <1>2
<1> QED BY <1>1, <1>2, <1>3 DEF UniqueKeys, Grown

CacheEntry == [serial : Nat, at : Nat]

(* Expiry keeps the cache well formed.                                     *)
LEMMA ExpireKeepsCache ==
  ASSUME ScopeInv, Expire
  PROVE  CacheInv'
<1>1. cache # <<>> /\ cache' = Tail(cache) /\ trunk' = trunk BY DEF Expire
<1>2. CacheInv /\ Serial' = Serial BY <1>1 DEF ScopeInv, Serial
<1>3. PICK s, t : s = cache /\ t = cache' OBVIOUS
<1>4. t \in Seq(CacheEntry) /\ Len(t) = Len(s) - 1 /\ PartOf(t, s) /\ UniqueKeys(t)
  <2>1. s \in Seq(CacheEntry) /\ s # <<>> /\ t = Tail(s) /\ UniqueKeys(s)
    BY <1>1, <1>2, <1>3 DEF CacheInv, CacheEntry
  <2> QED BY <2>1, TailKeepsEntries
<1>5. Len(s) <= MaxEntries BY <1>2, <1>3 DEF CacheInv
<1>6. Len(t) <= MaxEntries
  <2>1. Len(t) \in Nat BY <1>4
  <2> QED BY <2>1, <1>4, <1>5, ScopeAssumption
<1>7. \A i \in DOMAIN t : t[i].at \in 1..Serial BY <1>2, <1>3, <1>4 DEF CacheInv, PartOf
<1> QED BY <1>2, <1>3, <1>4, <1>6, <1>7 DEF CacheInv, CacheEntry

(* put evicts, drops and appends: at most one entry per serial stays, and  *)
(* no more than the capacity.                                              *)
LEMMA PutKeepsCache ==
  ASSUME ScopeInv, NEW q \in Request, PutGraph(q)
  PROVE  CacheInv'
<1>1. /\ trunk' = trunk /\ Serial' = Serial /\ CacheInv /\ req[q].pc = "put"
      /\ cache' = Append(Dropped(Evicted, req[q].serial), Snapshot(q))
  BY DEF ScopeInv, PutGraph, Ask, Serial
<1>2. PICK e, n, s : e = Snapshot(q) /\ n = req[q].serial /\ s = Evicted OBVIOUS
<1>3. e \in CacheEntry /\ e.serial = n /\ e.at \in 1..Serial
  <2>1. req[q] \in RequestRecordOf(Serial) /\ req[q].at >= 1 BY <1>1 DEF ScopeInv, RequestInv
  <2>2. Serial \in Nat BY ScopeAssumption DEF ScopeInv, TrunkInv
  <2> QED BY <2>1, <2>2, <1>2 DEF RequestRecordOf, Snapshot, CacheEntry
<1>4. s \in Seq(CacheEntry) /\ Len(s) < MaxEntries /\ PartOf(s, cache) /\ UniqueKeys(s)
  <2>0. /\ cache \in Seq(CacheEntry) /\ Len(cache) <= MaxEntries /\ UniqueKeys(cache)
        /\ Len(cache) \in Nat /\ MaxEntries \in Nat /\ MaxEntries >= 1
    BY <1>1, ScopeAssumption DEF CacheInv, CacheEntry
  <2>1. CASE Len(cache) >= MaxEntries
    <3>1. cache # <<>> /\ s = Tail(cache) BY <2>0, <2>1, <1>2 DEF Evicted
    <3>2. PICK b : b = cache OBVIOUS
    <3>3. b \in Seq(CacheEntry) /\ b # <<>> /\ s = Tail(b) /\ UniqueKeys(b) BY <2>0, <3>1, <3>2
    <3>4. s \in Seq(CacheEntry) /\ Len(s) = Len(b) - 1 /\ PartOf(s, b) /\ UniqueKeys(s)
      BY <3>3, TailKeepsEntries
    <3> QED BY <2>0, <3>2, <3>4
  <2>2. CASE ~ (Len(cache) >= MaxEntries)
    <3>1. s = cache BY <2>2, <1>2 DEF Evicted
    <3> QED BY <2>0, <2>2, <3>1 DEF PartOf
  <2> QED BY <2>1, <2>2
<1>5. PICK t : t = Dropped(s, n) OBVIOUS
<1>6. /\ t \in Seq(CacheEntry) /\ Len(t) <= Len(s) /\ PartOf(t, s) /\ UniqueKeys(t)
      /\ FreeKey(t, n)
  BY <1>4, <1>5, DroppedKeepsEntries
<1>7. PICK u : u = Append(t, e) OBVIOUS
<1>8. /\ u \in Seq(CacheEntry) /\ Len(u) = Len(t) + 1 /\ UniqueKeys(u) /\ Grown(u, t, e)
  <2>1. t \in Seq(CacheEntry) /\ e \in CacheEntry /\ UniqueKeys(t) /\ u = Append(t, e)
    BY <1>3, <1>6, <1>7
  <2>2. FreeKey(t, e.serial) BY <1>3, <1>6
  <2> QED BY <2>1, <2>2, AppendingNew, ZenonT(30)
<1>9. Len(u) <= MaxEntries
  <2>1. Len(s) \in Nat /\ Len(t) \in Nat /\ MaxEntries \in Nat BY <1>4, <1>6, ScopeAssumption
  <2> QED BY <2>1, <1>4, <1>6, <1>8
<1>10. \A i \in DOMAIN u : u[i].at \in 1..Serial
  <2>1. \A i \in DOMAIN cache : cache[i].at \in 1..Serial BY <1>1 DEF CacheInv
  <2>2. \A i \in DOMAIN s : s[i].at \in 1..Serial BY <2>1, <1>4 DEF PartOf
  <2>3. \A i \in DOMAIN t : t[i].at \in 1..Serial BY <2>2, <1>6 DEF PartOf
  <2> QED BY <2>3, <1>3, <1>8 DEF Grown
<1>11. cache' = u BY <1>1, <1>2, <1>5, <1>7
<1> QED BY <1>1, <1>8, <1>9, <1>10, <1>11 DEF CacheInv, CacheEntry

-----------------------------------------------------------------------------
(* Requests and the planner                                                *)

(* A request is answered from a version that exists.                       *)
LEMMA ServeKeepsRequests ==
  ASSUME ScopeInv, NEW q \in Request, Serve(q) \/ Answered(q)
  PROVE  RequestInv' /\ trunk' = trunk /\ plan' = plan
<1> USE DEF Serve, Ask
<1>1. trunk' = trunk /\ plan' = plan /\ Serial' = Serial
  BY DEF ResolveInfo, CacheHit, LoadGraph, PutGraph, Answered, Serial
<1>2. Serial \in Nat /\ Serial >= 1 BY ScopeAssumption DEF ScopeInv, TrunkInv
<1>3. PICK r : r = req' OBVIOUS
<1>4. \E upd \in RequestRecordOf(Serial) :
        /\ r = [req EXCEPT ![q] = upd]
        /\ upd.pc \in {"put", "served"} => upd.at >= 1
  <2>1. req[q] \in RequestRecordOf(Serial) /\ (req[q].pc = "put" => req[q].at >= 1)
    BY DEF ScopeInv, RequestInv
  <2>2. CASE ResolveInfo(q)
    <3>1. [pc |-> "graph", serial |-> Serial, at |-> 0] \in RequestRecordOf(Serial)
      BY <1>2 DEF RequestRecordOf
    <3> QED BY <3>1, <2>2, <1>3 DEF ResolveInfo
  <2>3. CASE CacheHit(q)
    <3>1. PICK i \in DOMAIN cache : r = [req EXCEPT ![q] = [req[q] EXCEPT !.pc = "served", !.at = cache[i].at]]
      BY <2>3, <1>3 DEF CacheHit, Cached
    <3>2. PICK n : n = cache[i].at OBVIOUS
    <3>3. n \in 1..Serial BY <3>2 DEF ScopeInv, CacheInv
    <3>4. PICK o, sn : o = req[q] /\ sn = Serial OBVIOUS
    <3>5. o \in RequestRecordOf(sn) /\ n \in 0..sn BY <2>1, <3>3, <3>4, <1>2
    <3>6. [o EXCEPT !.pc = "served", !.at = n] \in RequestRecordOf(sn) BY <3>5 DEF RequestRecordOf
    <3>7. [o EXCEPT !.pc = "served", !.at = n].at = n BY <3>5 DEF RequestRecordOf
    <3> DEFINE upd == [o EXCEPT !.pc = "served", !.at = n]
    <3>8. r = [req EXCEPT ![q] = upd] BY <3>1, <3>2, <3>4
    <3> HIDE DEF upd
    <3>9. upd \in RequestRecordOf(Serial) /\ upd.at >= 1 BY <3>3, <3>4, <3>6, <3>7, <1>2 DEF upd
    <3> QED BY <3>8, <3>9
  <2>4. CASE LoadGraph(q)
    <3>4. PICK o, sn : o = req[q] /\ sn = Serial OBVIOUS
    <3>5. o \in RequestRecordOf(sn) /\ sn \in 0..sn BY <2>1, <3>4, <1>2
    <3>6. [o EXCEPT !.pc = "put", !.at = sn] \in RequestRecordOf(sn) BY <3>5 DEF RequestRecordOf
    <3>7. [o EXCEPT !.pc = "put", !.at = sn].at = sn BY <3>5 DEF RequestRecordOf
    <3> QED BY <3>4, <3>6, <3>7, <2>4, <1>2, <1>3 DEF LoadGraph
  <2>5. CASE PutGraph(q)
    <3>1. [req[q] EXCEPT !.pc = "served"] \in RequestRecordOf(Serial)
      BY <2>1 DEF RequestRecordOf
    <3>2. [req[q] EXCEPT !.pc = "served"].at = req[q].at BY <2>1 DEF RequestRecordOf
    <3>3. req[q].pc = "put" BY <2>5 DEF PutGraph
    <3> QED BY <3>1, <3>2, <3>3, <2>1, <2>5, <1>3 DEF PutGraph
  <2>6. CASE Answered(q)
    <3>1. NoRequest \in RequestRecordOf(Serial) /\ NoRequest.pc = "none"
      BY <1>2 DEF RequestRecordOf, NoRequest
    <3> QED BY <3>1, <2>6, <1>3 DEF Answered
  <2> QED BY <2>2, <2>3, <2>4, <2>5, <2>6
<1>5. r \in [Request -> RequestRecordOf(Serial)]
      /\ \A p \in Request : r[p].pc \in {"put", "served"} => r[p].at >= 1
  BY <1>4 DEF ScopeInv, RequestInv
<1> QED BY <1>1, <1>3, <1>5 DEF RequestInv, RequestRecordOf

(* Only put changes the cache.                                             *)
LEMMA ServeKeepsCache ==
  ASSUME ScopeInv, NEW q \in Request, Serve(q) \/ Answered(q)
  PROVE  CacheInv'
<1>1. CASE PutGraph(q) BY <1>1, PutKeepsCache
<1>2. CASE ~ PutGraph(q)
  <2>1. cache' = cache /\ Serial' = Serial
    BY <1>2 DEF Serve, ResolveInfo, CacheHit, LoadGraph, Answered, Serial
  <2> QED BY <2>1 DEF ScopeInv, CacheInv
<1> QED BY <1>1, <1>2

(* What the planner knows does not change while it rests.                  *)
PlanInv ==
  /\ plan \in PlanRecord(Serial)
  /\ WalkInv /\ ContractInv /\ BasisInv /\ PlannedInv /\ GuardInv

(* What a step of the planner has to establish, of the plan it leaves.     *)
PlanInvOf(p) ==
  /\ p \in PlanRecord(Serial)
  /\ p.pc \in {"idle", "expand"} => p.visited = {}
  /\ p.pc = "walk" =>
       /\ p.at >= 1
       /\ Seeds(p.cfg, p.at) \subseteq p.visited \cup p.queue
       /\ \A a \in p.visited :
            Deps(p.cfg, p.at, a) \cap Known(p.cfg, p.at) \subseteq p.visited \cup p.queue
  /\ p.pc \in {"slice", "rows"} =>
       /\ p.at >= 1
       /\ \A a \in p.meta.fetch \cup p.meta.required, d \in Addr :
            \/ a \in Realised(p.at) /\ d \in Adjacency(p.at, a)
            \/ a \in ConfigNodes(p.cfg) /\ d \in p.cfg.graph[a]
            => d \in p.meta.fetch \cup p.meta.required \/ d \in Candidates(p.cfg) \ Known(p.cfg, p.at)
       /\ Candidates(p.cfg) \cap Realised(p.at) \subseteq p.meta.fetch
  /\ p.pc = "rows" => 1 <= p.pin /\ p.at <= p.pin
  /\ p.pc \in {"plan", "spec", "emitted", "admitted"} =>
       /\ p.from >= 1
       /\ (/\ GraphClosure[p.cfg] \subseteq SliceTargets(p.cfg)
           /\ p.pin >= 1 /\ p.at >= p.pin) =>
            GraphClosure[p.cfg] \cap Realised(p.pin) \cap Realised(p.from) \subseteq p.state
  /\ p.pc \in {"spec", "emitted", "admitted"} => CreatesMissing(p.cfg, p.state, p.acts)
  /\ p.pc \in {"emitted", "admitted"} => p.read = CloseReadSet(p.cfg, p.write)
  /\ p.write \subseteq p.read
  /\ p.pc = "admitted" =>
       /\ p.guard >= 1
       /\ p.pin >= 1 => Changed(p.pin, p.guard, p.read) = {}

(* The planner's part of the invariant, said of a record.                  *)
LEMMA PlanInvIs == PlanInv <=> PlanInvOf(plan)
BY DEF PlanInv, PlanInvOf, WalkInv, ContractInv, BasisInv, PlannedInv, GuardInv

(* It is enough to say it of the plan that a step leaves.                  *)
LEMMA PlanInvNext ==
  ASSUME trunk' = trunk, NEW p, plan' = p, PlanInvOf(p)
  PROVE  PlanInv'
<1>1. /\ Serial' = Serial
      /\ \A v : Realised(v)' = Realised(v)
  BY DEF Serial, Realised
<1>2. \A v, a : Adjacency(v, a)' = Adjacency(v, a) /\ ResourceGroup(v, a)' = ResourceGroup(v, a)
  BY DEF Adjacency, Realised, ResourceGroup
<1>3. \A k, v : Known(k, v)' = Known(k, v) /\ Seeds(k, v)' = Seeds(k, v)
  BY DEF Known, Realised, Seeds, SelectedWrite
<1>4. \A k, v, a : Deps(k, v, a)' = Deps(k, v, a) BY DEF Deps, Adjacency, Realised
<1>5. \A v, w, r : Changed(v, w, r)' = Changed(v, w, r)
  BY DEF Changed, ResourceGroup, Realised
<1>6. (plan \in PlanRecord(Serial))' BY <1>1 DEF PlanInvOf, PlanRecord, PlanRecordOf
<1>7. WalkInv' BY <1>3, <1>4 DEF PlanInvOf, WalkInv
<1>8. ContractInv' BY <1>1, <1>2, <1>3 DEF PlanInvOf, ContractInv
<1>9. BasisInv' BY <1>1 DEF PlanInvOf, BasisInv
<1>10. PlannedInv' BY DEF PlanInvOf, PlannedInv
<1>11. GuardInv' BY <1>5 DEF PlanInvOf, GuardInv
<1> QED BY <1>6, <1>7, <1>8, <1>9, <1>10, <1>11 DEF PlanInv

(* What kld does for a request disturbs no plan.                           *)
LEMMA RestKeepsPlan ==
  ASSUME PlanInv, trunk' = trunk, plan' = plan
  PROVE  PlanInv'
<1>1. PICK p : p = plan OBVIOUS
<1>2. PlanInvOf(p) BY <1>1, PlanInvIs
<1> QED BY <1>1, <1>2, PlanInvNext

(* A planner step changes nothing but the plan, and its own request.       *)
LEMMA PlanKeepsStore ==
  ASSUME ScopeInv, Plan
  PROVE  TrunkInv' /\ CacheInv' /\ RequestInv' /\ trunk' = trunk /\ Serial' = Serial
<1>1. trunk' = trunk /\ cache' = cache
  BY DEF Plan, Go, FetchTrunkPinned, AskExpand, StartWalk, Walk, Contract, ResolveSlice,
         Materialise, FallBack, TerraformPlan, EmitSpec, Guard
<1>2. req' = req \/ req' = [req EXCEPT ![Mine] = NoRequest]
  BY DEF Plan, Go, FetchTrunkPinned, AskExpand, StartWalk, Walk, Contract, ResolveSlice,
         Materialise, FallBack, TerraformPlan, EmitSpec, Guard
<1>3. Serial' = Serial BY <1>1 DEF Serial
<1>4. TrunkInv' /\ CacheInv' BY <1>1, <1>3 DEF ScopeInv, TrunkInv, CacheInv
<1>5. RequestInv'
  <2>1. CASE req' = req BY <2>1, <1>3 DEF ScopeInv, RequestInv, RequestRecordOf
  <2>2. CASE req' = [req EXCEPT ![Mine] = NoRequest]
    <3>1. NoRequest \in RequestRecordOf(Serial) /\ NoRequest.pc = "none"
      BY ScopeAssumption DEF RequestRecordOf, NoRequest, ScopeInv, TrunkInv
    <3>2. PICK sn, r : sn = Serial /\ r = req' OBVIOUS
    <3>3. /\ r \in [Request -> RequestRecordOf(sn)]
          /\ \A q \in Request : r[q].pc \in {"put", "served"} => r[q].at >= 1
      BY <2>2, <3>1, <3>2 DEF ScopeInv, RequestInv
    <3> QED BY <3>2, <3>3, <1>3 DEF RequestInv, RequestRecordOf
  <2> QED BY <2>1, <2>2, <1>2
<1> QED BY <1>1, <1>3, <1>4, <1>5

(* Each step of the planner leaves a plan as the invariant says.           *)
LEMMA PlannerKeepsPlan ==
  ASSUME ScopeInv, Plan
  PROVE  PlanInv'
<1>1. PlanInvOf(plan) BY PlanInvIs DEF ScopeInv, PlanInv
<1>2. trunk' = trunk BY PlanKeepsStore
<1>3. PICK o, sn : o = plan /\ sn = Serial OBVIOUS
<1>4. /\ o \in PlanRecord(sn) /\ sn \in Nat /\ sn >= 1 /\ TrunkInv /\ o.cfg \in Configs
      /\ sn \in 1..Serial
  BY <1>1, <1>3, ScopeAssumption DEF PlanInvOf, ScopeInv, TrunkInv, PlanRecord, PlanRecordOf
<1>N. PICK N : N = 0..sn OBVIOUS
<1>R0. PlanRecord(sn) = PlanRecordOf(N) BY <1>N DEF PlanRecord, PlanRecordOf
<1>R. o \in PlanRecordOf(N) /\ PlanRecord(sn) = PlanRecordOf(N) /\ sn \in N /\ 0 \in N
      /\ \A v \in 1..sn : v \in N
  BY <1>N, <1>R0, <1>4
<1>5. Realised(sn) \subseteq Addr BY <1>4, RealisedAddr
<1> USE DEF Go
<1>6. SUFFICES ASSUME NEW p, plan' = p PROVE PlanInvOf(p)
  BY <1>2, PlanInvNext
<1>7. CASE FetchTrunkPinned
  <2>1. p = [o EXCEPT !.pc = "plan", !.pin = sn, !.from = sn, !.at = sn, !.state = Realised(sn)]
        /\ o.write \subseteq o.read
    BY <1>1, <1>3, <1>6, <1>7 DEF FetchTrunkPinned, PlanInvOf
  <2>2. PICK st : st = Realised(sn) OBVIOUS
  <2>3. p \in PlanRecord(sn) BY <2>1, <2>2, <1>4, <1>R, <1>5 DEF PlanRecordOf
  <2>4. /\ p.pc = "plan" /\ p.pin = sn /\ p.from = sn /\ p.at = sn /\ p.state = Realised(sn)
        /\ p.write \subseteq p.read
    BY <2>1, <2>2, <1>4 DEF PlanRecord, PlanRecordOf
  <2> QED BY <2>3, <2>4, <1>3, <1>4 DEF PlanInvOf
<1>8. CASE AskExpand
  <2>1. p = [o EXCEPT !.pc = "expand"] /\ o.write \subseteq o.read /\ o.visited = {}
    BY <1>1, <1>3, <1>6, <1>8 DEF AskExpand, PlanInvOf
  <2>2. p \in PlanRecord(sn) /\ p.pc = "expand" /\ p.write \subseteq p.read /\ p.visited = {}
    BY <2>1, <1>4, <1>R DEF PlanRecordOf
  <2> QED BY <2>2, <1>3 DEF PlanInvOf
<1>9. CASE StartWalk
  <2>1. PICK v, sd : v = req[Mine].at /\ sd = Seeds(o.cfg, v) OBVIOUS
  <2>2. p = [o EXCEPT !.pc = "walk", !.at = v, !.queue = sd] /\ o.write \subseteq o.read /\ o.pc = "expand"
    BY <1>1, <1>3, <1>6, <1>9, <2>1 DEF StartWalk, PlanInvOf
  <2>3. v \in 1..sn
    <3>1. req[Mine] \in RequestRecordOf(Serial) /\ req[Mine].at >= 1
      BY <1>9, ScopeAssumption DEF ScopeInv, RequestInv, StartWalk
    <3> QED BY <3>1, <2>1, <1>3, <1>4 DEF RequestRecordOf
  <2>4. sd \subseteq Addr BY <2>1, <2>3, <1>3, <1>4, KnownAddr
  <2>5. p \in PlanRecord(sn) BY <2>2, <2>3, <2>4, <1>4, <1>R DEF PlanRecordOf
  <2>6. /\ p.pc = "walk" /\ p.at = v /\ p.queue = sd /\ p.cfg = o.cfg /\ p.visited = o.visited
        /\ p.write \subseteq p.read
    BY <2>2, <1>4 DEF PlanRecord, PlanRecordOf
  <2>7. o.visited = {}
    BY <2>2, <1>1, <1>3 DEF PlanInvOf
  <2> QED BY <2>1, <2>3, <2>5, <2>6, <2>7, <1>3, <1>4 DEF PlanInvOf
<1>10. CASE Walk
  <2>0. PICK b \in o.queue : p = [o EXCEPT !.queue = Pending(b), !.visited = @ \cup {b}]
    BY <1>3, <1>6, <1>10 DEF Walk
  <2>1. PICK w : p = [o EXCEPT !.queue = w, !.visited = @ \cup {b}] /\ w = Pending(b)
    BY <2>0
  <2>2. o.pc = "walk" /\ o.write \subseteq o.read BY <1>1, <1>3, <1>10 DEF Walk, PlanInvOf
  <2>3. /\ o.at \in 1..sn /\ Seeds(o.cfg, o.at) \subseteq o.visited \cup o.queue
        /\ \A a \in o.visited : Deps(o.cfg, o.at, a) \cap Known(o.cfg, o.at) \subseteq o.visited \cup o.queue
    BY <2>2, <1>1, <1>3, <1>4 DEF PlanInvOf, PlanRecord, PlanRecordOf
  <2>4. w = (o.queue \cup (Deps(o.cfg, o.at, b) \cap Known(o.cfg, o.at))) \ (o.visited \cup {b})
    BY <2>1, <1>3 DEF Pending
  <2>5. Known(o.cfg, o.at) \subseteq Addr BY <2>3, <1>3, <1>4, KnownAddr
  <2>6. b \in Addr /\ w \subseteq Addr BY <2>1, <2>4, <2>5, <1>4 DEF PlanRecord, PlanRecordOf
  <2>7. p \in PlanRecord(sn) BY <2>1, <2>6, <1>4, <1>R DEF PlanRecordOf
  <2>8. /\ p.pc = "walk" /\ p.at = o.at /\ p.cfg = o.cfg /\ p.queue = w
        /\ p.visited = o.visited \cup {b} /\ p.write \subseteq p.read
    BY <2>1, <2>2, <1>4 DEF PlanRecord, PlanRecordOf
  <2>9. Seeds(p.cfg, p.at) \subseteq p.visited \cup p.queue BY <2>3, <2>4, <2>8
  <2>10. ASSUME NEW a \in p.visited
         PROVE  Deps(p.cfg, p.at, a) \cap Known(p.cfg, p.at) \subseteq p.visited \cup p.queue
    <3>1. CASE a = b BY <3>1, <2>4, <2>8
    <3>2. CASE a \in o.visited BY <3>2, <2>3, <2>4, <2>8
    <3> QED BY <3>1, <3>2, <2>8
  <2> QED BY <2>3, <2>7, <2>8, <2>9, <2>10, <1>3, <1>4 DEF PlanInvOf
<1>11. CASE Contract
  <2>1. o.pc = "walk" /\ o.queue = {} /\ o.write \subseteq o.read
    BY <1>1, <1>3, <1>11 DEF Contract, PlanInvOf
  <2>2. /\ o.at \in 1..sn /\ Seeds(o.cfg, o.at) \subseteq o.visited
        /\ \A a \in o.visited : Deps(o.cfg, o.at, a) \cap Known(o.cfg, o.at) \subseteq o.visited
    BY <2>1, <1>1, <1>3, <1>4 DEF PlanInvOf, PlanRecord, PlanRecordOf
  <2>3. CASE p = [o EXCEPT !.pc = "rejected"]
    <3>1. p \in PlanRecord(sn) /\ p.pc = "rejected" /\ p.write \subseteq p.read
      BY <2>1, <2>3, <1>4, <1>R DEF PlanRecordOf
    <3> QED BY <3>1, <1>3 DEF PlanInvOf
  <2>4. CASE p # [o EXCEPT !.pc = "rejected"]
    <3>1. PICK fe, re : fe = Fetch(o.at, o.visited) /\ re = ConfigRequired(o.cfg, o.at, o.visited) OBVIOUS
    <3>2. /\ UnknownMissing(o.cfg, o.at, o.visited) = {}
          /\ p = [o EXCEPT !.pc = "slice", !.meta = [fetch |-> fe, required |-> re]]
      BY <2>4, <3>1, <1>3, <1>6, <1>11 DEF Contract
    <3>3. fe \subseteq Addr /\ re \subseteq Addr
      <4>1. o.visited \subseteq Addr BY <1>4 DEF PlanRecord, PlanRecordOf
      <4> QED BY <4>1, <3>1 DEF Fetch, ConfigRequired
    <3>4. [fetch |-> fe, required |-> re] \in [fetch : SUBSET Addr, required : SUBSET Addr] BY <3>3
    <3>5. p \in PlanRecord(sn) BY <3>2, <3>4, <1>4, <1>R DEF PlanRecordOf
    <3>6. /\ p.pc = "slice" /\ p.cfg = o.cfg /\ p.at = o.at /\ p.meta.fetch = fe /\ p.meta.required = re
          /\ p.write \subseteq p.read
      BY <3>2, <2>1, <1>4 DEF PlanRecord, PlanRecordOf
    <3>7. ASSUME NEW a \in fe \cup re, NEW d \in Addr,
                 \/ a \in Realised(o.at) /\ d \in Adjacency(o.at, a)
                 \/ a \in ConfigNodes(o.cfg) /\ d \in o.cfg.graph[a]
          PROVE  d \in fe \cup re \/ d \in Candidates(o.cfg) \ Known(o.cfg, o.at)
      BY <3>1, <3>2, <3>7, <2>2, <1>4, WalkCloses
    <3>8. Candidates(o.cfg) \cap Realised(o.at) \subseteq fe
      BY <3>1, <2>2 DEF Seeds, Fetch
    <3> QED BY <3>5, <3>6, <3>7, <3>8, <2>2, <1>3, <1>4 DEF PlanInvOf
  <2> QED BY <2>3, <2>4
<1>12. CASE ResolveSlice
  <2>1. p = [o EXCEPT !.pc = "rows", !.pin = sn] /\ o.pc = "slice" /\ o.write \subseteq o.read
    BY <1>1, <1>3, <1>6, <1>12 DEF ResolveSlice, PlanInvOf
  <2>2. p \in PlanRecord(sn) BY <2>1, <1>4, <1>R DEF PlanRecordOf
  <2>3. /\ p.pc = "rows" /\ p.pin = sn /\ p.at = o.at /\ p.cfg = o.cfg /\ p.meta = o.meta
        /\ p.write \subseteq p.read
    BY <2>1, <1>4 DEF PlanRecord, PlanRecordOf
  <2>4. p.at <= p.pin BY <2>3, <1>4 DEF PlanRecord, PlanRecordOf
  <2> QED BY <2>1, <2>2, <2>3, <2>4, <1>1, <1>3, <1>4 DEF PlanInvOf
<1>13. CASE Materialise
  <2>1. PICK st : st = o.meta.fetch \cap Realised(sn) OBVIOUS
  <2>2. p = [o EXCEPT !.pc = "plan", !.from = sn, !.state = st] /\ o.pc = "rows" /\ o.write \subseteq o.read
    BY <2>1, <1>1, <1>3, <1>6, <1>13 DEF Materialise, PlanInvOf
  <2>3. st \subseteq Addr BY <2>1, <1>5
  <2>4. p \in PlanRecord(sn) BY <2>2, <2>3, <1>4, <1>R DEF PlanRecordOf
  <2>5. /\ p.pc = "plan" /\ p.from = sn /\ p.state = st /\ p.at = o.at /\ p.pin = o.pin /\ p.cfg = o.cfg
        /\ p.write \subseteq p.read
    BY <2>2, <1>4 DEF PlanRecord, PlanRecordOf
  <2>6. /\ 1 <= o.pin /\ o.at <= o.pin /\ Candidates(o.cfg) \cap Realised(o.at) \subseteq o.meta.fetch
    BY <2>2, <1>1, <1>3 DEF PlanInvOf
  <2>8. ASSUME p.at >= p.pin, GraphClosure[p.cfg] \subseteq SliceTargets(p.cfg)
        PROVE  GraphClosure[p.cfg] \cap Realised(p.pin) \cap Realised(p.from) \subseteq p.state
    <3>1. o.at = o.pin BY <2>5, <2>6, <2>8, <1>4 DEF PlanRecord, PlanRecordOf
    <3> QED BY <3>1, <2>1, <2>5, <2>6, <2>8, <1>4 DEF Candidates
  <2> QED BY <2>4, <2>5, <2>8, <1>3, <1>4 DEF PlanInvOf
<1>14. CASE FallBack
  <2>1. p = [Idle(o.cfg) EXCEPT !.pc = "plan", !.from = sn, !.state = Realised(sn)]
    BY <1>3, <1>6, <1>14 DEF FallBack
  <2>2. PICK st, k : st = Realised(sn) /\ k = o.cfg OBVIOUS
  <2>3. Idle(k) \in PlanRecordOf(N) /\ Idle(k).pin = 0 /\ Idle(k).write = {}
    BY <2>2, <1>4, <1>R DEF Idle, PlanRecordOf, NoContract, Action
  <2>4. p \in PlanRecord(sn) /\ p.pc = "plan" /\ p.pin = 0 /\ p.from = sn /\ p.write = {}
    <3>1. PICK i : i = Idle(k) OBVIOUS
    <3>2. p = [i EXCEPT !.pc = "plan", !.from = sn, !.state = st] BY <3>1, <2>1, <2>2
    <3> QED BY <3>1, <3>2, <2>2, <2>3, <1>R, <1>5 DEF PlanRecordOf
  <2> QED BY <2>4, <1>3, <1>4 DEF PlanInvOf
<1>15. CASE TerraformPlan
  <2>1. o.pc = "plan" /\ o.write \subseteq o.read BY <1>1, <1>3, <1>15 DEF TerraformPlan, PlanInvOf
  <2>2. CASE p = [o EXCEPT !.pc = "failed"]
    <3>1. p \in PlanRecord(sn) /\ p.pc = "failed" /\ p.write \subseteq p.read
      BY <2>1, <2>2, <1>4, <1>R DEF PlanRecordOf
    <3> QED BY <3>1, <1>3 DEF PlanInvOf
  <2>3. CASE p # [o EXCEPT !.pc = "failed"]
    <3>1. PICK f \in TerraformActions(o.cfg, StateSlice(o.cfg, o.state)) :
            p = [o EXCEPT !.pc = "spec", !.acts = f]
      BY <2>3, <1>3, <1>6, <1>15 DEF TerraformPlan
    <3>2. o.state \in SUBSET Addr BY <1>4 DEF PlanRecord, PlanRecordOf
    <3>3. f \in [Addr -> Action] /\ CreatesMissing(o.cfg, o.state, f)
      BY <3>1, <3>2, <1>4, TerraformCreatesMissing
    <3>4. p \in PlanRecord(sn) BY <3>1, <3>3, <1>4, <1>R DEF PlanRecordOf
    <3>5. /\ p.pc = "spec" /\ p.acts = f /\ p.cfg = o.cfg /\ p.state = o.state /\ p.at = o.at
          /\ p.pin = o.pin /\ p.from = o.from /\ p.write \subseteq p.read
      BY <3>1, <2>1, <1>4 DEF PlanRecord, PlanRecordOf
    <3> QED BY <3>3, <3>4, <3>5, <2>1, <1>1, <1>3 DEF PlanInvOf
  <2> QED BY <2>2, <2>3
<1>16. CASE EmitSpec
  <2>1. o.pc = "spec" /\ o.write \subseteq o.read BY <1>1, <1>3, <1>16 DEF EmitSpec, PlanInvOf
  <2>2. PICK w, r : w = NarrowWrite(o.cfg, o.meta, o.acts) /\ r = CloseReadSet(o.cfg, w) OBVIOUS
  <2>3. p = [o EXCEPT !.pc = "failed"] \/ p = [o EXCEPT !.pc = "emitted", !.write = w, !.read = r]
    BY <2>2, <1>3, <1>6, <1>16 DEF EmitSpec
  <2>4. CASE p = [o EXCEPT !.pc = "failed"]
    <3>1. p \in PlanRecord(sn) /\ p.pc = "failed" /\ p.write \subseteq p.read
      BY <2>1, <2>4, <1>4, <1>R DEF PlanRecordOf
    <3> QED BY <3>1, <1>3 DEF PlanInvOf
  <2>5. CASE p = [o EXCEPT !.pc = "emitted", !.write = w, !.read = r]
    <3>1. w \in SUBSET Addr BY <2>2 DEF NarrowWrite, WriteSet
    <3>2. r \subseteq Addr /\ w \subseteq r
      <4>1. PICK k \in Configs : k = o.cfg BY <1>4
      <4>2. r = CloseReadSet(k, w) BY <4>1, <2>2
      <4>3. CloseReadSet(k, w) \subseteq Addr /\ w \subseteq CloseReadSet(k, w)
        BY <3>1, ReadSetClosed
      <4> QED BY <4>2, <4>3
    <3>3. p \in PlanRecord(sn) BY <2>5, <3>1, <3>2, <1>4, <1>R DEF PlanRecordOf
    <3>4. /\ p.pc = "emitted" /\ p.write = w /\ p.read = r /\ p.acts = o.acts /\ p.cfg = o.cfg
          /\ p.state = o.state /\ p.at = o.at /\ p.pin = o.pin /\ p.from = o.from
      BY <2>5, <1>4 DEF PlanRecord, PlanRecordOf
    <3> QED BY <2>1, <2>2, <3>2, <3>3, <3>4, <1>1, <1>3 DEF PlanInvOf
  <2> QED BY <2>3, <2>4, <2>5
<1>17. CASE Guard
  <2>1. o.pc = "emitted" /\ o.write \subseteq o.read BY <1>1, <1>3, <1>17 DEF Guard, PlanInvOf
  <2>2. CASE p = [o EXCEPT !.pc = "stale"]
    <3>1. p \in PlanRecord(sn) /\ p.pc = "stale" /\ p.write \subseteq p.read
      BY <2>1, <2>2, <1>4, <1>R DEF PlanRecordOf
    <3> QED BY <3>1, <1>3 DEF PlanInvOf
  <2>3. CASE p # [o EXCEPT !.pc = "stale"]
    <3>1. /\ p = [o EXCEPT !.pc = "admitted", !.guard = sn]
          /\ o.pin > 0 => Changed(o.pin, sn, o.read) = {}
      BY <2>3, <1>3, <1>6, <1>17 DEF Guard
    <3>2. p \in PlanRecord(sn) BY <3>1, <1>4, <1>R DEF PlanRecordOf
    <3>3. /\ p.pc = "admitted" /\ p.guard = sn /\ p.write = o.write /\ p.read = o.read /\ p.acts = o.acts
          /\ p.cfg = o.cfg /\ p.state = o.state /\ p.at = o.at /\ p.pin = o.pin /\ p.from = o.from
      BY <3>1, <1>4 DEF PlanRecord, PlanRecordOf
    <3>4. o.pin >= 1 => o.pin > 0 BY <1>4 DEF PlanRecord, PlanRecordOf
    <3> QED BY <2>1, <3>1, <3>2, <3>3, <3>4, <1>1, <1>3, <1>4 DEF PlanInvOf
  <2> QED BY <2>2, <2>3
<1> QED BY <1>7, <1>8, <1>9, <1>10, <1>11, <1>12, <1>13, <1>14, <1>15, <1>16, <1>17 DEF Plan

-----------------------------------------------------------------------------
(* The theorems                                                            *)

(* The invariant is inductive.                                             *)
LEMMA StepsKeepInv == ScopeInv /\ [ScopeNext]_scopeVars => ScopeInv'
<1> SUFFICES ASSUME ScopeInv, [ScopeNext]_scopeVars PROVE ScopeInv' OBVIOUS
<1>1. PlanInv BY DEF ScopeInv, PlanInv
<1>2. CASE UNCHANGED scopeVars
  <2>1. /\ trunk' = trunk /\ cache' = cache /\ req' = req /\ plan' = plan BY <1>2 DEF scopeVars
  <2>2. PlanInv' BY <2>1, <1>1, RestKeepsPlan
  <2>3. Serial' = Serial BY <2>1 DEF Serial
  <2>4. TrunkInv' /\ CacheInv' /\ RequestInv'
    BY <2>1, <2>3 DEF ScopeInv, TrunkInv, CacheInv, RequestInv, RequestRecordOf
  <2> QED BY <2>2, <2>4 DEF ScopeInv, PlanInv
<1>3. CASE Commit BY <1>3, CommitKeepsInv
<1>4. CASE Expire
  <2>1. trunk' = trunk /\ req' = req /\ plan' = plan BY <1>4 DEF Expire
  <2>2. PlanInv' BY <2>1, <1>1, RestKeepsPlan
  <2>3. Serial' = Serial BY <2>1 DEF Serial
  <2>4. TrunkInv' /\ RequestInv'
    BY <2>1, <2>3 DEF ScopeInv, TrunkInv, RequestInv, RequestRecordOf
  <2>5. CacheInv' BY <1>4, ExpireKeepsCache
  <2> QED BY <2>2, <2>4, <2>5 DEF ScopeInv, PlanInv
<1>5. CASE Plan
  <2>1. PlanInv' BY <1>5, PlannerKeepsPlan
  <2>2. TrunkInv' /\ CacheInv' /\ RequestInv' BY <1>5, PlanKeepsStore
  <2> QED BY <2>1, <2>2 DEF ScopeInv, PlanInv
<1>6. ASSUME NEW q \in Request, Serve(q) \/ Answered(q) PROVE ScopeInv'
  <2>1. RequestInv' /\ trunk' = trunk /\ plan' = plan BY <1>6, ServeKeepsRequests
  <2>2. CacheInv' BY <1>6, ServeKeepsCache
  <2>3. PlanInv' BY <2>1, <1>1, RestKeepsPlan
  <2>4. TrunkInv' BY <2>1 DEF ScopeInv, TrunkInv, Serial
  <2> QED BY <2>1, <2>2, <2>3, <2>4 DEF ScopeInv, PlanInv
<1> QED BY <1>2, <1>3, <1>4, <1>5, <1>6 DEF ScopeNext

(* The inductive invariant holds in every state, for any graphs that other *)
(* writers commit, any configurations, requests and cache capacity.        *)
THEOREM ScopeSafe == ScopeSpec => []ScopeInv
<1>1. ScopeInit => ScopeInv BY InitInv
<1>2. ScopeInv /\ [ScopeNext]_scopeVars => ScopeInv' BY StepsKeepInv
<1> QED BY <1>1, <1>2, PTL DEF ScopeSpec

(* The scope that handleStateEngineScopeExpand draws and the client        *)
(* accepts is closed: what an address in it needs, by the state or by the  *)
(* configuration, is in it too, or is vouched for as undeployed.           *)
THEOREM ContractsClosed == ScopeSpec => []ContractClosed
<1>1. ScopeInv => ContractClosed BY InvClosed
<1> QED BY <1>1, ScopeSafe, PTL

(* A plan that the staleness guard of kl apply admits on its source_serial *)
(* creates only what the trunk does not have, where no commit landed       *)
(* between scope expansion and slice, except what was destroyed between    *)
(* the pinned version and the rows and came back as it was.                *)
THEOREM AdmittedPlansTrue == ScopeSpec => []AdmittedPlanTrue
<1>1. ScopeInv => AdmittedPlanTrue BY InvTrue
<1> QED BY <1>1, ScopeSafe, PTL

(* CloseReadSet reserves every address linked to one the plan writes, for  *)
(* any dependency graph, cyclic ones included.                             *)
THEOREM LinkedPlansReserve == ScopeSpec => []LinkedPlansConflict
<1>1. ScopeInv => LinkedPlansConflict BY InvConflicts
<1> QED BY <1>1, ScopeSafe, PTL
=============================================================================
