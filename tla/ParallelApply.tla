---------------------------- MODULE ParallelApply ----------------------------
(***************************************************************************)
(* Several kl apply runs on one state (internal/apply/orchestrator.go),    *)
(* composed with the reservation table, the version store and the          *)
(* apply_runs table (pkg/store/apply_runs.go).                             *)
(*                                                                         *)
(* A run is planned against a trunk, registers itself, reserves the        *)
(* addresses it reads and writes, checks that what it read has not         *)
(* changed, runs Terraform on a slice while a heartbeat renews its leases, *)
(* and then merges its writes into the freshest trunk, retrying when       *)
(* another run commits first.  Every call to the store is an action of its *)
(* own: other runs, the clock, the operator (kl apply abort) and a crash   *)
(* come between any two of them.                                           *)
(*                                                                         *)
(* Each run writes its own name into the instances of its write set, so a  *)
(* document shows whose write each instance holds.  Runs take the snapshot *)
(* commit path; plain Terraform clients are in TerraformClients.           *)
(***************************************************************************)
EXTENDS StateStore, Reservations

CONSTANTS
  WriteSet,     \* WriteSet[a]: the addresses run a changes
  ReadSet,      \* ReadSet[a]: their dependency closure, write set included
  Imported,     \* the attributes of instances that exist before any run
  MaxRetries,   \* maxCommitRetries
  Start,        \* the states runs start from: "unwritten", "imported" or both
  Troubled      \* bound: the runs that may crash, be aborted, fail or give up

ASSUME ApplyAssumption ==
  /\ Glob = Addr
  /\ Apply \cup {Imported} \subseteq Attr
  /\ Imported \notin Apply /\ IsFiniteSet(Apply)
  /\ WriteSet \in [Apply -> SUBSET Addr]
  /\ ReadSet \in [Apply -> SUBSET Addr]
  /\ \A a \in Apply : WriteSet[a] # {} /\ WriteSet[a] \subseteq ReadSet[a]
  /\ MaxRetries \in Nat \ {0}
  /\ Troubled \subseteq Apply /\ Start \subseteq {"unwritten", "imported"}

VARIABLES
  run,         \* the orchestrators' local state
  applyRuns,   \* the apply_runs table: status and committed_serial
  operator,    \* per run: what kl apply abort has done so far
  stray        \* history: the runs that committed without their reservations

orchVars  == <<run, applyRuns, operator, stray>>
applyVars == <<storeVars, resv, orchVars>>

Phase == {"new", "planned", "acquiring", "guard", "terraform", "stopped",
          "merging", "committing", "closing", "releasing", "done", "crashed"}
Outcome  == {"ok", "error", "canceled"}
Status   == {"none", "running", "committed", "failed", "aborted"}
Terminal == {"committed", "failed", "aborted"}

NewRun == [pc |-> "new", src |-> 0, base |-> 0, fresh |-> 0, tries |-> 0, outcome |-> "ok"]

(* The document of an imported state: every instance present.              *)
ImportedDoc == [EmptyDoc EXCEPT !.res = [x \in Addr |-> [attr |-> Imported, meta |-> NoMeta]]]

(* A state never written to, or one imported as version 1.                 *)
ApplyInit ==
  /\ \/ "unwritten" \in Start /\ StoreInit /\ exclusive = FALSE
     \/ /\ "imported" \in Start
        /\ versions = [s \in {1} |-> ImportedDoc]
        /\ current = 1
        /\ rows = {NewRow(x, ImportedDoc.res, 1) : x \in Addr}
        /\ locks = [l \in LockId |-> NoLock]
        /\ exclusive = FALSE
  /\ ReservationsInit
  /\ run = [a \in Apply |-> NewRun]
  /\ applyRuns = [a \in Apply |-> [status |-> "none", serial |-> 0]]
  /\ operator = [a \in Apply |-> "none"]
  /\ stray = {}

(* The process is gone, and its memory with it.                            *)
Exit(a, pc) == run' = [run EXCEPT ![a] = [NewRun EXCEPT !.pc = pc]]
Goto(a, pc) == run' = [run EXCEPT ![a].pc = pc]
Fail(a, how) == run' = [run EXCEPT ![a].pc = "closing", ![a].outcome = how]

-----------------------------------------------------------------------------
(* kl plan: the spec records the trunk serial; without a version it is 0.  *)
Plan(a) ==
  /\ run[a].pc = "new"
  /\ run' = [run EXCEPT ![a].pc = "planned", ![a].src = TrunkSerial]
  /\ UNCHANGED <<storeVars, resv, applyRuns, operator, stray>>

(* Run: EnsureCurrentStateInfo materialises a missing genesis ...          *)
Materialise(a) ==
  /\ run[a].pc = "planned"
  /\ EnsureCurrentStateInfo
  /\ UNCHANGED <<resv, orchVars>>

(* ... and BeginApplyRun inserts the row.                                  *)
BeginApplyRun(a) ==
  /\ run[a].pc = "planned" /\ current # NoVersion
  /\ Goto(a, "acquiring")
  /\ applyRuns' = [applyRuns EXCEPT ![a].status = "running"]
  /\ UNCHANGED <<storeVars, resv, operator, stray>>

(* buildReservations, reservationsFromSpec                                 *)
Wanted(a) == [x \in Addr |-> IF x \in WriteSet[a] THEN "write"
                             ELSE IF x \in ReadSet[a] THEN "read" ELSE "none"]

(* acquireWithWait: an attempt that succeeds, or the end of the waiting    *)
(* budget (at once without --wait).  Attempts that conflict are repeated.  *)
Acquire(a) ==
  /\ run[a].pc = "acquiring"
  /\ AcquireReservations(a, Wanted(a), MaxLease)
  /\ Goto(a, "guard")
  /\ UNCHANGED <<storeVars, applyRuns, operator, stray>>

GiveUpWaiting(a) ==
  /\ run[a].pc = "acquiring"
  /\ Blockers(a, Wanted(a)) # {} /\ a \in Troubled
  /\ Fail(a, "error")
  /\ UNCHANGED <<storeVars, resv, applyRuns, operator, stray>>

(* changedReadSetAddresses is not empty; no check without a source serial. *)
ReadSetChanged(a) ==
  run[a].src > 0 /\ ChangedReadSet(versions[run[a].src], versions[current], ReadSet[a]) # {}

(* The staleness guard, and the slice of the trunk it read.                *)
StalenessGuard(a) ==
  /\ run[a].pc = "guard"
  /\ IF ReadSetChanged(a) THEN Fail(a, "error")
     ELSE run' = [run EXCEPT ![a].pc = "terraform", ![a].base = current]
  /\ UNCHANGED <<storeVars, resv, applyRuns, operator, stray>>

(* renewReservationLeases, one round: stop on abort, renew, stop if a row  *)
(* could not be renewed.  Stopping cancels Terraform and fails the run.    *)
Heartbeat(a) ==
  /\ run[a].pc \in {"guard", "terraform"}
  /\ IF applyRuns[a].status = "aborted"
     THEN Fail(a, "error") /\ UNCHANGED resv
     ELSE /\ RenewReservations(a, MaxLease)
          /\ IF \A x \in ReadSet[a] : Renewable(a, x) THEN UNCHANGED run ELSE Fail(a, "error")
  /\ UNCHANGED <<storeVars, applyRuns, operator, stray>>

(* runTerraform returns.  On success the heartbeat is stopped; a renewal   *)
(* that is in flight at that moment ends with context.Canceled, which is   *)
(* returned as the run's error.                                            *)
TerraformDone(a) ==
  /\ run[a].pc = "terraform"
  /\ \/ Goto(a, "stopped")
     \/ a \in Troubled /\ Fail(a, "error")
     \/ a \in Troubled /\ Fail(a, "canceled")
  /\ UNCHANGED <<storeVars, resv, applyRuns, operator, stray>>

(* The abort check before the commit loop.                                 *)
CheckAbort(a) ==
  /\ run[a].pc = "stopped"
  /\ IF applyRuns[a].status = "aborted" THEN Fail(a, "error") ELSE Goto(a, "merging")
  /\ UNCHANGED <<storeVars, resv, applyRuns, operator, stray>>

-----------------------------------------------------------------------------
(* The commit loop                                                         *)

(* The run still has every reservation it asked for.                       *)
HoldsReservations(a) == \A x \in ReadSet[a] : Present(a, x)
NoteStray(a) == stray' = IF HoldsReservations(a) THEN stray ELSE stray \cup {a}

(* What Terraform left in the slice: the run's writes over what it saw.    *)
PostApply(a) ==
  [Slice(versions[run[a].base], Addr) EXCEPT
     !.res = [x \in Addr |-> IF x \in WriteSet[a] THEN [attr |-> a, meta |-> NoMeta] ELSE @[x]]]

ReadTrunk(a) ==
  /\ run[a].pc = "merging"
  /\ run' = [run EXCEPT ![a].pc = "committing", ![a].fresh = current]
  /\ UNCHANGED <<storeVars, resv, applyRuns, operator, stray>>

\* Mutant of MergedState: the merge overlays the trunk read before Terraform ran.
MergedStateStale(a) == BuildMergedState(versions[run[a].base], PostApply(a), WriteSet[a])

MergedState(a) == BuildMergedState(versions[run[a].fresh], PostApply(a), WriteSet[a])

Commit(a) ==
  /\ run[a].pc = "committing"
  /\ WriteStateForApply(run[a].fresh + 1, MergedState(a))
  /\ NoteStray(a)
  /\ run' = [run EXCEPT ![a].pc = "closing", ![a].outcome = "ok"]
  /\ UNCHANGED <<resv, applyRuns, operator>>

\* Mutant of CommitConflict: a lost race is reported as success.
CommitConflictIgnored(a) ==
  /\ run[a].pc = "committing"
  /\ run[a].fresh + 1 \in DOMAIN versions
  /\ run' = [run EXCEPT ![a].pc = "closing", ![a].outcome = "ok"]
  /\ UNCHANGED <<storeVars, resv, applyRuns, operator, stray>>

(* ErrSerialConflict: re-read and merge again, MaxRetries attempts in all. *)
CommitConflict(a) ==
  /\ run[a].pc = "committing"
  /\ run[a].fresh + 1 \in DOMAIN versions
  /\ run' = [run EXCEPT ![a].tries = @ + 1,
                        ![a].pc = IF run[a].tries + 1 = MaxRetries THEN "closing" ELSE "merging",
                        ![a].outcome = IF run[a].tries + 1 = MaxRetries THEN "error" ELSE @]
  /\ UNCHANGED <<storeVars, resv, applyRuns, operator, stray>>

(* Any other error of the commit call, its reply lost included: the        *)
(* transaction may or may not have committed.                              *)
CommitReplyLost(a) ==
  /\ run[a].pc = "committing" /\ a \in Troubled
  /\ \/ WriteStateForApply(run[a].fresh + 1, MergedState(a)) /\ NoteStray(a)
     \/ UNCHANGED <<storeVars, stray>>
  /\ Fail(a, "error")
  /\ UNCHANGED <<resv, applyRuns, operator>>

-----------------------------------------------------------------------------
(* finalizeApplyRun: FinishApplyRun does nothing on a terminal row.        *)
FinalStatus(a) == CASE run[a].outcome = "ok"       -> "committed"
                    [] run[a].outcome = "error"    -> "failed"
                    [] run[a].outcome = "canceled" -> "aborted"

Finalize(a) ==
  /\ run[a].pc = "closing"
  /\ applyRuns' =
       IF applyRuns[a].status \in Terminal THEN applyRuns
       ELSE [applyRuns EXCEPT ![a] =
               [status |-> FinalStatus(a),
                serial |-> IF run[a].outcome = "ok" THEN run[a].fresh + 1 ELSE 0]]
  /\ Goto(a, "releasing")
  /\ UNCHANGED <<storeVars, resv, operator, stray>>

Release(a) ==
  /\ run[a].pc = "releasing"
  /\ ReleaseReservations(a)
  /\ Exit(a, "done")
  /\ UNCHANGED <<storeVars, applyRuns, operator, stray>>

(* The process dies; rows, leases and versions stay as they are.           *)
Crash(a) ==
  /\ run[a].pc \notin {"new", "planned", "done", "crashed"} /\ a \in Troubled
  /\ Exit(a, "crashed")
  /\ UNCHANGED <<storeVars, resv, applyRuns, operator, stray>>

(* kl apply abort: two requests, first the status, then the reservations.  *)
AbortApplyRun(a) ==
  /\ applyRuns[a].status = "running" /\ a \in Troubled
  /\ applyRuns' = [applyRuns EXCEPT ![a].status = "aborted"]
  /\ operator' = [operator EXCEPT ![a] = "aborted"]
  /\ UNCHANGED <<storeVars, resv, run, stray>>

AbortRelease(a) ==
  /\ operator[a] = "aborted"
  /\ ReleaseReservations(a)
  /\ operator' = [operator EXCEPT ![a] = "released"]
  /\ UNCHANGED <<storeVars, run, applyRuns, stray>>

Clock == Tick /\ UNCHANGED <<storeVars, orchVars>>

(* The steps a live run takes on its way to the end.                       *)
Advance(a) ==
  \/ Plan(a) \/ Materialise(a) \/ BeginApplyRun(a)
  \/ Acquire(a) \/ StalenessGuard(a)
  \/ TerraformDone(a) \/ CheckAbort(a)
  \/ ReadTrunk(a) \/ Commit(a) \/ CommitConflict(a) \/ CommitReplyLost(a)
  \/ Finalize(a) \/ Release(a)

ApplyNext ==
  \/ \E a \in Apply : \/ Advance(a) \/ GiveUpWaiting(a) \/ Heartbeat(a) \/ Crash(a)
                      \/ AbortApplyRun(a) \/ AbortRelease(a)
  \/ Clock

(* Time passes, a live process keeps going and an attempt to acquire that  *)
(* can succeed is made.  Nothing is assumed of the operator, of crashes,   *)
(* of the heartbeat's timing or of a waiter's patience.                    *)
ApplyFairness ==
  /\ WF_applyVars(Clock)
  /\ \A a \in Apply : WF_applyVars(Advance(a))

ApplySafetySpec == ApplyInit /\ [][ApplyNext]_applyVars
ApplySpec == ApplySafetySpec /\ ApplyFairness
-----------------------------------------------------------------------------
(* Properties                                                              *)

(* Shapes of the runs and of the apply_runs table.                         *)
ApplyTypeOK ==
  /\ StoreTypeOK /\ ReservationsTypeOK
  /\ run \in [Apply -> [pc : Phase, src : Nat, base : Nat, fresh : Nat,
                        tries : 0..MaxRetries, outcome : Outcome]]
  /\ applyRuns \in [Apply -> [status : Status, serial : Nat]]
  /\ operator \in [Apply -> {"none", "aborted", "released"}]
  /\ stray \subseteq Apply

(* The version the run's plan was computed from, or the slice, if the plan *)
(* saw no version and so is not guarded.                                   *)
PlannedOn(a) == versions[IF run[a].src > 0 THEN run[a].src ELSE run[a].base]

(* A run that still has its reservations when it commits is isolated: what *)
(* it read and what it is about to write are as its plan saw them, unless  *)
(* a run that had itself lost its reservations wrote there, and the new    *)
(* version is the trunk with its own writes and nothing else, whatever     *)
(* other runs committed since and however often it had to retry.           *)
CommitIsolated ==
  [][\A a \in Apply : (Commit(a) /\ HoldsReservations(a)) =>
       /\ \A x \in ReadSet[a] : \/ versions[current].res[x] = PlannedOn(a).res[x]
                                \/ versions[current].res[x].attr \in stray
       /\ \A x \in Addr : versions'[current'].res[x] =
            IF x \in WriteSet[a] THEN [attr |-> a, meta |-> NoMeta]
            ELSE versions[current].res[x]]_applyVars

(* The versions in which an instance turned to the value run a writes.     *)
Authored(a) ==
  {n \in DOMAIN versions : \E x \in WriteSet[a] :
     versions[n].res[x].attr = a
       /\ (n - 1 \in DOMAIN versions => versions[n - 1].res[x].attr # a)}

(* The audit trail is true: a run writes at most one version, in spite of  *)
(* retries, and a row marked committed names exactly that version; run and *)
(* row keep their types.  A commit attempt is lost only to another run's   *)
(* commit, so a run never runs out of attempts while there are no more     *)
(* runs than attempts.                                                     *)
AuditTruthful ==
  /\ ApplyTypeOK
  /\ \A a \in Apply :
       /\ Cardinality(Authored(a)) <= 1
       /\ applyRuns[a].status = "committed" => Authored(a) = {applyRuns[a].serial}
       /\ run[a].tries <= Cardinality({b \in Apply \ {a} : Authored(b) # {}})

(* Runs use the store only through its operations, with serials a caller   *)
(* can have read, so what is proved of the store holds for parallel        *)
(* applies.                                                                *)
UsesStore == [][StoreNext]_storeVars

(* The same for the reservation table: parallel applies implement its      *)
(* specification.                                                          *)
UsesReservations == ReservationsSpec

(* Every run comes to an end, although runs crash while they hold          *)
(* reservations, wait for one another without a deadline, and retry.       *)
EveryRunEnds == <>[](\A a \in Apply : run[a].pc \in {"done", "crashed"})

(* "Reservations on the write_set are held across the entire loop."        *)
ReservationsHeldAtCommit ==
  [][\A a \in Apply : Commit(a) => \A x \in WriteSet[a] : Present(a, x)]_applyVars

(* "aborted is reserved for pre-emption": the operator aborted the run, or *)
(* its reservations were reclaimed.                                        *)
AbortedMeansPreempted ==
  \A a \in Apply :
    (applyRuns[a].status = "aborted" /\ run[a].pc = "releasing")
      => operator[a] # "none" \/ ~ HoldsReservations(a)
=============================================================================
