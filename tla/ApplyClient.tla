---------------------------- MODULE ApplyClient ----------------------------
(***************************************************************************)
(* One kl apply from the command line to its end (cmd/kl/cmd_apply.go):    *)
(* the plan it makes or was given (kl plan), the gates the operator has to *)
(* acknowledge, the quota and coexistence checks, the choice of execution  *)
(* lane, and the lanes themselves:                                         *)
(*   backend   terraform apply against kld, LOCK to UNLOCK                 *)
(*   snapshot  the orchestrator of internal/apply, merging whole groups    *)
(*   native    the same under the coarse state-engine lock, committing a   *)
(*             delta of exact addresses                                    *)
(* beside plain Terraform sessions and other kl applies, which commit at   *)
(* any moment.  Leases, heartbeat, abort, crashes and lost replies of the  *)
(* orchestrator are the subject of ParallelApply, the scope expansion that *)
(* of Scope: here a reservation, once made, holds to the end of the run.   *)
(* Outputs are left out; only the per-state resource quota is modelled.    *)
(***************************************************************************)
EXTENDS StateStore

CONSTANTS
  Indexed,       \* the instances with a count or for_each index
  Needs,         \* Needs[a]: the instances a depends on, directly or not
  Component,     \* Component[g]: the groups linked to group g by dependencies
  Replaces(_),   \* an instance with this attribute can only be replaced
  Configs,       \* the configurations a run may be started on: Addr -> attribute
  Invocations,   \* the command lines
  Drifting,      \* instances a refreshing plan may find drifted
  SoftLimit,     \* tenants.max_state_resources; 0: unlimited
  MaxCommitRetries,  \* maxCommitRetries
  Me,            \* the client's lock id, or apply id
  Other,         \* the lock id of a plain Terraform session
  Edits,         \* what other writers change: records of addr and attr
  StartDocs      \* the documents of the version a run finds

ASSUME ClientAssumption ==
  /\ IsFiniteSet(Addr) /\ Indexed \subseteq Addr /\ Drifting \subseteq Addr
  /\ Needs \in [Addr -> SUBSET Addr] /\ \A a \in Addr : \A b \in Needs[a] : Needs[b] \subseteq Needs[a]
  /\ Configs \subseteq [Addr -> Attr \cup {NoAttr}]
  /\ Invocations \subseteq [mode : {"full", "file", "target"}, sel : SUBSET Addr, spec : BOOLEAN,
                           engine : BOOLEAN, orchestrated : BOOLEAN,
                           acks : SUBSET {"unsafe", "destructive", "scope", "strict"}]
  /\ Edits \subseteq [addr : Addr, attr : Attr \cup {NoAttr}] /\ StartDocs \subseteq Doc
  /\ {Me, Other} \subseteq LockId /\ Me # Other
  /\ SoftLimit \in Nat /\ MaxCommitRetries \in Nat \ {0}

VARIABLES
  c   \* the client: cmd, want: its command line and configuration; pin,
      \* from: the serial in the plan spec and the version planned on; meta,
      \* the scope contract; acts: the actions shown; write, read: the spec's
      \* sets; locked: the serial at LOCK; base, fresh, tries: the trunk Terraform
      \* ran on, the one a commit merges with, the retries; done: the actions
      \* Terraform carried out; how: the way the run ended

clientVars == <<storeVars, c>>

NoActs == [a \in Addr |-> "none"]
NewClient(cmd, want) ==
  [pc |-> "start", cmd |-> cmd, want |-> want, pin |-> 0, from |-> 0, meta |-> "none",
   acts |-> NoActs, write |-> {}, read |-> {}, lane |-> "none", locked |-> 0, base |-> 0,
   fresh |-> 0, tries |-> 0, done |-> NoActs, how |-> "none"]

ClientInit ==
  /\ \E doc \in StartDocs :
       /\ versions = [s \in {1} |-> doc]
       /\ rows = {NewRow(a, doc.res, 1) : a \in {b \in Addr : doc.res[b].attr # NoAttr}}
  /\ current = 1
  /\ locks = [l \in LockId |-> NoLock]
  /\ exclusive = FALSE
  /\ c \in {NewClient(cmd, want) : cmd \in Invocations, want \in Configs}

At(pc)  == c.pc = pc
Go(upd) == c' = upd /\ UNCHANGED storeVars
End(how) == [c EXCEPT !.pc = "done", !.how = how]

-----------------------------------------------------------------------------
(* The hard limit on the managed instances of one state                    *)

Count(doc) == Cardinality({a \in Addr : doc.res[a].attr # NoAttr})

(* hardQuotaFromSoft                                                       *)
HardLimit == SoftLimit + (SoftLimit + 1) \div 2
Exceeds(n) == SoftLimit > 0 /\ n > HardLimit

(* enforceTenantStateLimits, on the document a write was given             *)
Admitted(doc) == ~ Exceeds(Count(doc))

-----------------------------------------------------------------------------
(* Terraform, external: a plan of the selected instances and all they      *)
(* depend on, and what carrying it out makes of the state.                 *)

Planned(sel) == sel \cup UNION {Needs[a] : a \in sel}

Act(have, want) ==
  IF have = want THEN "none"
  ELSE CASE have = NoAttr -> "create"
         [] want = NoAttr -> "delete"
         [] OTHER         -> IF Replaces(have) THEN "replace" ELSE "update"

Actions(doc, sel) ==
  [a \in Addr |-> IF a \in Planned(sel) THEN Act(doc.res[a].attr, c.want[a]) ELSE "none"]

(* With refresh, an instance that is as configured may have drifted.       *)
Refreshed(acts, doc, sel, drift) ==
  [a \in Addr |-> IF a \in drift \cap Planned(sel) /\ acts[a] = "none" /\ doc.res[a].attr # NoAttr
                  THEN "update" ELSE acts[a]]

Writes(acts)      == {a \in Addr : acts[a] # "none"}
Destructive(acts) == {a \in Addr : acts[a] \in {"delete", "replace"}}

Carried(doc, acts) ==
  [doc EXCEPT !.res = [a \in Addr |-> IF acts[a] = "none" THEN @[a]
                                      ELSE [attr |-> c.want[a], meta |-> NoMeta]]]

-----------------------------------------------------------------------------
(* Making the plan.  A run is given the spec of an earlier kl plan         *)
(* (cmd.spec) or plans for itself.                                         *)

Selected == IF c.cmd.mode = "full" THEN Addr ELSE c.cmd.sel

(* kl apply --target plans with -refresh=false.                            *)
Drifts == IF c.cmd.mode = "target" /\ ~ c.cmd.spec THEN {{}} ELSE SUBSET Drifting

PlanOn(upd, doc) ==
  {[upd EXCEPT !.pc = "planned", !.acts = Refreshed(Actions(doc, Selected), doc, Selected, drift)]
     : drift \in Drifts}

(* A full plan: the serial is read first, then terraform plan locks the    *)
(* state, reads it and unlocks it.                                         *)
PinTrunk ==
  /\ At("start") /\ c.cmd.mode = "full"
  /\ Go([c EXCEPT !.pc = "pinned", !.pin = current])

PlanLock ==
  /\ At("pinned")
  /\ AcquireLock(Me)
  /\ c' = [c EXCEPT !.pc = "planning"]

PlanFull ==
  /\ At("planning")
  /\ ReleaseLock(Me)
  /\ c' \in PlanOn([c EXCEPT !.from = current], versions[current])

(* A scoped plan over the Terraform protocol: one read is pin and plan.    *)
PlanFetched ==
  /\ At("start") /\ c.cmd.mode # "full" /\ ~ c.cmd.engine
  /\ c' \in PlanOn([c EXCEPT !.pin = current, !.from = current], versions[current])
  /\ UNCHANGED storeVars

(* ... over the state-engine protocol: kld resolves the serial, then       *)
(* materialises the rows.                                                  *)
ResolveSlice ==
  /\ At("start") /\ c.cmd.mode # "full" /\ c.cmd.engine
  /\ Go([c EXCEPT !.pc = "rows", !.pin = current, !.meta = "slice"])

PlanSliced ==
  /\ At("rows")
  /\ c' \in PlanOn([c EXCEPT !.from = current], versions[current])
  /\ UNCHANGED storeVars

(* The contract cannot be had: the whole trunk is read instead.  kl apply  *)
(* pins the serial of that read, kl plan pins none.                        *)
FallBack ==
  /\ At("rows")
  /\ c' \in PlanOn([c EXCEPT !.meta = "fallback", !.from = current,
                             !.pin = IF c.cmd.spec THEN 0 ELSE current], versions[current])
  /\ UNCHANGED storeVars

(* Discovery, an unsafe scope, LOCK or terraform plan fail; or --dry-run.  *)
PlanEnds ==
  /\ c.pc \in {"pinned", "rows", "planned"}
  /\ Go(End("refused"))

-----------------------------------------------------------------------------
(* From the plan to the spec, and the operator's gates                     *)

(* ApplyFileScope, with instances not named by any file of the plan's      *)
(* ranges: indexed ones, and those the configuration no longer has.        *)
Unowned(a) == a \in Indexed \/ c.want[a] = NoAttr
Kept(a) ==
  \/ c.cmd.mode # "file"
  \/ a \in c.cmd.sel
  \/ c.meta = "slice" /\ c.acts[a] \in {"create", "update", "replace"}
ScopedWrites == {a \in Writes(c.acts) : Kept(a)}

(* What the file scope, or ValidateTargetedWriteSet, rejects.  A target    *)
(* admits itself and the plain addresses it depends on.                    *)
OutOfScope ==
  CASE c.cmd.mode = "file"   -> {a \in Destructive(c.acts) \ ScopedWrites : Unowned(a)}
    [] c.cmd.mode = "target" -> ScopedWrites \ (c.cmd.sel \cup (Planned(c.cmd.sel) \ Indexed))
    [] OTHER                 -> {}

(* CloseReadSet: an indexed address is no node of the configuration graph. *)
ReadsOf(write) ==
  write \cup {a \in Addr : \E b \in write \ Indexed : GroupOf[a] \in Component[GroupOf[b]]}

\* Mutant of Gated: replacing an instance does not count as destructive.
GatedDeletes ==
  \/ c.cmd.mode = "target" /\ "unsafe" \notin c.cmd.acks
  \/ c.cmd.mode = "file" /\ "destructive" \notin c.cmd.acks
       /\ \E a \in Addr : c.acts[a] = "delete"
  \/ c.cmd.mode # "full" /\ "scope" \notin c.cmd.acks /\ Writes(c.acts) # {}

(* The acknowledgements a scoped apply needs; a spec needs none.           *)
Gated ==
  \/ c.cmd.mode = "target" /\ "unsafe" \notin c.cmd.acks
  \/ c.cmd.mode = "file" /\ "destructive" \notin c.cmd.acks /\ Destructive(c.acts) # {}
  \/ c.cmd.mode # "full" /\ "scope" \notin c.cmd.acks /\ Writes(c.acts) # {}

(* resolveApplyExecutionMode, classifyStateEngineApplySafety               *)
Lane == IF c.cmd.engine /\ c.meta = "slice" THEN "native"
        ELSE IF c.cmd.orchestrated THEN "snapshot" ELSE "backend"

(* A scoped apply on the backend lane starts Terraform at once, without    *)
(* the quota preflight.                                                    *)
Direct == c.cmd.mode # "full" /\ ~ c.cmd.spec /\ Lane = "backend"

BuildSpec ==
  /\ At("planned")
  /\ Go(IF OutOfScope # {} \/ ScopedWrites = {} \/ (~ c.cmd.spec /\ Gated) THEN End("refused")
        ELSE [c EXCEPT !.pc = IF Direct THEN "backend" ELSE "quota", !.lane = Lane,
                       !.write = ScopedWrites, !.read = ReadsOf(ScopedWrites)])

\* Mutant of PlannedDelta: a replacement counts as a deletion, not as a creation too.
PlannedDeltaReplaced == Cardinality({a \in Addr : c.acts[a] = "create"})
                          - Cardinality(Destructive(c.acts))

(* quotaPlanDeltaFromSummary: of the whole plan, not of the write set.     *)
PlannedDelta == Cardinality({a \in Addr : c.acts[a] = "create"})
                  - Cardinality({a \in Addr : c.acts[a] = "delete"})

(* enforceApplyQuotaPreflight, PreviewStateQuota: the open rows now.       *)
QuotaPreflight ==
  /\ At("quota")
  /\ LET projected == Cardinality({r \in rows : IsOpen(r)}) + PlannedDelta
     IN  Go(IF Exceeds(projected) THEN End("refused")
            ELSE [c EXCEPT !.pc = IF c.lane = "backend" THEN "backend" ELSE "status"])

(* The locks of plain Terraform: a warning, or the end under strict        *)
(* coexistence.                                                            *)
CheckCoexistence ==
  /\ At("status")
  /\ Go(IF "strict" \in c.cmd.acks /\ Held # {} THEN End("refused")
        ELSE [c EXCEPT !.pc = IF c.lane = "native" THEN "begin" ELSE "reserve"])

-----------------------------------------------------------------------------
(* The backend lane: terraform apply -auto-approve -refresh=false with the *)
(* write set as targets.                                                   *)

BackendLock ==
  /\ At("backend")
  /\ \/ AcquireLock(Me) /\ c' = [c EXCEPT !.pc = "locked", !.locked = current]
     \/ Held # {} /\ Go(End("refused"))

(* It plans again, on the trunk of now, and carries that plan out, maybe   *)
(* in part; what it did is posted in either case.                          *)
BackendApply ==
  /\ At("locked")
  /\ LET acts == Actions(versions[current], c.write)
     IN  \E kept \in SUBSET Writes(acts) :
           Go([c EXCEPT !.base = current,
                        !.done = [a \in Addr |-> IF a \in kept THEN acts[a] ELSE "none"],
                        !.pc = IF kept = {} THEN "unlocking" ELSE "posting"])

(* The POST is refused by the quota or by the merge.                       *)
BackendPost ==
  /\ At("posting")
  /\ LET doc == Carried(versions[c.base], c.done)
     IN  \/ /\ Admitted(doc) /\ WriteState(Me, doc)
            /\ c' = [c EXCEPT !.pc = "unlocking", !.how = "committed"]
         \/ ~ Admitted(doc) /\ Go([c EXCEPT !.pc = "unlocking", !.how = "quota"])
         \/ /\ ~ MergePasses(Me, doc)
            /\ Go([c EXCEPT !.pc = "unlocking", !.how = "conflict"])

BackendUnlock ==
  /\ At("unlocking")
  /\ ReleaseLock(Me)
  /\ c' = [c EXCEPT !.pc = "done"]

-----------------------------------------------------------------------------
(* The orchestrated lanes                                                  *)

CoarseLock ==
  /\ At("begin")
  /\ \/ AcquireStateEngineLock(Me) /\ c' = [c EXCEPT !.pc = "reserve"]
     \/ Held # {} /\ Go(End("refused"))

Reserve == At("reserve") /\ Go([c EXCEPT !.pc = "guard"])

Reserving == c.pc \in {"guard", "terraform", "merging", "committing"}
Stop(how) == [c EXCEPT !.pc = "closing", !.how = how]

(* The staleness guard; a spec without a serial is not guarded.            *)
Stale ==
  c.pin > 0 /\ current > c.pin /\ ChangedReadSet(versions[c.pin], versions[current], c.read) # {}

Guard ==
  /\ At("guard")
  /\ Go(IF Stale THEN Stop("refused") ELSE [c EXCEPT !.pc = "terraform", !.base = current])

Replan == Actions(versions[c.base], c.write)

(* runTerraform: the validation replan must want to write the groups of    *)
(* the write set; then terraform apply, which may fail half way: nothing   *)
(* of it is committed then.                                                *)
RunTerraform ==
  /\ At("terraform")
  /\ IF Groups(Writes(Replan)) # Groups(c.write) THEN Go(Stop("refused"))
     ELSE \/ Go([c EXCEPT !.pc = "merging", !.done = Replan])
          \/ \E kept \in SUBSET Writes(Replan) :
               Go([Stop("terraform") EXCEPT
                     !.done = [a \in Addr |-> IF a \in kept THEN Replan[a] ELSE "none"]])

(* The slice Terraform left behind, over the trunk it was cut from.        *)
AppliedState == Carried(versions[c.base], c.done)

(* validateTrustedStateEngineIntent: the exact addresses of the deletions  *)
(* are looked up among the groups of the writes.                           *)
Untrusted ==
  \/ Groups(Writes(c.done)) # Groups(c.write)
  \/ \E a \in Addr : c.done[a] = "delete" /\ a \in Indexed

ReadFresh ==
  /\ At("merging")
  /\ Go(IF c.lane = "native" /\ Untrusted THEN Stop("intent")
        ELSE [c EXCEPT !.pc = "committing", !.fresh = current])

\* Mutant of DeltaAddresses: the delta names the groups of the writes.
DeltaAddressesByGroup == GroupClosure(Writes(c.done))

(* buildStateEngineDeltaCommit: the exact writes of the validation replan. *)
DeltaAddresses == Writes(c.done)

Merged == BuildMergedState(versions[c.fresh], AppliedState, c.write)

(* The document each lane asks the store for, and the limit it must keep.  *)
CommitOf(doc, write) ==
  IF Admitted(doc) THEN write /\ c' = Stop("committed") ELSE Go(Stop("quota"))

CommitNative ==
  /\ At("committing") /\ c.lane = "native"
  /\ CommitOf([AppliedState EXCEPT !.res = RebuiltRes(AppliedState.res, DeltaAddresses)],
              WriteStateEngineDeltaForApply(AppliedState, DeltaAddresses, {}))

(* A serial that is taken by now is tried again on the newer trunk.        *)
CommitSnapshot ==
  /\ At("committing") /\ c.lane = "snapshot"
  /\ IF Admitted(Merged) /\ c.fresh + 1 \in DOMAIN versions
     THEN Go(IF c.tries + 1 = MaxCommitRetries THEN Stop("retries")
             ELSE [c EXCEPT !.pc = "merging", !.tries = @ + 1])
     ELSE CommitOf(Merged, WriteStateForApply(c.fresh + 1, Merged))

(* Finalize, release the reservations and the coarse lock.                 *)
Close ==
  /\ At("closing")
  /\ IF c.lane = "native" THEN ReleaseStateEngineLock(Me) ELSE UNCHANGED storeVars
  /\ c' = [c EXCEPT !.pc = "done"]

-----------------------------------------------------------------------------
(* Everybody else                                                          *)

Edited(doc, e) == [doc EXCEPT !.res[e.addr] = [attr |-> e.attr, meta |-> NoMeta]]

(* A Terraform session: LOCK, POST of an edit of what it read then, UNLOCK.*)
TerraformLocks == AcquireLock(Other) /\ UNCHANGED c
TerraformPosts ==
  /\ \E e \in Edits :
       LET doc == Edited(versions[locks[Other].source], e)
       IN  Other \in Held /\ Admitted(doc) /\ doc # versions[current] /\ WriteState(Other, doc)
  /\ UNCHANGED c
TerraformUnlocks == ReleaseLock(Other) /\ UNCHANGED c

(* Another kl apply, on the orchestrated lane: it keeps off the addresses  *)
(* this run has reserved, exactly as they are written.                     *)
Reserved == IF Reserving THEN c.write \cup (c.read \ Indexed) ELSE {}
OtherApply ==
  /\ \E e \in Edits :
       LET doc == Edited(versions[current], e)
       IN  /\ e.addr \notin Reserved /\ doc # versions[current]
           /\ Admitted(doc) /\ WriteStateForApply(current + 1, doc)
  /\ UNCHANGED c

Client ==
  \/ PinTrunk \/ PlanLock \/ PlanFull \/ PlanFetched \/ ResolveSlice \/ PlanSliced \/ FallBack
  \/ BuildSpec \/ QuotaPreflight \/ CheckCoexistence
  \/ BackendLock \/ BackendApply \/ BackendPost \/ BackendUnlock
  \/ CoarseLock \/ Reserve \/ Guard \/ RunTerraform \/ ReadFresh
  \/ CommitNative \/ CommitSnapshot \/ Close

ClientNext ==
  \/ Client \/ PlanEnds
  \/ TerraformLocks \/ TerraformPosts \/ TerraformUnlocks \/ OtherApply

ClientSpec == ClientInit /\ [][ClientNext]_clientVars

-----------------------------------------------------------------------------
(* Properties                                                              *)

Ran == c.done # NoActs

(* The trunk has not moved between the plan and what Terraform saw.        *)
Undisturbed == c.base = c.from

(* The plan was pinned to the version it was made on.                      *)
Pinned == c.pin > 0 /\ c.pin = c.from

(* Terraform carries out only actions the operator was shown, although it  *)
(* plans again: on the orchestrated lanes whatever others committed since, *)
(* on the backend lane, which has no guard, as long as they did not.  So a *)
(* file-scoped apply destroys nothing without the acknowledgement.         *)
AsConfirmed ==
  (Ran /\ IF c.lane = "backend" THEN Undisturbed ELSE Pinned) =>
    /\ \A a \in Addr : c.done[a] \in {"none", c.acts[a]}
    /\ (c.cmd.mode = "file" /\ ~ c.cmd.spec /\ "destructive" \notin c.cmd.acks)
         => Destructive(c.done) = {}

(* What Terraform did is recorded, or there is a reason: Terraform itself  *)
(* failed; the trunk moved since the LOCK, or the serial was lost to       *)
(* others over and over; the native lane deleted an indexed instance,      *)
(* which its last check mistakes for a foreign one; or the quota, which    *)
(* was checked on the plan, was used up by others since, counted on        *)
(* deletions that failed, or is checked at the end only (a scoped apply on *)
(* the backend lane).                                                      *)
RecordedOrExplained ==
  (c.pc = "done" /\ Ran) =>
    CASE c.how = "intent"   -> \E a \in Indexed : c.done[a] = "delete"
      [] c.how = "quota"    -> \/ c.lane = "backend" /\ ~ c.cmd.spec /\ c.cmd.mode # "full"
                               \/ c.lane = "backend" /\ c.done # c.acts
                               \/ current > c.from
      [] c.how = "conflict" -> current > c.locked
      [] c.how = "retries"  -> current >= c.base + MaxCommitRetries
      [] OTHER              -> c.how \in {"terraform", "committed"}

(* A commit of the orchestrated lanes changes what Terraform changed, to   *)
(* what it made of it, and leaves all other addresses as they are, whoever *)
(* wrote them meanwhile: exactly on the native lane, though of what only   *)
(* raw_state carries nothing stays there, and up to the sibling instances  *)
(* of a resource on the snapshot lane.                                     *)
InScope(was, is) ==
  /\ IF c.lane = "native"
     THEN \A a \in Addr \ Writes(c.done) : is[a].attr = was[a].attr
     ELSE \A a \in Addr \ GroupClosure(c.write) : is[a] = was[a]
  /\ \A a \in Writes(c.done) : is[a].attr = c.want[a]
ScopeKept ==
  [][(CommitNative \/ CommitSnapshot) /\ current' # current =>
       InScope(versions[current].res, versions'[current'].res)]_clientVars

(* From the coarse lock to its release a native apply is alone with plain  *)
(* Terraform: no other lock is granted, so no POST can land.               *)
NativeAlone ==
  (c.lane = "native" /\ c.pc \in {"reserve", "guard", "terraform", "merging", "committing", "closing"})
     => Held = {Me}
=============================================================================
