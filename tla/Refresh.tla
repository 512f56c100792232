------------------------------ MODULE Refresh ------------------------------
(***************************************************************************)
(* One run of kl refresh in kld: refresh.Run (internal/refresh), the       *)
(* factory that launches and configures providers, and their clients       *)
(* (internal/provider).                                                    *)
(*                                                                         *)
(* The managed instances of the state fall into groups, one per provider   *)
(* source and alias.  The main goroutine starts one goroutine per group,   *)
(* at most opts.limit at once, and waits for all of them; a group opens    *)
(* its provider process and reads its instances one after the other.       *)
(* Another goroutine per group asks the provider to stop when the context  *)
(* of the groups is cancelled, which the first failure does in fail-fast   *)
(* mode.  The caller's context ends with the request of the client: at any *)
(* moment.                                                                 *)
(*                                                                         *)
(* An instance's attributes in the parsed state are "stored", "upgraded"   *)
(* by UpgradeResourceState, "read", or "declined": the provider answered   *)
(* without a new state and they stay as they were.  That an answer equals  *)
(* what was stored makes no difference here.                               *)
(***************************************************************************)
EXTENDS Integers, Sequences, FiniteSets

CONSTANTS
  Entry,        \* managed resource instances
  Entries,      \* sequence of the groups: each a sequence of entries
  Outdated,     \* entries stored under an older schema version than the provider's
  Limits,       \* values of Options.Concurrency: groups at once, 0 for no limit
  MaxCommits    \* bound: commits of other writers

Group == DOMAIN Entries

ASSUME RefreshAssumption ==
  /\ IsFiniteSet(Entry) /\ Outdated \subseteq Entry
  /\ Entries \in Seq(Seq(Entry) \ {<<>>})
  /\ \A e \in Entry : \E k \in Group : \E j \in 1..Len(Entries[k]) : Entries[k][j] = e
  /\ \A k, m \in Group : \A i \in 1..Len(Entries[k]), j \in 1..Len(Entries[m]) :
       Entries[k][i] = Entries[m][j] => k = m /\ i = j
  /\ Limits \subseteq Nat /\ MaxCommits \in Nat

VARIABLES
  opts,     \* Options: failFast, dryRun, limit (Concurrency)
  run,      \* the main goroutine: pc, next group, serial read, wrote, to
  row,      \* refresh_runs: status, and the counters it was finished with
  gor,      \* the goroutines of the groups: pc, i the entry at hand
  proc,     \* the provider process of each group
  attrs,    \* the parsed state
  tally,    \* per entry, how often it was counted as checked and as failed
  schemas,  \* provider_schemas: the groups whose provider has its schema there
  ctx,      \* the caller's context is done
  gctx,     \* the groups' context is done
  serial    \* the trunk's serial

workVars == <<gor, proc, attrs, tally, schemas>>
vars     == <<opts, run, row, workVars, ctx, gctx, serial>>

RefreshInit ==
  /\ opts \in [failFast : BOOLEAN, dryRun : BOOLEAN, limit : Limits]
  /\ run = [pc |-> "load", next |-> 1, base |-> 0, wrote |-> 0, to |-> 0]
  /\ row = [status |-> "none", checked |-> 0, failed |-> 0, to |-> 0]
  /\ gor = [k \in Group |-> [pc |-> "waiting", i |-> 1]]
  /\ proc = [k \in Group |-> "none"]
  /\ attrs = [e \in Entry |-> "stored"]
  /\ tally = [e \in Entry |-> [checked |-> 0, failed |-> 0]]
  /\ schemas \in SUBSET Group
  /\ ctx = FALSE /\ gctx = FALSE
  /\ serial = 1

-----------------------------------------------------------------------------
(* The run, up to the groups                                               *)

At(pc)      == run.pc = pc
Goto(pc)    == run' = [run EXCEPT !.pc = pc]
Failures    == {e \in Entry : tally[e].failed > 0}
Checks      == {e \in Entry : tally[e].checked > 0}

(* GetCurrentStateInfo; without a context nothing is begun.                *)
LoadState ==
  /\ At("load")
  /\ run' = [run EXCEPT !.pc = IF ctx THEN "ended" ELSE "begin", !.base = serial]
  /\ UNCHANGED <<opts, row, workVars, ctx, gctx, serial>>

BeginRefreshRun ==
  /\ At("begin")
  /\ IF ctx THEN row' = row /\ Goto("ended")
            ELSE row' = [row EXCEPT !.status = "running"] /\ Goto("spawn")
  /\ UNCHANGED <<opts, workVars, ctx, gctx, serial>>

(* groupByProvider finds a reference it cannot parse.                      *)
GroupingFails ==
  /\ At("spawn") /\ run.next = 1
  /\ Goto("failing")
  /\ UNCHANGED <<opts, row, workVars, ctx, gctx, serial>>

\* Mutant of Busy: a group keeps its place when it has ended.
BusyForGood == {k \in Group : gor[k].pc # "waiting"}

(* The groups that hold a place of the semaphore.                          *)
Busy == {k \in Group : gor[k].pc \notin {"waiting", "done"}}

(* processGroups: one goroutine per group, in order, waiting for a place   *)
(* without a look at the context.                                          *)
Spawn ==
  /\ At("spawn") /\ run.next \in Group
  /\ opts.limit > 0 => Cardinality(Busy) < opts.limit
  /\ gor' = [gor EXCEPT ![run.next].pc = "start"]
  /\ run' = [run EXCEPT !.next = @ + 1]
  /\ UNCHANGED <<opts, row, proc, attrs, tally, schemas, ctx, gctx, serial>>

(* wg.Wait, and the deferred cancel.                                       *)
Wait ==
  /\ At("spawn") /\ run.next \notin Group
  /\ \A k \in Group : gor[k].pc = "done"
  /\ gctx' = TRUE
  /\ Goto(IF ~ opts.dryRun /\ Failures = {} THEN "write" ELSE "finish")
  /\ UNCHANGED <<opts, row, workVars, ctx, serial>>

-----------------------------------------------------------------------------
(* Commit and audit                                                        *)

(* commitRefreshedState: WriteState without a lock stores at the next      *)
(* serial.  With the context done it fails, and may have committed.        *)
WriteState ==
  /\ At("write")
  /\ \/ /\ ~ ctx
        /\ serial' = serial + 1
        /\ run' = [run EXCEPT !.pc = "lookup", !.wrote = serial + 1]
     \/ serial' = serial /\ Goto("failing")
     \/ /\ ctx
        /\ serial' = serial + 1
        /\ run' = [run EXCEPT !.pc = "failing", !.wrote = serial + 1]
  /\ UNCHANGED <<opts, row, workVars, ctx, gctx>>

(* The version is looked up by the serial after the one read.              *)
LookupStateVersionID ==
  /\ At("lookup")
  /\ \/ ~ ctx /\ run' = [run EXCEPT !.pc = "finish", !.to = run.base + 1]
     \/ Goto("failing")
  /\ UNCHANGED <<opts, row, workVars, ctx, gctx, serial>>

Terminal(status, to) ==
  [status |-> status, checked |-> Cardinality(Checks), failed |-> Cardinality(Failures), to |-> to]

(* finalize and finalizeWithError; the context of the run is used here     *)
(* too, so a run that was cancelled leaves its row as it is.               *)
FinishRefreshRun ==
  /\ run.pc \in {"finish", "failing"}
  /\ Goto("ended")
  /\ IF ctx THEN row' = row
     ELSE row' = IF At("failing") THEN Terminal("failed", 0)
                 ELSE IF Failures # {} THEN Terminal("failed", run.to)
                 ELSE Terminal("succeeded", run.to)
  /\ UNCHANGED <<opts, workVars, ctx, gctx, serial>>

-----------------------------------------------------------------------------
(* The goroutine of a group                                                *)

In(k, pc)     == gor[k].pc = pc
Move(k, pc)   == gor' = [gor EXCEPT ![k].pc = pc]
EntryOf(k)    == Entries[k][gor[k].i]
Alive(k)      == proc[k] \in {"running", "stopping"}
FailFast      == gctx' = (gctx \/ opts.failFast)

\* Mutant of GroupAborted: the entries of a group that cannot be opened are not counted.
GroupAbortedSilently(k) == tally

(* recordGroupAborted: every entry of the group counts as failed.          *)
GroupAborted(k) ==
  [e \in Entry |-> IF \E i \in 1..Len(Entries[k]) : Entries[k][i] = e
                     THEN [tally[e] EXCEPT !.failed = @ + 1] ELSE tally[e]]

EntryFailed(e) == [tally EXCEPT ![e].failed = @ + 1]

(* processGroup up to Open.                                                *)
Start(k) ==
  /\ In(k, "start")
  /\ IF gctx THEN tally' = GroupAborted(k) /\ Move(k, "done")
             ELSE tally' = tally /\ Move(k, "discover")
  /\ UNCHANGED <<opts, run, row, proc, attrs, schemas, ctx, gctx, serial>>

(* Discover finds the binary; Launch leaves the start of the child process *)
(* and the handshake to a goroutine and waits for it, or for the context.  *)
Discover(k) ==
  /\ In(k, "discover")
  /\ proc' = [proc EXCEPT ![k] = "forking"]
  /\ Move(k, "launch")
  /\ UNCHANGED <<opts, run, row, attrs, tally, schemas, ctx, gctx, serial>>

(* That goroutine: the plugin library starts the child, also after a Kill  *)
(* that found none.                                                        *)
Fork(k) ==
  /\ proc[k] = "forking"
  /\ proc' = [proc EXCEPT ![k] = IF In(k, "launch") THEN "running" ELSE "orphan"]
  /\ UNCHANGED <<opts, run, row, gor, attrs, tally, schemas, ctx, gctx, serial>>

(* The handshake is done.                                                  *)
Launch(k) ==
  /\ In(k, "launch") /\ proc[k] = "running"
  /\ Move(k, "resolve")
  /\ UNCHANGED <<opts, run, row, proc, attrs, tally, schemas, ctx, gctx, serial>>

ResolveSchema(k) ==
  /\ In(k, "resolve")
  /\ Move(k, IF k \in schemas THEN "configure" ELSE "schema")
  /\ UNCHANGED <<opts, run, row, proc, attrs, tally, schemas, ctx, gctx, serial>>

(* GetSchema answers; a write to the cache that fails is only logged.      *)
GetSchema(k) ==
  /\ In(k, "schema")
  /\ schemas' \in {schemas, schemas \cup {k}}
  /\ Move(k, "configure")
  /\ UNCHANGED <<opts, run, row, proc, attrs, tally, ctx, gctx, serial>>

Configure(k) ==
  /\ In(k, "configure")
  /\ Move(k, "next")
  /\ UNCHANGED <<opts, run, row, proc, attrs, tally, schemas, ctx, gctx, serial>>

\* Mutant of Closed: an Open that fails leaves its provider running.
ClosedNot(k) == proc

(* Kill, as Close does it: a process that runs ends.                       *)
Closed(k) == [proc EXCEPT ![k] = IF Alive(k) THEN "killed" ELSE @]

(* Open fails at any of its steps, before the child has started only       *)
(* because the context is done.                                            *)
OpenFails(k) ==
  /\ gor[k].pc \in {"discover", "launch", "resolve", "schema", "configure"}
  /\ proc[k] = "forking" => gctx
  /\ proc' = Closed(k)
  /\ tally' = GroupAborted(k)
  /\ FailFast
  /\ Move(k, "done")
  /\ UNCHANGED <<opts, run, row, attrs, schemas, ctx, serial>>

(* The head of the loop over the entries.                                  *)
NextEntry(k) ==
  /\ In(k, "next")
  /\ IF gor[k].i > Len(Entries[k]) THEN Move(k, "closing") /\ UNCHANGED tally
     ELSE IF gctx THEN /\ tally' = EntryFailed(EntryOf(k))
                       /\ gor' = [gor EXCEPT ![k].i = @ + 1]
     ELSE /\ Move(k, IF EntryOf(k) \in Outdated THEN "upgrade" ELSE "read")
          /\ UNCHANGED tally
  /\ UNCHANGED <<opts, run, row, proc, attrs, schemas, ctx, gctx, serial>>

(* UpgradeResourceState answers; no bytes leave the attributes as stored.  *)
Upgraded(k) ==
  /\ In(k, "upgrade")
  /\ attrs' \in {attrs, [attrs EXCEPT ![EntryOf(k)] = "upgraded"]}
  /\ Move(k, "read")
  /\ UNCHANGED <<opts, run, row, proc, tally, schemas, ctx, gctx, serial>>

(* ReadResource answers with the new state.                                *)
ReadResource(k) ==
  /\ In(k, "read")
  /\ attrs' = [attrs EXCEPT ![EntryOf(k)] = "read"]
  /\ tally' = [tally EXCEPT ![EntryOf(k)].checked = @ + 1]
  /\ gor' = [gor EXCEPT ![k] = [pc |-> "next", i |-> @.i + 1]]
  /\ UNCHANGED <<opts, run, row, proc, schemas, ctx, gctx, serial>>

(* ... or declines (Deferred): counted as checked, the attributes stay.    *)
ReadDeferred(k) ==
  /\ In(k, "read")
  /\ attrs' = [attrs EXCEPT ![EntryOf(k)] = "declined"]
  /\ tally' = [tally EXCEPT ![EntryOf(k)].checked = @ + 1]
  /\ gor' = [gor EXCEPT ![k] = [pc |-> "next", i |-> @.i + 1]]
  /\ UNCHANGED <<opts, run, row, proc, schemas, ctx, gctx, serial>>

(* Fail fast leaves the loop, its other entries uncounted.                 *)
AfterFailure(k) == IF opts.failFast THEN [gor[k] EXCEPT !.pc = "closing"]
                   ELSE [pc |-> "next", i |-> gor[k].i + 1]

(* An error or an error diagnostic of either call; the context is done, or *)
(* the codec fails.                                                        *)
CallFails(k) ==
  /\ gor[k].pc \in {"upgrade", "read"}
  /\ tally' = EntryFailed(EntryOf(k))
  /\ gor' = [gor EXCEPT ![k] = AfterFailure(k)]
  /\ FailFast
  /\ UNCHANGED <<opts, run, row, proc, attrs, schemas, ctx, serial>>

(* The watching goroutine: Stop, once, when the context is done.           *)
Stop(k) ==
  /\ gctx /\ proc[k] = "running" /\ gor[k].pc \in {"next", "upgrade", "read", "closing"}
  /\ proc' = [proc EXCEPT ![k] = "stopping"]
  /\ UNCHANGED <<opts, run, row, gor, attrs, tally, schemas, ctx, gctx, serial>>

(* The deferred function of processGroup: done, Stop if cancelled, Close.  *)
Close(k) ==
  /\ In(k, "closing")
  /\ gctx => proc[k] = "stopping"
  /\ proc' = [proc EXCEPT ![k] = "killed"]
  /\ Move(k, "done")
  /\ UNCHANGED <<opts, run, row, attrs, tally, schemas, ctx, gctx, serial>>

-----------------------------------------------------------------------------
(* The environment: the client goes away, other writers commit.            *)

Cancel ==
  /\ ~ ctx /\ ~ At("ended")
  /\ ctx' = TRUE /\ gctx' = TRUE
  /\ UNCHANGED <<opts, run, row, workVars, serial>>

OtherCommit ==
  /\ serial - 1 < MaxCommits /\ ~ At("ended")
  /\ serial' = serial + 1
  /\ UNCHANGED <<opts, run, row, workVars, ctx, gctx>>

Main == \/ LoadState \/ BeginRefreshRun \/ GroupingFails \/ Spawn \/ Wait
        \/ WriteState \/ LookupStateVersionID \/ FinishRefreshRun

(* Steps that wait for nobody but the process itself, the database, or a   *)
(* call that ends because its context is done.                             *)
Own(k)    == Start(k) \/ Discover(k) \/ Fork(k) \/ ResolveSchema(k) \/ NextEntry(k) \/ Stop(k) \/ Close(k)
Ending(k) == gctx /\ (OpenFails(k) \/ CallFails(k))

Answer(k) == \/ Launch(k) \/ GetSchema(k) \/ Configure(k)
             \/ Upgraded(k) \/ ReadResource(k) \/ ReadDeferred(k)
             \/ OpenFails(k) \/ CallFails(k)

RefreshNext ==
  \/ Main
  \/ \E k \in Group : Own(k) \/ Answer(k)
  \/ Cancel \/ OtherCommit

RefreshFairness ==
  /\ WF_vars(Main)
  /\ \A k \in Group : WF_vars(Own(k)) /\ WF_vars(Ending(k))

RefreshSpec == RefreshInit /\ [][RefreshNext]_vars /\ RefreshFairness

-----------------------------------------------------------------------------
(* Properties                                                              *)

OptionRecord == [failFast : BOOLEAN, dryRun : BOOLEAN, limit : Limits]
RunRecord ==
  [pc : {"load", "begin", "spawn", "write", "lookup", "finish", "failing", "ended"},
   next : 1..(Len(Entries) + 1), base : Nat, wrote : Nat, to : Nat]
RowRecord ==
  [status : {"none", "running", "succeeded", "failed"}, checked : Nat, failed : Nat, to : Nat]
GoroutineRecord ==
  [pc : {"waiting", "start", "discover", "launch", "resolve", "schema", "configure",
         "next", "upgrade", "read", "closing", "done"}, i : Nat]

(* Shapes of the run, its row and its goroutines.                          *)
RefreshTypeOK ==
  /\ opts \in OptionRecord /\ run \in RunRecord /\ row \in RowRecord
  /\ gor \in [Group -> GoroutineRecord]
  /\ proc \in [Group -> {"none", "forking", "orphan", "running", "stopping", "killed"}]
  /\ attrs \in [Entry -> {"stored", "upgraded", "read", "declined"}]
  /\ tally \in [Entry -> [checked : Nat, failed : Nat]]
  /\ schemas \subseteq Group
  /\ ctx \in BOOLEAN /\ gctx \in BOOLEAN /\ serial \in Nat

(* A version written by a refresh, and a run recorded as succeeded, rest   *)
(* on an answer of the provider for every instance, whatever failed or was *)
(* cancelled at any moment: "a partially-refreshed state is more dangerous *)
(* than no refresh" (Run), "every resource refreshed" (kl refresh).        *)
SuccessIsWhole ==
  run.wrote # 0 \/ row.status = "succeeded" =>
    \A e \in Entry : attrs[e] \in {"read", "declined"}

(* Providers are contained: never more processes than the limit, and       *)
(* none outlives its group, wherever Open, a call or the whole run ends;   *)
(* only a child that was started after its Kill does, and no child but     *)
(* that of a cancelled run.                                                *)
ProvidersContained ==
  /\ opts.limit > 0 => Cardinality({k \in Group : Alive(k)}) <= opts.limit
  /\ \A k \in Group : In(k, "done") => ~ Alive(k)
  /\ \A k \in Group : proc[k] = "orphan" => gctx

(* A run that is cancelled, by its client or by the first failure in       *)
(* fail-fast mode, ends, whatever the providers do: groups that wait for   *)
(* the semaphore and calls that hang included.                             *)
CancelledRunEnds == gctx ~> At("ended")

(* No child outlives an Open that fails: "on a non-nil error the factory   *)
(* leak no resources" (Open), "a cancelled context kills the child"        *)
(* (Launch).                                                               *)
NoOrphans == \A k \in Group : proc[k] # "orphan"

(* The row of a run that has ended is terminal: "All branches below        *)
(* converge on a single Finish, regardless of which path fails" (Run).     *)
RowFinished == At("ended") => row.status # "running"

=============================================================================
