------------------------------ MODULE Commands ------------------------------
(***************************************************************************)
(* The operator commands that show a preview, ask for confirmation and     *)
(* then write: kl rollback, kl rollback resource, kl state rm and kl state *)
(* mv.  Preview and write are two requests, minutes apart, and the write   *)
(* resolves its version reference afresh: nothing of the preview but the   *)
(* words of the command reaches the server.  The writes themselves are     *)
(* those of EngineWrites, one request slot per command, beside tags, plain *)
(* Terraform and writers without a lock (the commit of kl refresh is one). *)
(***************************************************************************)
EXTENDS EngineWrites

VARIABLES
  cli   \* the commands: cmd, what was typed; base, the current version the
        \* preview read; shown, diff: the target and the address changes it
        \* showed; cur, target: the same reads repeated by the apply handler

commandVars == <<engineVars, cli>>

NoCommand == [kind |-> None, from |-> None, to |-> None, ref |-> NoRef, strict |-> FALSE]
NoSession == [pc |-> "idle", cmd |-> NoCommand, base |-> 0, shown |-> 0, diff |-> {},
              cur |-> 0, target |-> 0]

(* What can be typed.                                                      *)
Command ==
  {cmd \in [kind : {"rollback", "replay", "remove", "move"}, from : Addr \cup {None},
            to : Addr \cup {None}, ref : Refs \cup {NoRef}, strict : BOOLEAN] :
     /\ cmd.from # None <=> cmd.kind # "rollback"
     /\ cmd.to # None <=> cmd.kind = "move"
     /\ cmd.ref # NoRef <=> cmd.kind \in {"rollback", "replay"}
     /\ cmd.strict => cmd.kind = "replay"}

CommandInit == EngineInit /\ cli = [w \in Op |-> NoSession]

Cli(w, pc)     == cli[w].pc = pc
Session(w, c)  == cli' = [cli EXCEPT ![w] = c]
Exit(w)        == Session(w, NoSession)

-----------------------------------------------------------------------------
(* The preview                                                             *)

(* DiffVersionAddresses: the addresses added, removed or changed between   *)
(* the rows alive at two versions.                                         *)
Alive(r, s) == r.create <= s /\ (IsOpen(r) \/ r.delete > s)

\* Mutant of DiffVersionAddresses: a row still counts at the version that closed it.
DiffVersionAddressesLate(from, to) ==
  {a \in Addr : {r.attr : r \in {q \in rows : q.addr = a /\ q.create <= from /\ (IsOpen(q) \/ q.delete >= from)}}
             # {r.attr : r \in {q \in rows : q.addr = a /\ q.create <= to /\ (IsOpen(q) \/ q.delete >= to)}}}

DiffVersionAddresses(from, to) ==
  {a \in Addr : {r.attr : r \in {q \in rows : q.addr = a /\ Alive(q, from)}}
             # {r.attr : r \in {q \in rows : q.addr = a /\ Alive(q, to)}}}

(* currentDependents                                                       *)
CurrentDependents(s, a) == {r \in rows : Alive(r, s) /\ DependsOn(r.attr, a)}

\* Mutant of StrictRejects: a live dependent is only warned about.
StrictRejectsRemoval(cmd, base, target) == cmd.strict /\ AttrAt(cmd.from, target) = NoAttr

(* enforceResourceRollbackStrict                                           *)
StrictRejects(cmd, base, target) ==
  cmd.strict /\ (CurrentDependents(base, cmd.from) # {} \/ AttrAt(cmd.from, target) = NoAttr)

(* The preview request reads the current version ...                       *)
Ask(w, cmd) ==
  /\ Cli(w, "idle") /\ At(w, "idle") /\ current # NoVersion
  /\ Session(w, [NoSession EXCEPT !.pc = "asked", !.cmd = cmd, !.base = current])
  /\ UNCHANGED engineVars

(* ... then the target; the command stops at an unknown reference, a       *)
(* target that is the current version, or nothing to do.  A move to an     *)
(* address in use is shown, and left to the server to refuse.              *)
Pointless(c, target) ==
  LET cmd == c.cmd
  IN  CASE cmd.kind = "rollback" -> target \in {NoVersion, c.base}
        [] cmd.kind = "replay"   -> \/ target = NoVersion
                                    \/ AttrAt(cmd.from, c.base) = AttrAt(cmd.from, target)
                                    \/ StrictRejects(cmd, c.base, target)
        [] OTHER -> ~ HasInstance(versions[c.base], cmd.from)

Show(w) ==
  /\ Cli(w, "asked")
  /\ LET c      == cli[w]
         target == IF c.cmd.kind \in {"rollback", "replay"} THEN Resolve(c.cmd.ref) ELSE c.base
     IN  IF Pointless(c, target) THEN Exit(w)
         ELSE Session(w, [c EXCEPT !.pc = "shown", !.shown = target,
                                   !.diff = IF c.cmd.kind = "rollback"
                                            THEN DiffVersionAddresses(c.base, target) ELSE {}])
  /\ UNCHANGED engineVars

(* A dry run, a "no" at the prompt, an interrupt or the command's timeout. *)
Cancel(w) ==
  /\ cli[w].pc \in {"asked", "shown"}
  /\ Exit(w)
  /\ UNCHANGED engineVars

-----------------------------------------------------------------------------
(* The write                                                               *)

(* handleAdminStateRollbackApply reads the current version and resolves    *)
(* the target again, before it takes the lock.                             *)
ReadCurrent(w) ==
  /\ Cli(w, "shown") /\ cli[w].cmd.kind = "rollback"
  /\ Session(w, [cli[w] EXCEPT !.pc = "resolving", !.cur = current])
  /\ UNCHANGED engineVars

ResolveTarget(w) ==
  /\ Cli(w, "resolving")
  /\ LET target == Resolve(cli[w].cmd.ref)
     IN  IF target \in {NoVersion, cli[w].cur} THEN Exit(w)
         ELSE Session(w, [cli[w] EXCEPT !.pc = "resolved", !.target = target])
  /\ UNCHANGED engineVars

(* The request of a command: a full rollback with the version id it        *)
(* resolved, anything else with the words typed.                           *)
Carries(o, c) ==
  /\ o.kind = c.cmd.kind
  /\ IF o.kind = "rollback" THEN o.target = c.target
     ELSE o.from = c.cmd.from /\ o.to = c.cmd.to /\ o.ref = c.cmd.ref

Send(w) ==
  /\ Cli(w, IF cli[w].cmd.kind = "rollback" THEN "resolved" ELSE "shown")
  /\ Begin(w)
  /\ Carries(op'[w], cli[w])
  /\ Session(w, [cli[w] EXCEPT !.pc = "sent"])

(* 423: somebody holds a lock; or the request fails.                       *)
Refused(w) ==
  /\ Cli(w, IF cli[w].cmd.kind = "rollback" THEN "resolved" ELSE "shown")
  /\ Held # {}
  /\ Exit(w)
  /\ UNCHANGED engineVars

(* The answer, or the end of whoever waited for it.                        *)
Answered(w) == Finish(w) /\ Exit(w)
Lost(w)     == Crash(w) /\ Exit(w)

(* The slots also serve the trusted lane of kl apply.                      *)
BeginApply(w) == Cli(w, "idle") /\ Begin(w) /\ op'[w].kind = "apply" /\ UNCHANGED cli

ServerStep(w) ==
  /\ \/ Preview(w) \/ ReadDoc(w) \/ ReadRows(w) \/ Mutate(w)
     \/ Rollback(w) \/ ReadTrunk(w) \/ CommitDelta(w) \/ OpFails(w)
  /\ UNCHANGED cli

(* A replay by tag t is between the two places that resolve it: a tag that *)
(* moves at that moment is the business of TagRaceNext.                    *)
Resolving(t) == \E w \in Op : At(w, "previewed") /\ op[w].ref.kind = "tag" /\ op[w].ref.tag = t

CommandNext ==
  \/ \E w \in Op :
       \/ \E cmd \in Command : Ask(w, cmd)
       \/ Show(w) \/ Cancel(w) \/ ReadCurrent(w) \/ ResolveTarget(w) \/ Send(w) \/ Refused(w)
       \/ BeginApply(w) \/ ServerStep(w) \/ Answered(w) \/ Lost(w)
  \/ \E t \in Tag : ~ Resolving(t) /\ Tagging(t) /\ UNCHANGED cli
  \/ Terraform /\ UNCHANGED cli

CommandFairness == \A w \in Op : WF_commandVars(ServerStep(w) \/ Answered(w))
CommandSpec     == CommandInit /\ [][CommandNext]_commandVars /\ CommandFairness

-----------------------------------------------------------------------------
(* Properties                                                              *)

(* A reference may mean another version by the time of the write: a tag    *)
(* that moved, or @n after a commit; a serial never does.                  *)
Moved(c, target) ==
  /\ target # c.shown
  /\ \/ c.cmd.ref.kind = "tag"
     \/ c.cmd.ref.kind = "back" /\ current # c.base

Changes(from, to) == {a \in Addr : from.res[a].attr # to.res[a].attr}

(* What the operator confirmed is what happens, although target and diff   *)
(* were computed from the rows by another request, minutes ago: a rollback *)
(* writes the version shown, unless its reference moved, and the addresses *)
(* it changes are those listed, but for what was committed in between.     *)
RollbackAsShown ==
  [][\A w \in Op : Rollback(w) =>
       \/ Moved(cli[w], op[w].target)
       \/ /\ versions'[current'] = versions[cli[w].shown]
          /\ \A a \in Addr : \/ a \in Changes(versions[current], versions'[current']) <=> a \in cli[w].diff
                             \/ a \in Changes(versions[cli[w].base], versions[current])]_commandVars

(* The promise of a strict rollback of a resource, which only the preview  *)
(* checks (enforceResourceRollbackStrict), when the write comes after      *)
(* other commits: the address is still there, unless the reference moved,  *)
(* and who depends on it now did not at the preview, it was committed in   *)
(* between.                                                                *)
StrictKept ==
  [][\A w \in Op : (Mutate(w) /\ cli[w].cmd.strict) =>
       /\ HasInstance(versions'[current'], op[w].from) \/ Moved(cli[w], op[w].target)
       /\ \A a \in Addr : DependsOn(versions[current].res[a].attr, op[w].from) =>
                            a \in Changes(versions[cli[w].base], versions[current])]_commandVars
=============================================================================
