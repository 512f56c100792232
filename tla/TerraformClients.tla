-------------------------- MODULE TerraformClients --------------------------
(***************************************************************************)
(* Plain Terraform clients working on one state through the HTTP backend   *)
(* (internal/backend/server.go: LOCK, GET, POST, UNLOCK), beside operators *)
(* who force-unlock, roll back or switch the lock mode, and beside kl      *)
(* apply runs that commit without taking a lock.                           *)
(*                                                                         *)
(* A client session locks with its own lock id, reads the state, edits its *)
(* copy and posts the whole copy, possibly several times (Terraform also   *)
(* persists intermediate snapshots), then unlocks.  It may be killed at    *)
(* any point and leave its lock behind.  The Terraform client itself is    *)
(* outside the repository; its sessions are modelled from the requests the *)
(* handlers serve.                                                         *)
(***************************************************************************)
EXTENDS StateStore

CONSTANTS
  MaxPosts     \* bound: POSTs per session

ASSUME ClientAssumption == MaxPosts \in Nat \ {0}

VARIABLES
  sess   \* one session per lock id: its phase, the trunk at LOCK and at GET, its
         \* copy, the POSTs made; alone (history): only Terraform wrote since LOCK

clientVars == <<storeVars, sess>>

Phase   == {"idle", "locked", "ready", "finished", "crashed"}
SessionRecord == [pc : Phase, src : Nat, seen : Nat \cup {NoVersion}, doc : Doc,
            posts : 0..MaxPosts - 1, alone : BOOLEAN]
Idle    == [pc |-> "idle", src |-> 0, seen |-> NoVersion, doc |-> EmptyDoc,
            posts |-> 0, alone |-> FALSE]

(* Nothing left to do but to unlock.                                       *)
Finished(c) == [Idle EXCEPT !.pc = "finished", !.alone = sess[c].alone]

(* One more POST made.                                                     *)
Posted(c) == IF sess[c].posts + 1 = MaxPosts THEN Finished(c)
             ELSE [sess[c] EXCEPT !.posts = @ + 1]

ClientInit == StoreInit /\ sess = [c \in LockId |-> Idle]

(* The document of a version as a client receives it; 404 reads as empty.  *)
DocAt(s) == IF s \in DOMAIN versions THEN versions[s] ELSE EmptyDoc

-----------------------------------------------------------------------------
(* handleLock.  A refused LOCK is retried by the client.                   *)
ClientLock(c) ==
  /\ sess[c].pc = "idle"
  /\ AcquireLock(c)
  /\ sess' = [sess EXCEPT ![c] = [Idle EXCEPT !.pc = "locked", !.src = TrunkSerial, !.alone = TRUE]]

(* handleGet, a separate request: the trunk may have moved since LOCK.     *)
ClientGet(c) ==
  /\ sess[c].pc = "locked"
  /\ sess' = [sess EXCEPT ![c].pc = "ready", ![c].seen = current, ![c].doc = DocAt(current)]
  /\ UNCHANGED storeVars

(* The client changes its copy: one instance or one output.  A change, or  *)
(* the two steps of a replacement, never ends at the value it started      *)
(* from.                                                                   *)
ClientEditRes(c, a, cell) ==
  /\ sess[c].pc = "ready"
  /\ cell \notin {sess[c].doc.res[a], DocAt(sess[c].seen).res[a]}
  /\ sess' = [sess EXCEPT ![c].doc.res[a] = cell]
  /\ UNCHANGED storeVars

ClientEditOut(c, o, v) ==
  /\ sess[c].pc = "ready"
  /\ v \notin {sess[c].doc.out[o], DocAt(sess[c].seen).out[o]}
  /\ sess' = [sess EXCEPT ![c].doc.out[o] = v]
  /\ UNCHANGED storeVars

(* handlePost, accepted (200) ...                                          *)
ClientPost(c) ==
  /\ sess[c].pc = "ready"
  /\ WriteState(c, sess[c].doc)
  /\ sess' = [sess EXCEPT ![c] = Posted(c)]

(* ... or refused (409, 423): the client gives up.  Beside other locks,    *)
(* the exclusive path may fetch one of them and refuse the holder.         *)
ClientPostRefused(c) ==
  /\ sess[c].pc = "ready"
  /\ \/ ~ (LockCheckPasses(c) /\ MergePasses(c, sess[c].doc))
     \/ exclusive /\ Held # {c}
  /\ sess' = [sess EXCEPT ![c] = Finished(c)]
  /\ UNCHANGED storeVars

(* handleUnlock with the session's lock id; the lock may be gone.          *)
ClientUnlock(c) ==
  /\ sess[c].pc \in {"locked", "ready", "finished"}
  /\ IF c \in Held THEN ReleaseLock(c) ELSE UNCHANGED storeVars
  /\ sess' = [sess EXCEPT ![c] = Idle]

(* The client process dies; the server keeps its lock.                     *)
ClientCrash(c) ==
  /\ sess[c].pc \in {"locked", "ready"}
  /\ sess' = [sess EXCEPT ![c] = [Idle EXCEPT !.pc = "crashed"]]
  /\ UNCHANGED storeVars

(* handleUnlock without a lock id (terraform force-unlock): all locks go.  *)
(* Crashed clients can be started again; live ones learn nothing.          *)
ForceUnlock ==
  /\ ForceReleaseLock
  /\ sess' = [c \in LockId |-> IF sess[c].pc = "crashed" THEN Idle ELSE sess[c]]

-----------------------------------------------------------------------------
(* A step outside the sessions' lock protocol.                             *)
Disturb == sess' = [c \in LockId |-> [sess[c] EXCEPT !.alone = FALSE]]

(* The commit of a kl apply run: the trunk it read with some instances     *)
(* replaced, at the serial after it, through WriteStateForApply.  The next *)
(* serial is still free only if that trunk is still current.               *)
ApplyCommit(a, cell) ==
  /\ current # NoVersion
  /\ versions[current].res[a] # cell
  /\ WriteStateForApply(current + 1, [versions[current] EXCEPT !.res[a] = cell])
  /\ Disturb

(* kl rollback.                                                            *)
RollbackTo(s) ==
  /\ s # current
  /\ ReplayVersion(s)
  /\ Disturb

(* kl plan and the state engine materialise the genesis version.           *)
Materialise == EnsureCurrentStateInfo /\ UNCHANGED sess

(* kl lock-mode                                                            *)
ToggleLockMode(on) == SetStateExclusiveLocks(on) /\ Disturb

ClientNext ==
  \/ \E c \in LockId :
       \/ ClientLock(c) \/ ClientGet(c) \/ ClientPost(c) \/ ClientPostRefused(c)
       \/ ClientUnlock(c) \/ ClientCrash(c)
       \/ \E a \in Addr, cell \in Cell : ClientEditRes(c, a, cell)
       \/ \E o \in OutName, v \in OutVal \cup {NoOut} : ClientEditOut(c, o, v)
  \/ ForceUnlock
  \/ \E a \in Addr, cell \in Cell : ApplyCommit(a, cell)
  \/ \E s \in DOMAIN versions : RollbackTo(s)
  \/ Materialise
  \/ \E on \in BOOLEAN : ToggleLockMode(on)

ClientSpec == ClientInit /\ [][ClientNext]_clientVars

-----------------------------------------------------------------------------
(* Properties                                                              *)

(* Shapes of the store's tables and of the sessions.                       *)
ClientTypeOK == StoreTypeOK /\ sess \in [LockId -> SessionRecord]

(* What the operator of session c changed, relative to what was read.      *)
EditedRes(c) == ResourceWriteSet(DocAt(sess[c].seen), sess[c].doc)
EditedOut(c) == OutputWriteSet(DocAt(sess[c].seen), sess[c].doc)

(* The stored document is the trunk with exactly the operator's edits.     *)
StoresExactlyEdits(c) ==
  /\ \A a \in Addr : versions'[current'].res[a] =
       IF a \in EditedRes(c) THEN sess[c].doc.res[a] ELSE DocAt(current).res[a]
  /\ \A o \in OutName : versions'[current'].out[o] =
       IF o \in EditedOut(c) THEN sess[c].doc.out[o] ELSE DocAt(current).out[o]

(* Nobody changed what the operator edited since it was read.              *)
EditsUncontended(c) ==
  /\ \A a \in EditedRes(c) : DocAt(current).res[a] = DocAt(sess[c].seen).res[a]
  /\ \A o \in EditedOut(c) : DocAt(current).out[o] = DocAt(sess[c].seen).out[o]

(* In optimistic mode the first POST of a session that read the version    *)
(* its lock recorded is a compare-and-swap on the edited cells alone:      *)
(* accepted only if none of them changed since the read, and then the new  *)
(* version is the trunk with exactly the edits, whatever other clients, kl *)
(* apply, rollbacks, force-unlocks and mode switches did meanwhile.        *)
(* ABA by the trunk is harmless here because the comparison is by value.   *)
PostIsCellwiseCas ==
  [][\A c \in LockId :
       (ClientPost(c) /\ ~ exclusive /\ sess[c].posts = 0
          /\ locks[c].source > 0 /\ sess[c].seen = sess[c].src)
       => StoresExactlyEdits(c) /\ EditsUncontended(c)]_clientVars

(* Under an exclusive lock acquired in exclusive mode, and as long as only *)
(* plain Terraform writes, the trunk cannot move except by the lock's      *)
(* holder, so the holder's verbatim POST loses nothing.  Crashed clients,  *)
(* force-unlocks and sessions that lost their lock cannot break this.      *)
ExclusiveLockFreezesTrunk ==
  \A c \in Held : (exclusive /\ sess[c].alone) =>
    /\ Held = {c}
    /\ locks[c].source = TrunkSerial
    /\ (sess[c].pc = "ready" /\ sess[c].posts = 0) => DocAt(current) = DocAt(sess[c].seen)

(* "Everything else is taken from trunkNow": a POST of a session that read *)
(* what its lock recorded changes no instance the operator did not edit,   *)
(* however often the session posts.                                        *)
EveryPostKeepsOthers ==
  [][\A c \in LockId :
       (ClientPost(c) /\ ~ exclusive /\ sess[c].src > 0 /\ sess[c].seen = sess[c].src)
       => \A a \in Addr \ EditedRes(c) : versions'[current'].res[a] = versions[current].res[a]]_clientVars

(* "The race resolves via ErrSerialConflict ... visible as a conflict":    *)
(* an accepted POST under an exclusive lock does not overwrite an instance *)
(* that a kl apply committed since the session read the state.             *)
RaceWithApplyIsAConflict ==
  [][\A c \in LockId :
       (ClientPost(c) /\ exclusive)
       => \A a \in Addr \ EditedRes(c) : versions'[current'].res[a] = DocAt(current).res[a]]_clientVars
=============================================================================
