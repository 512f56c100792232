------------------------- MODULE StoreClientsProofs -------------------------
(* Proofs about those who write a state: plain Terraform clients           *)
(* (TerraformClients), and the state-engine requests with the operator     *)
(* commands that send them (EngineWrites, Commands); for every set of lock *)
(* ids, addresses, contents, outputs, references and tags and every bound. *)
EXTENDS TerraformClients, Commands, StateStoreProofs

SessShape == sess \in [LockId -> SessionRecord]

(* Until its first POST, a session's lock records the trunk it locked at.  *)
SourceKept ==
  \A c \in Held : (sess[c].pc \in {"locked", "ready"} /\ sess[c].posts = 0) =>
    locks[c].source = sess[c].src

(* The inductive invariant.                                                *)
ClientInv ==
  /\ StoreInv
  /\ BaselineStored
  /\ SessShape
  /\ ExclusiveLockFreezesTrunk
  /\ SourceKept

-----------------------------------------------------------------------------
(* What clients read and what they post                                    *)

LEMMA DocAtIsDoc ==
  ASSUME StoreTypeOK, NEW s
  PROVE  DocAt(s) \in Doc
  BY EmptyDocIsDoc DEF StoreTypeOK, DocAt

LEMMA IdleIsSession == Idle \in SessionRecord
  BY EmptyDocIsDoc, ClientAssumption DEF Idle, SessionRecord, Phase, NoVersion

(* A session's copy stays a document under an edit.                        *)
LEMMA ResEditIsDoc ==
  ASSUME NEW d \in Doc, NEW a \in Addr, NEW cell \in Cell
  PROVE  [d EXCEPT !.res[a] = cell] \in Doc
  BY DEF Doc

LEMMA OutEditIsDoc ==
  ASSUME NEW d \in Doc, NEW o \in OutName, NEW v \in OutVal \cup {NoOut}
  PROVE  [d EXCEPT !.out[o] = v] \in Doc
  BY DEF Doc

-----------------------------------------------------------------------------
(* Every step is a step of the store or leaves it alone.                   *)
LEMMA ClientStepUsesStore ==
  ASSUME ClientInv, [ClientNext]_clientVars
  PROVE  [StoreNext]_storeVars
  <1> USE DEF ClientInv
  <1>1. ASSUME NEW c \in LockId,
               \/ ClientLock(c) \/ ClientGet(c) \/ ClientPostRefused(c)
               \/ ClientUnlock(c) \/ ClientCrash(c)
        PROVE  [StoreNext]_storeVars
    BY <1>1 DEF ClientLock, ClientGet, ClientPostRefused, ClientUnlock, ClientCrash,
                StoreNext, LockNext
  <1>2. ASSUME NEW c \in LockId, ClientPost(c) PROVE [StoreNext]_storeVars
    <2>1. sess[c].doc \in Doc
      BY DEF SessShape, SessionRecord
    <2> QED BY <1>2, <2>1 DEF ClientPost, StoreNext, WriteNext
  <1>3. ASSUME NEW c \in LockId, NEW a \in Addr, NEW cell \in Cell, ClientEditRes(c, a, cell)
        PROVE  [StoreNext]_storeVars
    BY <1>3 DEF ClientEditRes
  <1>4. ASSUME NEW c \in LockId, NEW o \in OutName, NEW v \in OutVal \cup {NoOut},
               ClientEditOut(c, o, v)
        PROVE  [StoreNext]_storeVars
    BY <1>4 DEF ClientEditOut
  <1>5. ASSUME NEW a \in Addr, NEW cell \in Cell, ApplyCommit(a, cell)
        PROVE  [StoreNext]_storeVars
    <2>1. current \in DOMAIN versions
      BY <1>5 DEF ApplyCommit, StoreInv, HistoryGapFree
    <2>2. versions[current] \in Doc
      BY <2>1 DEF StoreInv, StoreTypeOK
    <2>3. current + 1 \in CallerSerial
      BY <2>1 DEF CallerSerial
    <2> QED BY <1>5, <2>2, <2>3, ResEditIsDoc DEF ApplyCommit, StoreNext, WriteNext
  <1>6. CASE ForceUnlock
    BY <1>6 DEF ForceUnlock, StoreNext, LockNext
  <1>7. ASSUME NEW s \in DOMAIN versions, RollbackTo(s) PROVE [StoreNext]_storeVars
    BY <1>7 DEF RollbackTo, StoreNext, WriteNext
  <1>8. CASE Materialise
    BY <1>8 DEF Materialise, StoreNext, WriteNext
  <1>9. ASSUME NEW on \in BOOLEAN, ToggleLockMode(on) PROVE [StoreNext]_storeVars
    BY <1>9 DEF ToggleLockMode, StoreNext, LockNext
  <1>10. CASE UNCHANGED clientVars
    BY <1>10 DEF clientVars
  <1> QED BY <1>1, <1>2, <1>3, <1>4, <1>5, <1>6, <1>7, <1>8, <1>9, <1>10 DEF ClientNext

-----------------------------------------------------------------------------
(* Sessions keep their shape                                               *)

LEMMA SessShapeStep ==
  ASSUME StoreTypeOK, SessShape, [ClientNext]_clientVars
  PROVE  SessShape'
  <1> USE DEF SessShape
  <1>1. ASSUME NEW c \in LockId, NEW r \in SessionRecord, sess' = [sess EXCEPT ![c] = r]
        PROVE  SessShape'
    BY <1>1
  <1>2. ASSUME NEW c \in LockId
        PROVE  sess[c] \in SessionRecord /\ Finished(c) \in SessionRecord
    BY IdleIsSession DEF Finished, SessionRecord, Phase
  <1>3. ASSUME NEW c \in LockId, ClientLock(c) PROVE SessShape'
    <2>1. TrunkSerial \in Nat
      BY DEF TrunkSerial, StoreTypeOK, NoVersion
    <2>2. [Idle EXCEPT !.pc = "locked", !.src = TrunkSerial, !.alone = TRUE] \in SessionRecord
      BY <2>1, IdleIsSession DEF SessionRecord, Phase
    <2> QED BY <1>1, <1>3, <2>2 DEF ClientLock
  <1>4. ASSUME NEW c \in LockId, ClientGet(c) PROVE SessShape'
    <2> DEFINE r == [sess[c] EXCEPT !.pc = "ready", !.seen = current, !.doc = DocAt(current)]
    <2>1. r \in SessionRecord
      BY <1>2, DocAtIsDoc DEF SessionRecord, Phase, StoreTypeOK
    <2>2. sess' = [sess EXCEPT ![c] = r]
      BY <1>4 DEF ClientGet
    <2> QED BY <1>1, <2>1, <2>2
  <1>5. ASSUME NEW c \in LockId, NEW a \in Addr, NEW cell \in Cell, ClientEditRes(c, a, cell)
        PROVE  SessShape'
    <2> DEFINE d == [sess[c].doc EXCEPT !.res[a] = cell]
               r == [sess[c] EXCEPT !.doc = d]
    <2>1. d \in Doc
      BY <1>2, ResEditIsDoc DEF SessionRecord
    <2>2. r \in SessionRecord
      <3> HIDE DEF d
      <3> QED BY <1>2, <2>1 DEF SessionRecord
    <2>3. sess' = [sess EXCEPT ![c] = r]
      BY <1>5 DEF ClientEditRes
    <2> QED BY <1>1, <2>2, <2>3
  <1>6. ASSUME NEW c \in LockId, NEW o \in OutName, NEW v \in OutVal \cup {NoOut},
               ClientEditOut(c, o, v)
        PROVE  SessShape'
    <2> DEFINE d == [sess[c].doc EXCEPT !.out[o] = v]
               r == [sess[c] EXCEPT !.doc = d]
    <2>1. d \in Doc
      BY <1>2, OutEditIsDoc DEF SessionRecord
    <2>2. r \in SessionRecord
      <3> HIDE DEF d
      <3> QED BY <1>2, <2>1 DEF SessionRecord
    <2>3. sess' = [sess EXCEPT ![c] = r]
      BY <1>6 DEF ClientEditOut
    <2> QED BY <1>1, <2>2, <2>3
  <1>7. ASSUME NEW c \in LockId, ClientPost(c) PROVE SessShape'
    <2>1. sess[c].posts \in 0..MaxPosts - 1
      BY <1>2 DEF SessionRecord
    <2>2. Posted(c) \in SessionRecord
      BY <1>2, <2>1, ClientAssumption DEF Posted, SessionRecord
    <2> QED BY <1>1, <1>7, <2>2 DEF ClientPost
  <1>8. ASSUME NEW c \in LockId, ClientPostRefused(c) \/ ClientUnlock(c) \/ ClientCrash(c)
        PROVE  SessShape'
    <2>1. [Idle EXCEPT !.pc = "crashed"] \in SessionRecord
      BY IdleIsSession DEF SessionRecord, Phase
    <2> QED BY <1>1, <1>2, <1>8, <2>1, IdleIsSession
            DEF ClientPostRefused, ClientUnlock, ClientCrash
  <1>9. CASE ForceUnlock
    BY <1>9, IdleIsSession DEF ForceUnlock
  <1>10. ASSUME Disturb PROVE SessShape'
    <2>1. \A c \in LockId : [sess[c] EXCEPT !.alone = FALSE] \in SessionRecord
      BY <1>2 DEF SessionRecord
    <2> QED BY <1>10, <2>1 DEF Disturb
  <1>11. CASE Materialise \/ UNCHANGED clientVars
    BY <1>11 DEF Materialise, clientVars
  <1>12. /\ \A a \in Addr, cell \in Cell : ApplyCommit(a, cell) => Disturb
         /\ \A s \in DOMAIN versions : RollbackTo(s) => Disturb
         /\ \A on \in BOOLEAN : ToggleLockMode(on) => Disturb
    BY DEF ApplyCommit, RollbackTo, ToggleLockMode
  <1> QED BY <1>3, <1>4, <1>5, <1>6, <1>7, <1>8, <1>9, <1>10, <1>11, <1>12 DEF ClientNext

-----------------------------------------------------------------------------
(* The exclusive lock freezes the trunk                                    *)

(* A session that vanishes, or that is no longer alone, claims nothing;    *)
(* the others keep their claim if the trunk stays and locks only go.       *)
LEMMA FreezesWhenLocksGo ==
  ASSUME ExclusiveLockFreezesTrunk, UNCHANGED <<versions, current, exclusive>>,
         Held' \subseteq Held, \A c \in Held' : locks'[c] = locks[c],
         \A c \in Held' :
           \/ sess'[c] = sess[c]
           \/ ~ sess'[c].alone
           \/ /\ sess'[c].alone = sess[c].alone
              /\ (sess'[c].pc = "ready" /\ sess'[c].posts = 0) =>
                   \/ DocAt(current) = DocAt(sess'[c].seen)
                   \/ /\ sess[c].pc = "ready" /\ sess[c].posts = 0
                      /\ sess'[c].seen = sess[c].seen
  PROVE  ExclusiveLockFreezesTrunk'
  <1> SUFFICES ASSUME NEW c \in Held', exclusive', sess'[c].alone
               PROVE  /\ Held' = {c}
                      /\ locks'[c].source = TrunkSerial'
                      /\ (sess'[c].pc = "ready" /\ sess'[c].posts = 0) =>
                           DocAt(current)' = DocAt(sess[c].seen)'
    BY DEF ExclusiveLockFreezesTrunk
  <1>1. c \in Held /\ exclusive /\ sess[c].alone
    OBVIOUS
  <1>2. /\ Held = {c}
        /\ locks[c].source = TrunkSerial
        /\ (sess[c].pc = "ready" /\ sess[c].posts = 0) => DocAt(current) = DocAt(sess[c].seen)
    BY <1>1 DEF ExclusiveLockFreezesTrunk
  <1>3. TrunkSerial' = TrunkSerial
    BY DEF TrunkSerial
  <1>4. DocAt(current)' = DocAt(current) /\ DocAt(sess[c].seen)' = DocAt(sess'[c].seen)
    BY DEF DocAt
  <1> QED BY <1>2, <1>3, <1>4

LEMMA FreezesStep ==
  ASSUME ClientInv, [ClientNext]_clientVars
  PROVE  ExclusiveLockFreezesTrunk'
  <1> USE DEF ClientInv
  <1>0. /\ StoreTypeOK /\ HistoryGapFree
        /\ \A c \in LockId : sess[c] \in SessionRecord
    BY DEF StoreInv, SessShape
  <1>1. ASSUME NEW c \in LockId, ClientLock(c) PROVE ExclusiveLockFreezesTrunk'
    <2>1. Held' = Held \cup {c} /\ (exclusive => Held = {})
      BY <1>0, <1>1 DEF ClientLock, AcquireLock, Held, StoreTypeOK, NoLock
    <2>2. /\ locks'[c].source = TrunkSerial /\ TrunkSerial' = TrunkSerial
          /\ sess'[c].pc = "locked" /\ exclusive' = exclusive
      BY <1>0, <1>1 DEF ClientLock, AcquireLock, StoreTypeOK, TrunkSerial, SessShape, Idle
    <2> QED BY <2>1, <2>2 DEF ExclusiveLockFreezesTrunk
  <1>2. ASSUME NEW c \in LockId,
               \/ ClientGet(c) \/ ClientPostRefused(c) \/ ClientCrash(c)
               \/ \E a \in Addr, cell \in Cell : ClientEditRes(c, a, cell)
               \/ \E o \in OutName, v \in OutVal \cup {NoOut} : ClientEditOut(c, o, v)
        PROVE  ExclusiveLockFreezesTrunk'
    <2>1. UNCHANGED storeVars /\ \A d \in LockId \ {c} : sess'[d] = sess[d]
      BY <1>2 DEF ClientGet, ClientPostRefused, ClientCrash, ClientEditRes, ClientEditOut, SessShape
    <2>2. CASE ClientGet(c)
      <3>1. sess'[c].alone = sess[c].alone /\ sess'[c].seen = current
        BY <1>0, <2>2 DEF ClientGet, SessShape, SessionRecord
      <3> QED BY <2>1, <3>1, FreezesWhenLocksGo DEF storeVars, Held
    <2>3. CASE ClientPostRefused(c) \/ ClientCrash(c)
      <3>1. /\ sess'[c].alone = sess[c].alone \/ ~ sess'[c].alone
            /\ sess'[c].pc # "ready"
        <4>1. CASE sess'[c] = Finished(c)
          BY <4>1 DEF Finished, Idle
        <4>2. CASE sess'[c] = [Idle EXCEPT !.pc = "crashed"]
          BY <4>2 DEF Idle
        <4> QED BY <2>3, <4>1, <4>2 DEF ClientPostRefused, ClientCrash, SessShape
      <3> QED BY <2>1, <3>1, FreezesWhenLocksGo DEF storeVars, Held
    <2>4. ASSUME NEW d, sess' = [sess EXCEPT ![c] = [sess[c] EXCEPT !.doc = d]]
          PROVE  ExclusiveLockFreezesTrunk'
      <3>1. /\ sess'[c].alone = sess[c].alone /\ sess'[c].seen = sess[c].seen
            /\ sess'[c].pc = sess[c].pc /\ sess'[c].posts = sess[c].posts
        BY <1>0, <2>4 DEF SessShape, SessionRecord
      <3> QED BY <2>1, <3>1, FreezesWhenLocksGo DEF storeVars, Held
    <2>5. ASSUME NEW a \in Addr, NEW cell \in Cell, ClientEditRes(c, a, cell)
          PROVE  ExclusiveLockFreezesTrunk'
      BY <2>4, <2>5 DEF ClientEditRes
    <2>6. ASSUME NEW o \in OutName, NEW v \in OutVal \cup {NoOut}, ClientEditOut(c, o, v)
          PROVE  ExclusiveLockFreezesTrunk'
      BY <2>4, <2>6 DEF ClientEditOut
    <2> QED BY <1>2, <2>2, <2>3, <2>5, <2>6
  <1>3. ASSUME NEW c \in LockId, ClientUnlock(c) PROVE ExclusiveLockFreezesTrunk'
    <2>1. /\ UNCHANGED <<versions, current, exclusive>>
          /\ \A d \in LockId : locks'[d] = IF d = c THEN NoLock ELSE locks[d]
          /\ \A d \in LockId \ {c} : sess'[d] = sess[d]
      BY <1>0, <1>3 DEF ClientUnlock, ReleaseLock, storeVars, SessShape, StoreTypeOK, Held
    <2> QED BY <2>1, FreezesWhenLocksGo DEF Held
  <1>4. CASE ForceUnlock
    <2>1. /\ UNCHANGED <<versions, current, exclusive>>
          /\ \A d \in LockId : locks'[d] = locks[d] \/ locks'[d] = NoLock
          /\ \A d \in LockId : sess'[d] = sess[d] \/ ~ sess'[d].alone
      BY <1>4 DEF ForceUnlock, ForceReleaseLock, Idle
    <2> QED BY <2>1, FreezesWhenLocksGo DEF Held
  <1>5. ASSUME NEW c \in LockId, ClientPost(c) PROVE ExclusiveLockFreezesTrunk'
    <2>1. /\ c \in Held /\ current' = NextSerial /\ exclusive' = exclusive
          /\ locks' = [locks EXCEPT ![c].source = NextSerial]
      BY <1>5, StoreAssumption
         DEF ClientPost, WriteState, LockCheckPasses, CommitDoc, InsertVersion
    <2>2. NextSerial \in Nat /\ NextSerial # 0
      BY <1>0, NextSerialPositive
    <2>3. /\ locks'[c] = [locks[c] EXCEPT !.source = NextSerial]
          /\ \A d \in LockId \ {c} : locks'[d] = locks[d]
      BY <1>0, <2>1 DEF StoreTypeOK
    <2>4. locks'[c].source = NextSerial /\ locks'[c] # NoLock
      <3>1. locks[c] \in LockRow
        BY <1>0, <2>1 DEF Held, StoreTypeOK
      <3> QED BY <2>2, <2>3, <3>1 DEF LockRow, NoLock
    <2>5. Held' = Held
      BY <2>1, <2>3, <2>4 DEF Held
    <2>6. TrunkSerial' = NextSerial
      BY <2>1, <2>2 DEF TrunkSerial, NoVersion
    <2>7. /\ sess'[c] = Posted(c)
          /\ \A d \in LockId \ {c} : sess'[d] = sess[d]
      BY <1>5 DEF ClientPost, SessShape
    <2>8. sess'[c].alone = sess[c].alone /\ ~ (sess'[c].pc = "ready" /\ sess'[c].posts = 0)
      BY <1>0, <2>7 DEF Posted, Finished, Idle, SessionRecord
    <2> QED
      <3> SUFFICES ASSUME NEW d \in Held', exclusive', sess'[d].alone
                   PROVE  /\ Held' = {d}
                          /\ locks'[d].source = TrunkSerial'
                          /\ ~ (sess'[d].pc = "ready" /\ sess'[d].posts = 0)
        BY DEF ExclusiveLockFreezesTrunk
      <3>1. sess[d].alone /\ d \in Held
        BY <2>5, <2>7, <2>8 DEF Held
      <3>2. Held = {d}
        BY <2>1, <3>1 DEF ExclusiveLockFreezesTrunk
      <3>3. d = c
        BY <2>1, <3>2
      <3> QED BY <2>4, <2>5, <2>6, <2>8, <3>2, <3>3
  <1>6. ASSUME Disturb PROVE ExclusiveLockFreezesTrunk'
    <2>1. \A c \in LockId : ~ sess'[c].alone
      BY <1>0, <1>6 DEF Disturb, SessionRecord
    <2> QED BY <2>1 DEF ExclusiveLockFreezesTrunk, Held
  <1>7. CASE Materialise
    <2>1. /\ current = NoVersion /\ current' = 0 /\ DOMAIN versions = {}
          /\ DOMAIN versions' = {0} /\ versions'[0] = EmptyDoc
          /\ UNCHANGED <<locks, exclusive, sess>>
      BY <1>0, <1>7 DEF Materialise, EnsureCurrentStateInfo, CommitDoc, InsertVersion, HistoryGapFree
    <2>2. TrunkSerial' = TrunkSerial
      BY <2>1 DEF TrunkSerial, NoVersion
    <2>3. \A s : DocAt(s) = EmptyDoc /\ DocAt(s)' = EmptyDoc
      BY <2>1 DEF DocAt
    <2> QED BY <2>1, <2>2, <2>3 DEF ExclusiveLockFreezesTrunk, Held
  <1>8. CASE UNCHANGED clientVars
    BY <1>8, FreezesWhenLocksGo DEF clientVars, storeVars, Held
  <1>9. /\ \A a \in Addr, cell \in Cell : ApplyCommit(a, cell) => Disturb
        /\ \A s \in DOMAIN versions : RollbackTo(s) => Disturb
        /\ \A on \in BOOLEAN : ToggleLockMode(on) => Disturb
    BY DEF ApplyCommit, RollbackTo, ToggleLockMode
  <1> QED BY <1>1, <1>2, <1>3, <1>4, <1>5, <1>6, <1>7, <1>8, <1>9 DEF ClientNext

-----------------------------------------------------------------------------
(* Locks keep their baselines until the first POST                         *)

(* Rows of the lock table that stay as they are, beside sessions that do   *)
(* not return to their beginning.                                          *)
LEMMA SourceKeptWhenLocksGo ==
  ASSUME SourceKept, Held' \subseteq Held, \A c \in Held' : locks'[c] = locks[c],
         \A c \in Held' :
           (sess'[c].pc \in {"locked", "ready"} /\ sess'[c].posts = 0) =>
             /\ sess[c].pc \in {"locked", "ready"} /\ sess[c].posts = 0
             /\ sess'[c].src = sess[c].src
  PROVE  SourceKept'
  BY DEF SourceKept

LEMMA SourceKeptStep ==
  ASSUME ClientInv, [ClientNext]_clientVars
  PROVE  SourceKept'
  <1> USE DEF ClientInv
  <1>0. /\ StoreTypeOK /\ HistoryGapFree
        /\ \A c \in LockId : sess[c] \in SessionRecord
    BY DEF StoreInv, SessShape
  <1>1. ASSUME NEW c \in LockId, ClientLock(c) PROVE SourceKept'
    <2>1. /\ locks'[c].source = TrunkSerial /\ sess'[c].src = TrunkSerial
          /\ \A d \in LockId \ {c} : locks'[d] = locks[d] /\ sess'[d] = sess[d]
      BY <1>0, <1>1 DEF ClientLock, AcquireLock, StoreTypeOK, SessShape, Idle
    <2> QED BY <2>1 DEF SourceKept, Held
  <1>2. ASSUME NEW c \in LockId,
               \/ ClientGet(c) \/ ClientPostRefused(c) \/ ClientCrash(c)
               \/ \E a \in Addr, cell \in Cell : ClientEditRes(c, a, cell)
               \/ \E o \in OutName, v \in OutVal \cup {NoOut} : ClientEditOut(c, o, v)
        PROVE  SourceKept'
    <2>1. UNCHANGED storeVars /\ \A d \in LockId \ {c} : sess'[d] = sess[d]
      BY <1>2 DEF ClientGet, ClientPostRefused, ClientCrash, ClientEditRes, ClientEditOut, SessShape
    <2>2. CASE ClientGet(c)
      <3>1. /\ sess[c].pc = "locked" /\ sess'[c].src = sess[c].src
            /\ sess'[c].posts = sess[c].posts
        BY <1>0, <2>2 DEF ClientGet, SessShape, SessionRecord
      <3> QED BY <2>1, <3>1, SourceKeptWhenLocksGo DEF storeVars, Held
    <2>3. CASE ClientPostRefused(c) \/ ClientCrash(c)
      <3>1. sess'[c].pc \notin {"locked", "ready"}
        <4>1. CASE sess'[c] = Finished(c)
          BY <4>1 DEF Finished, Idle
        <4>2. CASE sess'[c] = [Idle EXCEPT !.pc = "crashed"]
          BY <4>2 DEF Idle
        <4> QED BY <2>3, <4>1, <4>2 DEF ClientPostRefused, ClientCrash, SessShape
      <3> QED BY <2>1, <3>1, SourceKeptWhenLocksGo DEF storeVars, Held
    <2>4. ASSUME NEW d, sess' = [sess EXCEPT ![c] = [sess[c] EXCEPT !.doc = d]]
          PROVE  SourceKept'
      <3>1. /\ sess'[c].pc = sess[c].pc /\ sess'[c].src = sess[c].src
            /\ sess'[c].posts = sess[c].posts
        BY <1>0, <2>4 DEF SessShape, SessionRecord
      <3> QED BY <2>1, <3>1, SourceKeptWhenLocksGo DEF storeVars, Held
    <2>5. ASSUME NEW a \in Addr, NEW cell \in Cell, ClientEditRes(c, a, cell)
          PROVE  SourceKept'
      BY <2>4, <2>5 DEF ClientEditRes
    <2>6. ASSUME NEW o \in OutName, NEW v \in OutVal \cup {NoOut}, ClientEditOut(c, o, v)
          PROVE  SourceKept'
      BY <2>4, <2>6 DEF ClientEditOut
    <2> QED BY <1>2, <2>2, <2>3, <2>5, <2>6
  <1>3. ASSUME NEW c \in LockId, ClientUnlock(c) PROVE SourceKept'
    <2>1. /\ \A d \in LockId : locks'[d] = IF d = c THEN NoLock ELSE locks[d]
          /\ \A d \in LockId \ {c} : sess'[d] = sess[d]
      BY <1>0, <1>3 DEF ClientUnlock, ReleaseLock, storeVars, SessShape, StoreTypeOK, Held
    <2> QED BY <2>1, SourceKeptWhenLocksGo DEF Held
  <1>4. CASE ForceUnlock
    <2>1. /\ \A d \in LockId : locks'[d] = locks[d] \/ locks'[d] = NoLock
          /\ \A d \in LockId : sess'[d] = sess[d] \/ sess'[d].pc = "idle"
      BY <1>4 DEF ForceUnlock, ForceReleaseLock, Idle
    <2> QED BY <2>1, SourceKeptWhenLocksGo DEF Held
  <1>5. ASSUME NEW c \in LockId, ClientPost(c) PROVE SourceKept'
    <2>1. \A d \in LockId \ {c} : locks'[d] = locks[d] /\ sess'[d] = sess[d]
      BY <1>5, <1>0 DEF ClientPost, WriteState, SessShape, StoreTypeOK
    <2>2. sess'[c] = Posted(c)
      BY <1>5 DEF ClientPost, SessShape
    <2>3. ~ (sess'[c].pc \in {"locked", "ready"} /\ sess'[c].posts = 0)
      BY <1>0, <2>2 DEF Posted, Finished, Idle, SessionRecord
    <2> QED BY <2>1, <2>3 DEF SourceKept, Held
  <1>6. ASSUME Disturb, locks' = locks PROVE SourceKept'
    <2>1. \A c \in LockId : /\ sess'[c].pc = sess[c].pc /\ sess'[c].src = sess[c].src
                            /\ sess'[c].posts = sess[c].posts
      BY <1>0, <1>6 DEF Disturb, SessionRecord
    <2> QED BY <1>6, <2>1, SourceKeptWhenLocksGo DEF Held
  <1>7. CASE Materialise \/ UNCHANGED clientVars
    BY <1>7, SourceKeptWhenLocksGo
       DEF Materialise, EnsureCurrentStateInfo, clientVars, storeVars, Held
  <1>8. /\ \A a \in Addr, cell \in Cell : ApplyCommit(a, cell) => Disturb /\ locks' = locks
        /\ \A s \in DOMAIN versions : RollbackTo(s) => Disturb /\ locks' = locks
        /\ \A on \in BOOLEAN : ToggleLockMode(on) => Disturb /\ locks' = locks
    BY DEF ApplyCommit, RollbackTo, ToggleLockMode, WriteStateForApply, ReplayVersion,
           SetStateExclusiveLocks
  <1> QED BY <1>1, <1>2, <1>3, <1>4, <1>5, <1>6, <1>7, <1>8 DEF ClientNext

-----------------------------------------------------------------------------
LEMMA ClientInvInit == ClientInit => ClientInv
  <1> SUFFICES ASSUME ClientInit PROVE ClientInv
    OBVIOUS
  <1>1. Held = {}
    BY DEF ClientInit, StoreInit, Held
  <1>2. SessShape
    BY IdleIsSession DEF ClientInit, SessShape
  <1> QED BY <1>1, <1>2, StoreInvInit 
           DEF ClientInit, ClientInv, ExclusiveLockFreezesTrunk, SourceKept

LEMMA ClientInvStep ==
  ASSUME ClientInv, [ClientNext]_clientVars
  PROVE  ClientInv'
  <1>1. [StoreNext]_storeVars
    BY ClientStepUsesStore
  <1>2. StoreInv' /\ BaselineStored'
    BY <1>1, StoreInvStep, BaselineStep DEF ClientInv
  <1>3. SessShape'
    BY SessShapeStep DEF ClientInv, StoreInv
  <1> QED BY <1>2, <1>3, FreezesStep, SourceKeptStep DEF ClientInv

(* The store's tables and the sessions are well formed.                    *)
THEOREM ClientsTypeCorrect == ClientSpec => []ClientTypeOK
<1>1. ClientInv /\ [ClientNext]_clientVars => ClientInv'
  BY ClientInvStep
<1>2. ClientInv => ClientTypeOK
  BY DEF ClientInv, StoreInv, SessShape, ClientTypeOK
<1> QED BY <1>1, <1>2, ClientInvInit, PTL DEF ClientSpec

(* A lock acquired in exclusive mode freezes the trunk for its holder as   *)
(* long as only plain Terraform writes, through any crashes, force-unlocks *)
(* and sessions that lost their lock.                                      *)
THEOREM ExclusiveLockProtects == ClientSpec => []ExclusiveLockFreezesTrunk
<1>1. ClientInv /\ [ClientNext]_clientVars => ClientInv'
  BY ClientInvStep
<1>2. ClientInv => ExclusiveLockFreezesTrunk
  BY DEF ClientInv
<1> QED BY <1>1, <1>2, ClientInvInit, PTL DEF ClientSpec

(* Whatever clients, apply commits, rollbacks, force-unlocks and mode      *)
(* switches do together, the history stays gap-free, the lifecycle rows    *)
(* reproduce it, and the base of every merge is stored.                    *)
THEOREM ClientHistoryFaithful ==
  ClientSpec => [](HistoryGapFree /\ LifecyclesDisjoint /\ RowsMatchHistory /\ BaselineStored)
<1>1. ClientInv /\ [ClientNext]_clientVars => ClientInv'
  BY ClientInvStep
<1>2. ClientInv => HistoryGapFree /\ LifecyclesDisjoint /\ RowsMatchHistory /\ BaselineStored
  BY DEF ClientInv, StoreInv
<1> QED BY <1>1, <1>2, ClientInvInit, PTL DEF ClientSpec

-----------------------------------------------------------------------------
(* The first POST is a compare-and-swap on the edited cells                *)

LEMMA FirstPostIsCas ==
  ASSUME ClientInv, NEW c \in LockId, ClientPost(c), ~ exclusive, sess[c].posts = 0,
         locks[c].source > 0, sess[c].seen = sess[c].src
  PROVE  StoresExactlyEdits(c) /\ EditsUncontended(c)
  <1> DEFINE base  == DocAt(sess[c].seen)
             trunk == DocAt(current)
             doc   == sess[c].doc
  <1>1. /\ c \in Held /\ sess[c].pc = "ready" /\ MergePasses(c, doc)
        /\ current' = NextSerial /\ versions'[current'] = DocToStore(c, doc)
    BY StoreAssumption DEF ClientPost, WriteState, LockCheckPasses, CommitDoc, InsertVersion
  <1>2. sess[c].seen = locks[c].source /\ locks[c].source \in DOMAIN versions
    BY <1>1 DEF ClientInv, SourceKept, BaselineStored, Held
  <1>3. /\ current \in DOMAIN versions /\ current \in Nat
        /\ \A s \in DOMAIN versions : s \in Nat /\ s <= current
        /\ TrunkSerial = current
    BY <1>2 DEF ClientInv, StoreInv, HistoryGapFree, StoreTypeOK, TrunkSerial
  <1>4. base = versions[locks[c].source] /\ trunk = versions[current]
    BY <1>2, <1>3 DEF DocAt
  <1>5. doc \in Doc
    BY DEF ClientInv, SessShape, SessionRecord
  <1>6. CASE MustMerge(c)
    <2>1. MergeAllowed(base, trunk, doc) /\ versions'[current'] = MergeStates(base, trunk, doc)
      BY <1>1, <1>4, <1>6 DEF MergePasses, DocToStore
    <2>2. StoresExactlyEdits(c)
      BY <2>1 DEF StoresExactlyEdits, EditedRes, EditedOut, MergeStates
    <2>3. EditsUncontended(c)
      BY <2>1 DEF EditsUncontended, EditedRes, EditedOut, MergeAllowed, WriteSetConflict,
                  ResourceWriteSet, OutputWriteSet
    <2> QED BY <2>2, <2>3
  <1>7. CASE ~ MustMerge(c)
    <2>1. locks[c].source = current
      BY <1>1, <1>2, <1>3, <1>7 DEF MustMerge
    <2>2. base = trunk /\ versions'[current'] = doc
      BY <1>1, <1>4, <1>7, <2>1 DEF DocToStore
    <2>3. StoresExactlyEdits(c)
      BY <2>2 DEF StoresExactlyEdits, EditedRes, EditedOut, ResourceWriteSet, OutputWriteSet
    <2>4. EditsUncontended(c)
      BY <2>2 DEF EditsUncontended
    <2> QED BY <2>3, <2>4
  <1> QED BY <1>6, <1>7

(* In optimistic mode the first POST of a session that read the version    *)
(* its lock recorded stores the trunk with exactly the operator's edits,   *)
(* none of which anybody else had changed, whatever the others did.        *)
THEOREM FirstPostCompareAndSwaps == ClientSpec => PostIsCellwiseCas
<1> DEFINE Cas == \A c \in LockId :
             (ClientPost(c) /\ ~ exclusive /\ sess[c].posts = 0
                /\ locks[c].source > 0 /\ sess[c].seen = sess[c].src)
             => StoresExactlyEdits(c) /\ EditsUncontended(c)
<1>1. ClientInv /\ [ClientNext]_clientVars => ClientInv'
  BY ClientInvStep
<1>2. ClientInv => Cas
  BY FirstPostIsCas
<1> QED BY <1>1, <1>2, ClientInvInit, PTL DEF ClientSpec, PostIsCellwiseCas

-----------------------------------------------------------------------------
(* One engine request: where it stands, and what it read under the lock.   *)
OpRecord ==
  [pc : {"idle", "locked", "previewed", "patched", "ready", "fresh", "done", "dead"},
   kind : {None, "remove", "move", "replay", "rollback", "apply"},
   from : Addr \cup {None}, to : Addr \cup {None}, ref : Refs \cup {NoRef},
   target : Nat, doc : Doc,
   close : SUBSET ResourceRow, reopen : SUBSET [addr : Addr, attr : Attr],
   fresh : Nat, serial : Nat]

Mutation   == {"remove", "move", "replay"}
Active(o)  == o.pc \in {"locked", "previewed", "patched", "ready", "fresh"}
Planned(o) == o.pc \in {"previewed", "patched", "ready"}

(* The words of the request.                                               *)
Worded(o) ==
  /\ o.kind \in Mutation \cup {"rollback", "apply"}
  /\ o.kind \in Mutation => o.from \in Addr
  /\ o.kind = "move" => o.to \in Addr /\ o.to # o.from
  /\ o.kind = "replay" => o.ref \in Refs
  /\ o.kind = "rollback" => o.target \in DOMAIN versions

(* A mutation that goes on was found to have something to do; a replay     *)
(* knows the version it replays, which its reference still means, except   *)
(* that a tag may move once the document is patched.                       *)
Pinned(o) ==
  /\ o.kind \in Mutation /\ current # NoVersion
  /\ o.kind = "replay" => o.target \in DOMAIN versions
  /\ o.kind = "replay" /\ (o.pc = "previewed" \/ o.ref.kind # "tag") => o.target = Resolve(o.ref)

(* A request that holds anything holds the only lock of the state, and     *)
(* what it read is still so.                                               *)
OpFits(w, o) ==
  /\ o.pc # "idle" => locks[w].kind = "engine" /\ Held = {w}
  /\ Active(o) => Worded(o)
  /\ Planned(o) => Pinned(o)
  /\ o.pc \in {"patched", "ready"} =>
       /\ o.doc = Patch(o, versions[current])
       /\ o.kind = "move" => ~ HasInstance(versions[current], o.to)
  /\ o.pc = "ready" => o.close = RowChange(o).close /\ o.reopen = RowChange(o).reopen
  /\ o.pc = "fresh" => current # NoVersion /\ o.fresh = current
  /\ o.pc = "done" /\ o.serial > 0 => o.serial = current

OpShape(w) == OpFits(w, op[w])

(* Version 0 is the genesis.                                               *)
GenesisEmpty == 0 \in DOMAIN versions => versions[0] = EmptyDoc

(* The part of the invariant that the requests keep.                       *)
EngineInv ==
  /\ StoreInv /\ BaselineStored /\ GenesisEmpty
  /\ EngineTypeOK
  /\ \A w \in Op : OpShape(w)

-----------------------------------------------------------------------------
(* References                                                              *)

LEMMA ResolveFacts ==
  ASSUME StoreTypeOK, NEW ref
  PROVE  Resolve(ref) = NoVersion \/ (Resolve(ref) \in DOMAIN versions /\ Resolve(ref) \in Nat)
  <1> DEFINE found == {s \in DOMAIN versions :
                         CASE ref.kind = "serial" -> s = ref.n
                           [] ref.kind = "back"   -> Cardinality({v \in DOMAIN versions : v > s}) = ref.n
                           [] ref.kind = "tag"    -> s = tags[ref.tag]}
  <1>1. found \subseteq DOMAIN versions
    OBVIOUS
  <1>2. Resolve(ref) = IF found = {} THEN NoVersion ELSE CHOOSE s \in found : TRUE
    BY DEF Resolve
  <1> HIDE DEF found
  <1>3. found # {} => (CHOOSE s \in found : TRUE) \in found
    OBVIOUS
  <1> QED BY <1>1, <1>2, <1>3 DEF StoreTypeOK

(* A reference means the same as long as no version is written and, if it  *)
(* is a tag, the tag stays.                                                *)
LEMMA ResolveSame ==
  ASSUME NEW ref \in Refs, UNCHANGED versions, ref.kind = "tag" => tags'[ref.tag] = tags[ref.tag]
  PROVE  Resolve(ref)' = Resolve(ref)
  <1>1. ref.kind \in {"serial", "back", "tag"}
    BY EngineAssumption
  <1>2. CASE ref.kind = "serial"
    BY <1>2 DEF Resolve
  <1>3. CASE ref.kind = "back"
    BY <1>3 DEF Resolve
  <1>4. CASE ref.kind = "tag"
    BY <1>4 DEF Resolve
  <1> QED BY <1>1, <1>2, <1>3, <1>4

-----------------------------------------------------------------------------
(* What the rows say of a version                                          *)

LEMMA CurrentRows ==
  ASSUME StoreInv, current # NoVersion, NEW a \in Addr
  PROVE  /\ versions[current] \in Doc /\ current \in DOMAIN versions /\ current \in Nat
         /\ versions[current].res[a] \in Cell
         /\ OpenAttr(a) = versions[current].res[a].attr
         /\ \A r \in OpenRows(a) : r.attr = versions[current].res[a].attr
         /\ OpenRows(a) = {} <=> versions[current].res[a] = Absent
  <1>1. /\ versions[current] \in Doc /\ current \in DOMAIN versions /\ current \in Nat
        /\ versions[current].res[a] \in Cell
    BY DEF StoreInv, StoreTypeOK, HistoryGapFree, Doc
  <1>2. \A r \in rows : IsOpen(r) => Covers(r, current)
    BY DEF StoreInv, LifecyclesDisjoint, Covers
  <1>3. \A r \in rows : Covers(r, current) => IsOpen(r)
    BY <1>1 DEF StoreInv, StoreTypeOK, LifecyclesDisjoint, Covers, ResourceRow, IsOpen
  <1>4. \A r \in OpenRows(a) : r.attr = versions[current].res[a].attr
    BY <1>1, <1>2 DEF StoreInv, RowsMatchHistory, OpenRows
  <1>5. versions[current].res[a].attr # NoAttr => OpenRows(a) # {}
    BY <1>1, <1>3 DEF StoreInv, RowsMatchHistory, OpenRows
  <1>6. OpenAttr(a) = versions[current].res[a].attr
    BY <1>4, <1>5, OpenRowUnique DEF StoreInv
  <1>7. versions[current].res[a] # Absent => versions[current].res[a].attr # NoAttr
    BY <1>1, DocAssumption DEF Cell
  <1>8. OpenRows(a) # {} => versions[current].res[a] # Absent
    BY <1>4, OpenRowUnique, DocAssumption DEF Absent, StoreInv
  <1> QED BY <1>1, <1>4, <1>5, <1>6, <1>7, <1>8

(* The rows know every version; of version 0 there is nothing to know.     *)
LEMMA AttrAtVersion ==
  ASSUME StoreInv, GenesisEmpty, NEW a \in Addr, NEW s \in DOMAIN versions
  PROVE  AttrAt(a, s) = versions[s].res[a].attr /\ AttrAt(a, s) \in Attr \cup {NoAttr}
  <1> DEFINE at == {r \in rows : r.addr = a /\ Covers(r, s)}
  <1>1. /\ s \in Nat /\ versions[s] \in Doc /\ versions[s].res[a] \in Cell
        /\ versions[s].res[a].attr \in Attr \cup {NoAttr}
    BY DEF StoreInv, StoreTypeOK, Doc, Cell, Absent
  <1>2. AttrAt(a, s) = IF s <= 0 \/ at = {} THEN NoAttr ELSE (CHOOSE r \in at : TRUE).attr
    BY DEF AttrAt
  <1>3. \A r \in at : r.attr = versions[s].res[a].attr
    BY DEF StoreInv, RowsMatchHistory
  <1>4. at = {} => versions[s].res[a].attr = NoAttr
    BY DEF StoreInv, RowsMatchHistory
  <1>5. s = 0 => versions[s].res[a].attr = NoAttr
    BY DEF GenesisEmpty, EmptyDoc, Absent
  <1> HIDE DEF at
  <1>6. at # {} => (CHOOSE r \in at : TRUE) \in at
    OBVIOUS
  <1> QED BY <1>1, <1>2, <1>3, <1>4, <1>5, <1>6

-----------------------------------------------------------------------------
(* Patches                                                                 *)

LEMMA RedirectIsCell ==
  ASSUME NEW c \in Cell, NEW a \in Addr, NEW b \in Addr
  PROVE  /\ RedirectCell(c, a, b) \in Cell
         /\ RedirectCell(c, a, b).attr = IF c = Absent THEN NoAttr ELSE Redirect(c.attr, a, b)
         /\ c # Absent => c.attr \in Attr /\ RedirectCell(c, a, b).attr \in Attr
  <1>1. CASE c = Absent
    BY <1>1 DEF RedirectCell, Absent
  <1>2. CASE c # Absent
    <2>1. c \in [attr : Attr, meta : Meta]
      BY <1>2 DEF Cell
    <2>2. Redirect(c.attr, a, b) \in Attr
      BY <2>1, DependencyAssumption
    <2>3. RedirectCell(c, a, b) = [c EXCEPT !.attr = Redirect(c.attr, a, b)]
      BY <1>2 DEF RedirectCell
    <2> HIDE DEF RedirectCell
    <2> QED BY <1>2, <2>1, <2>2, <2>3 DEF Cell
  <1> QED BY <1>1, <1>2

(* The cells a patch leaves at each address.                               *)
LEMMA PatchCells ==
  ASSUME StoreInv, NEW o, Worded(o), Pinned(o), NEW doc \in Doc
  PROVE  /\ Patch(o, doc) \in Doc
         /\ o.kind = "remove" => /\ Patch(o, doc).res[o.from] = Absent
                                 /\ \A a \in Addr \ {o.from} : Patch(o, doc).res[a] = doc.res[a]
         /\ o.kind = "replay" => /\ Patch(o, doc).res[o.from] = versions[o.target].res[o.from]
                                 /\ \A a \in Addr \ {o.from} : Patch(o, doc).res[a] = doc.res[a]
         /\ o.kind = "move" =>
              /\ Patch(o, doc).res[o.from] = Absent
              /\ Patch(o, doc).res[o.to] = RedirectCell(doc.res[o.from], o.from, o.to)
              /\ \A a \in Addr \ {o.from, o.to} :
                   Patch(o, doc).res[a] = RedirectCell(doc.res[a], o.from, o.to)
  <1>0. doc.res \in [Addr -> Cell] /\ o.from \in Addr /\ Absent \in Cell
    BY DEF Doc, Worded, Pinned, Cell
  <1>1. ASSUME NEW cell \in Cell, Patch(o, doc) = PatchStateResource(doc, o.from, cell)
        PROVE  /\ Patch(o, doc) \in Doc /\ Patch(o, doc).res[o.from] = cell
               /\ \A a \in Addr \ {o.from} : Patch(o, doc).res[a] = doc.res[a]
    BY <1>0, <1>1 DEF PatchStateResource, Doc
  <1>2. CASE o.kind = "remove"
    <2>1. Patch(o, doc) = PatchStateResource(doc, o.from, Absent)
      BY <1>2 DEF Patch
    <2> QED BY <1>0, <1>1, <1>2, <2>1
  <1>3. CASE o.kind = "replay"
    <2>1. Patch(o, doc) = PatchStateResource(doc, o.from, versions[o.target].res[o.from])
      BY <1>3 DEF Patch
    <2>2. versions[o.target].res[o.from] \in Cell
      BY <1>0, <1>3 DEF Pinned, StoreInv, StoreTypeOK, Doc
    <2> QED BY <1>0, <1>1, <1>3, <2>1, <2>2
  <1>4. CASE o.kind = "move"
    <2>0. o.to \in Addr /\ o.to # o.from
      BY <1>4 DEF Worded
    <2> DEFINE res == [a \in Addr |->
                         CASE a = o.from -> Absent
                           [] a = o.to   -> RedirectCell(doc.res[o.from], o.from, o.to)
                           [] OTHER      -> RedirectCell(doc.res[a], o.from, o.to)]
    <2>1. Patch(o, doc) = [doc EXCEPT !.res = res]
      BY <1>4 DEF Patch, PatchMoveStateResource
    <2>2. \A a \in Addr : RedirectCell(doc.res[a], o.from, o.to) \in Cell
      BY <1>0, <2>0, RedirectIsCell
    <2>3. /\ res \in [Addr -> Cell] /\ res[o.from] = Absent
          /\ res[o.to] = RedirectCell(doc.res[o.from], o.from, o.to)
          /\ \A a \in Addr \ {o.from, o.to} : res[a] = RedirectCell(doc.res[a], o.from, o.to)
      BY <1>0, <2>0, <2>2
    <2> HIDE DEF res
    <2>4. Patch(o, doc) \in Doc /\ Patch(o, doc).res = res
      BY <2>1, <2>3 DEF Doc
    <2> QED BY <1>4, <2>3, <2>4
  <1> QED BY <1>2, <1>3, <1>4 DEF Pinned, Mutation

(* The addresses whose rows a mutation changes.                            *)
Touched(o) == IF o.kind = "move" THEN {o.from, o.to} \cup {r.addr : r \in Dependents(o.from)} ELSE {o.from}

(* The rows a mutation closes and opens are those its patch of the current *)
(* document calls for, and no other row drifts.                            *)
LEMMA RowChangeFitsPatch ==
  ASSUME StoreInv, GenesisEmpty, NEW o, Worded(o), Pinned(o),
         o.kind = "move" => ~ HasInstance(versions[current], o.to),
         NEW doc, doc = Patch(o, versions[current])
  PROVE  /\ Touched(o) \subseteq Addr /\ RowChange(o).close \subseteq rows
         /\ RowChange(o).reopen \subseteq [addr : Addr, attr : Attr]
         /\ \A r \in rows : IsOpen(r) => (r \in RowChange(o).close <=> r.addr \in Touched(o))
         /\ \A i \in RowChange(o).reopen : i.addr \in Touched(o) /\ i.attr = doc.res[i.addr].attr
         /\ \A a \in Touched(o) : doc.res[a].attr # NoAttr => \E i \in RowChange(o).reopen : i.addr = a
         /\ \A a \in Addr \ Touched(o) : doc.res[a].attr = OpenAttr(a)
  <1> DEFINE cur == versions[current]
  <1>0. current # NoVersion /\ cur \in Doc /\ o.from \in Addr /\ rows \subseteq ResourceRow
    BY CurrentRows DEF Worded, Pinned, StoreInv, StoreTypeOK
  <1>1. \A a \in Addr : /\ OpenAttr(a) = cur.res[a].attr
                        /\ \A r \in OpenRows(a) : r.attr = cur.res[a].attr
                        /\ OpenRows(a) = {} <=> cur.res[a] = Absent
                        /\ cur.res[a] \in Cell
    BY <1>0, CurrentRows
  <1>2. \A r \in rows, a \in Addr : IsOpen(r) => (r \in OpenRows(a) <=> r.addr = a)
    BY DEF OpenRows
  <1>a. /\ doc = Patch(o, cur)
        /\ o.kind = "move" => cur.res[o.to] = Absent
        /\ \A a \in Addr : OpenRows(a) \subseteq rows /\ \A r \in OpenRows(a) : r.addr = a /\ IsOpen(r)
    BY DEF OpenRows, HasInstance
  <1> HIDE DEF cur
  <1>3. CASE o.kind = "remove"
    <2>1. RowChange(o) = [close |-> OpenRows(o.from), reopen |-> {}] /\ Touched(o) = {o.from}
      BY <1>3 DEF RowChange, Touched
    <2>2. doc.res[o.from] = Absent /\ \A a \in Addr \ {o.from} : doc.res[a] = cur.res[a]
      BY <1>0, <1>3, <1>a, PatchCells
    <2>3. Touched(o) \subseteq Addr /\ RowChange(o).close \subseteq rows /\ RowChange(o).reopen = {}
      BY <1>0, <1>a, <2>1
    <2>4. \A r \in rows : IsOpen(r) => (r \in RowChange(o).close <=> r.addr \in Touched(o))
      BY <1>0, <1>2, <2>1
    <2>5. \A a \in Touched(o) : doc.res[a].attr = NoAttr
      BY <2>1, <2>2 DEF Absent
    <2>6. \A a \in Addr \ Touched(o) : doc.res[a].attr = OpenAttr(a)
      BY <1>1, <2>1, <2>2
    <2> QED BY <2>3, <2>4, <2>5, <2>6
  <1>4. CASE o.kind = "replay"
    <2> DEFINE at == AttrAt(o.from, o.target)
    <2>1. /\ RowChange(o) = [close |-> OpenRows(o.from),
                             reopen |-> IF at = NoAttr THEN {} ELSE {[addr |-> o.from, attr |-> at]}]
          /\ Touched(o) = {o.from}
      BY <1>4 DEF RowChange, Touched
    <2>2. doc.res[o.from] = versions[o.target].res[o.from]
          /\ \A a \in Addr \ {o.from} : doc.res[a] = cur.res[a]
      BY <1>0, <1>4, <1>a, PatchCells
    <2>3. at = doc.res[o.from].attr /\ at \in Attr \cup {NoAttr}
      <3>1. o.target \in DOMAIN versions
        BY <1>4 DEF Pinned
      <3>2. at = versions[o.target].res[o.from].attr /\ at \in Attr \cup {NoAttr}
        BY <1>0, <3>1, AttrAtVersion
      <3> HIDE DEF at
      <3> QED BY <2>2, <3>2
    <2> HIDE DEF at
    <2>4. Touched(o) \subseteq Addr /\ RowChange(o).close \subseteq rows
      BY <1>0, <1>a, <2>1
    <2>5. \A r \in rows : IsOpen(r) => (r \in RowChange(o).close <=> r.addr \in Touched(o))
      BY <1>0, <1>2, <2>1
    <2>6. RowChange(o).reopen = IF at = NoAttr THEN {} ELSE {[addr |-> o.from, attr |-> at]}
      BY <2>1
    <2>7. \A a \in Addr \ Touched(o) : doc.res[a].attr = OpenAttr(a)
      BY <1>1, <2>1, <2>2
    <2> QED
      <3>1. CASE at = NoAttr
        BY <2>1, <2>3, <2>4, <2>5, <2>6, <2>7, <3>1
      <3>2. CASE at # NoAttr
        <4>1. \A i \in RowChange(o).reopen :
                i \in [addr : Addr, attr : Attr] /\ i.addr = o.from /\ i.attr = at
          BY <1>0, <2>3, <2>6, <3>2
        <4>2. \E i \in RowChange(o).reopen : i.addr = o.from
          <5> DEFINE i == [addr |-> o.from, attr |-> at]
          <5>1. i \in RowChange(o).reopen
            BY <2>6, <3>2
          <5>2. i.addr = o.from
            OBVIOUS
          <5> HIDE DEF i
          <5> QED BY <5>1, <5>2
        <4>3. Touched(o) = {o.from}
          BY <2>1
        <4>4. \A i \in RowChange(o).reopen : i.addr \in Touched(o) /\ i.attr = doc.res[i.addr].attr
          BY <2>3, <4>1, <4>3
        <4>5. RowChange(o).reopen \subseteq [addr : Addr, attr : Attr]
          BY <4>1
        <4>6. \A a \in Touched(o) : \E i \in RowChange(o).reopen : i.addr = a
          BY <4>2, <4>3
        <4> QED BY <2>4, <2>5, <2>7, <4>4, <4>5, <4>6
      <3> QED BY <3>1, <3>2
  <1>5. CASE o.kind = "move"
    <2>0. /\ o.to \in Addr /\ o.to # o.from /\ cur.res[o.to] = Absent
      BY <1>5, <1>a DEF Worded
    <2> DEFINE rs == OpenRows(o.from) \cup Dependents(o.from)
    <2>1. /\ RowChange(o) = [close |-> rs, reopen |-> Instances(rs, o.from, o.to)]
          /\ Touched(o) = {o.from, o.to} \cup {r.addr : r \in Dependents(o.from)}
      BY <1>5 DEF RowChange, Touched
    <2>2. /\ doc.res[o.from] = Absent
          /\ doc.res[o.to] = RedirectCell(cur.res[o.from], o.from, o.to)
          /\ \A a \in Addr \ {o.from, o.to} : doc.res[a] = RedirectCell(cur.res[a], o.from, o.to)
      BY <1>0, <1>5, <1>a, PatchCells
    <2>3. \A a \in Addr : /\ RedirectCell(cur.res[a], o.from, o.to).attr =
                               IF cur.res[a] = Absent THEN NoAttr ELSE Redirect(cur.res[a].attr, o.from, o.to)
                          /\ cur.res[a] # Absent => cur.res[a].attr \in Attr
      <3> SUFFICES ASSUME NEW a \in Addr
                   PROVE  /\ RedirectCell(cur.res[a], o.from, o.to).attr =
                               IF cur.res[a] = Absent THEN NoAttr ELSE Redirect(cur.res[a].attr, o.from, o.to)
                          /\ cur.res[a] # Absent => cur.res[a].attr \in Attr
        OBVIOUS
      <3>1. cur.res[a] \in Cell
        BY <1>1
      <3> QED BY <1>0, <2>0, <3>1, RedirectIsCell
    <2>4. \A r \in rows : IsOpen(r) => /\ r.addr \in Addr /\ r.attr = cur.res[r.addr].attr
                                       /\ cur.res[r.addr] # Absent /\ r.attr \in Attr
      BY <1>0, <1>1, <1>2 DEF ResourceRow
    <2>5. \A r \in rows : IsOpen(r) => r.addr # o.to
      BY <2>0, <2>4
    <2>6. \A r \in rows : IsOpen(r) =>
            (r \in Dependents(o.from) <=> r.addr # o.from /\ DependsOn(r.attr, o.from))
      BY DEF Dependents
    <2>7. Touched(o) \subseteq Addr /\ rs \subseteq rows
      BY <1>0, <2>0, <2>1 DEF Dependents, OpenRows, ResourceRow
    <2>8. \A r \in rs : r \in rows /\ IsOpen(r)
      BY DEF Dependents, OpenRows
    <2>9. \A q, r \in rows : IsOpen(q) /\ IsOpen(r) /\ q.addr = r.addr => q = r
      BY <2>4, <1>2, OpenRowUnique DEF StoreInv
    <2>10. \A r \in rows : IsOpen(r) => (r \in rs <=> r.addr \in Touched(o))
      <3> SUFFICES ASSUME NEW r \in rows, IsOpen(r)
                   PROVE  r \in rs <=> r.addr \in Touched(o)
        OBVIOUS
      <3>1. r.addr = o.from <=> r \in OpenRows(o.from)
        BY <1>0, <1>2
      <3>2. ASSUME r.addr \in {q.addr : q \in Dependents(o.from)}
            PROVE  r \in Dependents(o.from)
        BY <2>8, <2>9, <3>2
      <3> QED BY <2>1, <2>5, <3>1, <3>2
    <2>11. \A i \in RowChange(o).reopen :
             \E r \in rs : /\ i = [addr |-> IF r.addr = o.from THEN o.to ELSE r.addr,
                                   attr |-> Redirect(r.attr, o.from, o.to)]
      BY <2>1 DEF Instances
    <2>12. \A r \in rs : [addr |-> IF r.addr = o.from THEN o.to ELSE r.addr,
                          attr |-> Redirect(r.attr, o.from, o.to)] \in RowChange(o).reopen
      BY <2>1 DEF Instances
    <2>13. \A r \in rs : /\ (IF r.addr = o.from THEN o.to ELSE r.addr) \in Touched(o)
                         /\ Redirect(r.attr, o.from, o.to)
                              = doc.res[IF r.addr = o.from THEN o.to ELSE r.addr].attr
                         /\ Redirect(r.attr, o.from, o.to) \in Attr
      <3> SUFFICES ASSUME NEW r \in rs
                   PROVE  /\ (IF r.addr = o.from THEN o.to ELSE r.addr) \in Touched(o)
                          /\ Redirect(r.attr, o.from, o.to)
                               = doc.res[IF r.addr = o.from THEN o.to ELSE r.addr].attr
                          /\ Redirect(r.attr, o.from, o.to) \in Attr
        OBVIOUS
      <3>1. /\ r \in rows /\ IsOpen(r) /\ r.addr \in Addr /\ r.addr # o.to /\ r.attr \in Attr
            /\ r.attr = cur.res[r.addr].attr /\ cur.res[r.addr] # Absent /\ r.addr \in Touched(o)
        BY <2>4, <2>5, <2>8, <2>10
      <3>2. Redirect(r.attr, o.from, o.to) \in Attr
        BY <1>0, <2>0, <3>1, DependencyAssumption
      <3> QED BY <2>1, <2>2, <2>3, <3>1, <3>2
    <2>14. \A a \in Touched(o) : doc.res[a].attr # NoAttr => \E i \in RowChange(o).reopen : i.addr = a
      <3> SUFFICES ASSUME NEW a \in Touched(o), doc.res[a].attr # NoAttr
                   PROVE  \E i \in RowChange(o).reopen : i.addr = a
        OBVIOUS
      <3>1. a # o.from
        BY <2>2 DEF Absent
      <3>2. CASE a = o.to
        <4>1. cur.res[o.from] # Absent
          BY <2>2, <2>3, <1>0, <3>2
        <4>2. PICK r \in OpenRows(o.from) : TRUE
          BY <1>0, <1>1, <4>1
        <4>3. r \in rs /\ r.addr = o.from
          BY DEF OpenRows
        <4> QED BY <2>12, <3>2, <4>3
      <3>3. CASE a # o.to
        <4>1. PICK r \in Dependents(o.from) : r.addr = a
          BY <2>1, <3>1, <3>3
        <4>2. r \in rs
          OBVIOUS
        <4> QED BY <2>12, <3>1, <4>1, <4>2
      <3> QED BY <3>2, <3>3
    <2>15. \A a \in Addr \ Touched(o) : doc.res[a].attr = OpenAttr(a)
      <3> SUFFICES ASSUME NEW a \in Addr, a \notin Touched(o)
                   PROVE  doc.res[a].attr = OpenAttr(a)
        OBVIOUS
      <3>1. doc.res[a] = RedirectCell(cur.res[a], o.from, o.to)
        BY <2>1, <2>2
      <3>2. CASE cur.res[a] = Absent
        BY <1>1, <2>3, <3>1, <3>2 DEF Absent
      <3>3. CASE cur.res[a] # Absent
        <4>1. PICK r \in OpenRows(a) : TRUE
          BY <1>1, <3>3
        <4>2. r \in rows /\ IsOpen(r) /\ r.addr = a /\ r.attr = cur.res[a].attr /\ r \notin Dependents(o.from)
          BY <1>1, <2>1, <4>1 DEF OpenRows
        <4>3. ~ DependsOn(cur.res[a].attr, o.from)
          BY <2>1, <2>6, <4>2
        <4>4. Redirect(cur.res[a].attr, o.from, o.to) = cur.res[a].attr
          BY <1>0, <2>0, <2>3, <3>3, <4>3, DependencyAssumption
        <4> QED BY <1>1, <2>3, <3>1, <3>3, <4>4
      <3> QED BY <3>2, <3>3
    <2>16. \A i \in RowChange(o).reopen :
             i \in [addr : Addr, attr : Attr] /\ i.addr \in Touched(o) /\ i.attr = doc.res[i.addr].attr
      <3> SUFFICES ASSUME NEW i \in RowChange(o).reopen
                   PROVE  i \in [addr : Addr, attr : Attr] /\ i.addr \in Touched(o) /\ i.attr = doc.res[i.addr].attr
        OBVIOUS
      <3>1. PICK r \in rs : i = [addr |-> IF r.addr = o.from THEN o.to ELSE r.addr,
                                attr |-> Redirect(r.attr, o.from, o.to)]
        BY <2>11
      <3> HIDE DEF rs
      <3>2. i.addr = (IF r.addr = o.from THEN o.to ELSE r.addr) /\ i.attr = Redirect(r.attr, o.from, o.to)
        BY <3>1
      <3> QED BY <2>7, <2>13, <3>1, <3>2
    <2> HIDE DEF rs
    <2>17. RowChange(o).close = rs
      BY <2>1
    <2> QED BY <2>7, <2>10, <2>14, <2>15, <2>16, <2>17
  <1> QED BY <1>3, <1>4, <1>5 DEF Pinned, Mutation


-----------------------------------------------------------------------------
(* The steps of the store                                                  *)

(* A version was committed: the trunk moved on, and no older version       *)
(* changed.                                                                *)
Committed ==
  /\ current' \in Nat /\ current' > current
  /\ \A s \in DOMAIN versions : s \in DOMAIN versions' /\ versions'[s] = versions[s]

LEMMA InsertCommits ==
  ASSUME StoreInv, GenesisEmpty, NEW n, Fresh(n), NEW doc \in Doc, InsertVersion(n, doc), n = 0 => doc = EmptyDoc
  PROVE  Committed /\ GenesisEmpty'
  <1>1. /\ current' = n /\ n \in Nat /\ DOMAIN versions' = DOMAIN versions \cup {n} /\ n \notin DOMAIN versions
        /\ \A s \in DOMAIN versions : versions'[s] = versions[s] /\ s < n
        /\ versions'[n] = doc
    BY InsertKeepsHistory DEF StoreInv
  <1>2. n > current
    BY <1>1 DEF StoreInv, HistoryGapFree, StoreTypeOK, NoVersion
  <1>3. GenesisEmpty'
    BY <1>1 DEF GenesisEmpty
  <1> QED BY <1>1, <1>2, <1>3 DEF Committed

LEMMA MutateCommits ==
  ASSUME EngineInv, NEW w \in Op, Mutate(w)
  PROVE  /\ StoreInv' /\ BaselineStored' /\ GenesisEmpty' /\ Committed
         /\ current' = NextSerial /\ NextSerial \in Nat /\ NextSerial # 0
         /\ versions'[current'] = Patch(op[w], versions[current])
  <1>1. PICK o : o = op[w]
    OBVIOUS
  <1>2. PICK n : n = NextSerial
    OBVIOUS
  <1> DEFINE cur == versions[current]
             dr  == Touched(o)
  <1>3. /\ InsertVersion(n, o.doc) /\ UNCHANGED <<locks, exclusive>>
        /\ rows' = {IF r \in o.close /\ IsOpen(r) THEN [r EXCEPT !.delete = n] ELSE r : r \in rows}
                     \cup {[addr |-> i.addr, attr |-> i.attr, create |-> n, delete |-> Open] : i \in o.reopen}
    BY <1>1, <1>2 DEF Mutate
  <1>4. Fresh(n) /\ n \in Nat /\ n # 0
    BY <1>2, NextSerialFresh, NextSerialPositive DEF EngineInv, StoreInv
  <1>5. /\ Worded(o) /\ Pinned(o) /\ o.doc = Patch(o, cur)
        /\ o.kind = "move" => ~ HasInstance(cur, o.to)
        /\ o.close = RowChange(o).close /\ o.reopen = RowChange(o).reopen
    BY <1>1 DEF EngineInv, OpShape, OpFits, Mutate, At, Active, Planned
  <1>6. cur \in Doc
    BY <1>5 DEF EngineInv, StoreInv, StoreTypeOK, HistoryGapFree, Pinned
  <1>7. o.doc \in Doc
    BY <1>5, <1>6, PatchCells DEF EngineInv
  <1>8. /\ dr \subseteq Addr /\ o.close \subseteq rows
        /\ o.reopen \subseteq [addr : Addr, attr : Attr]
        /\ \A r \in rows : IsOpen(r) => (r \in o.close <=> r.addr \in dr)
        /\ \A i \in o.reopen : i.addr \in dr /\ i.attr = o.doc.res[i.addr].attr
        /\ \A a \in dr : o.doc.res[a].attr # NoAttr => \E i \in o.reopen : i.addr = a
        /\ \A a \in Addr \ dr : o.doc.res[a].attr = OpenAttr(a)
    BY <1>5, RowChangeFitsPatch DEF EngineInv
  <1> HIDE DEF cur, dr
  <1>9. {IF r \in o.close /\ IsOpen(r) THEN [r EXCEPT !.delete = n] ELSE r : r \in rows}
          = {CloseRow(r, dr, n) : r \in rows}
    <2>1. \A r \in rows : (IF r \in o.close /\ IsOpen(r) THEN [r EXCEPT !.delete = n] ELSE r)
                            = CloseRow(r, dr, n)
      BY <1>8 DEF CloseRow
    <2> QED BY <2>1
  <1>10. {[addr |-> i.addr, attr |-> i.attr, create |-> n, delete |-> Open] : i \in o.reopen}
           = {NewRow(a, o.doc.res, n) : a \in {b \in dr : o.doc.res[b].attr # NoAttr}}
    <2>1. ASSUME NEW i \in o.reopen
          PROVE  \E a \in {b \in dr : o.doc.res[b].attr # NoAttr} :
                   [addr |-> i.addr, attr |-> i.attr, create |-> n, delete |-> Open] = NewRow(a, o.doc.res, n)
      <3>1. i.addr \in dr /\ i.attr = o.doc.res[i.addr].attr /\ i.attr # NoAttr
        BY <1>8, DocAssumption
      <3>2. NewRow(i.addr, o.doc.res, n) = [addr |-> i.addr, attr |-> i.attr, create |-> n, delete |-> Open]
        BY <3>1 DEF NewRow
      <3> QED BY <3>1, <3>2
    <2>2. ASSUME NEW a \in dr, o.doc.res[a].attr # NoAttr
          PROVE  \E i \in o.reopen :
                   NewRow(a, o.doc.res, n) = [addr |-> i.addr, attr |-> i.attr, create |-> n, delete |-> Open]
      <3>1. PICK i \in o.reopen : i.addr = a
        BY <1>8, <2>2
      <3>2. i.attr = o.doc.res[a].attr
        BY <1>8, <3>1
      <3> QED BY <3>1, <3>2 DEF NewRow
    <2> QED BY <2>1, <2>2
  <1>11. rows' = RowsReplaced(n, o.doc.res, dr)
    BY <1>3, <1>9, <1>10 DEF RowsReplaced
  <1>12. o.doc.res \in [Addr -> Cell]
    BY <1>7 DEF Doc
  <1>13. \A a \in Addr : o.doc.res[a].attr = IF a \in dr THEN o.doc.res[a].attr ELSE OpenAttr(a)
    BY <1>8
  <1>14. locks' \in [LockId -> LockRow \cup {NoLock}] /\ exclusive' \in BOOLEAN
    BY <1>3 DEF EngineInv, StoreInv, StoreTypeOK
  <1>15. StoreInv'
    <2>1. StoreInv /\ dr \in SUBSET Addr /\ InsertVersion(n, o.doc)
      BY <1>3, <1>8 DEF EngineInv
    <2> QED BY <1>4, <1>7, <1>11, <1>12, <1>13, <1>14, <2>1, ReplaceKeepsInv
  <1>16. Committed /\ GenesisEmpty'
    BY <1>3, <1>4, <1>7, InsertCommits DEF EngineInv
  <1>17. BaselineStored'
    BY <1>3, <1>16 DEF EngineInv, BaselineStored, Committed
  <1>18. current' = n /\ versions'[n] = o.doc
    BY <1>3 DEF InsertVersion
  <1> QED BY <1>1, <1>2, <1>4, <1>5, <1>15, <1>16, <1>17, <1>18 DEF cur

(* Every other step of the store keeps its invariant, and commits or       *)
(* leaves versions and rows alone.                                         *)
LEMMA StoreCommits ==
  ASSUME StoreInv, BaselineStored, GenesisEmpty, [StoreNext]_storeVars
  PROVE  /\ StoreInv' /\ BaselineStored' /\ GenesisEmpty'
         /\ UNCHANGED <<versions, current, rows>> \/ Committed
  <1>1. StoreInv' /\ BaselineStored'
    BY StoreInvStep, BaselineStep
  <1>2. CASE WriteNext
    <2>1. StoreWrite
      BY <1>2, WriteIsStoreWrite
    <2>2. PICK n \in Nat, doc \in Doc, sel \in SUBSET Addr :
            /\ Fresh(n)
            /\ \/ CommitDoc(n, doc) /\ (n = 0 => doc = EmptyDoc)
               \/ CommitSelected(n, doc, sel) /\ n # 0
      BY <2>1 DEF StoreWrite
    <2>3. CASE CommitDoc(n, doc) /\ (n = 0 => doc = EmptyDoc)
      BY <1>1, <2>2, <2>3, InsertCommits DEF CommitDoc
    <2>4. CASE CommitSelected(n, doc, sel) /\ n # 0
      <3>1. [doc EXCEPT !.res = RebuiltRes(doc.res, sel)] \in Doc
        BY RebuiltIsDoc DEF StoreInv
      <3>2. InsertVersion(n, [doc EXCEPT !.res = RebuiltRes(doc.res, sel)])
        BY <2>4 DEF CommitSelected
      <3> QED BY <1>1, <2>2, <2>4, <3>1, <3>2, InsertCommits
    <2> QED BY <2>2, <2>3, <2>4
  <1>3. CASE LockNext
    BY <1>1, <1>3, LockStep DEF GenesisEmpty, StoreInv
  <1>4. CASE UNCHANGED storeVars
    BY <1>1, <1>4 DEF storeVars, GenesisEmpty
  <1> QED BY <1>2, <1>3, <1>4 DEF StoreNext


-----------------------------------------------------------------------------
(* The requests                                                            *)

(* What a request carries on from one step to the next.                    *)
Continues(p, o) ==
  Active(o) => /\ Active(p) /\ o.kind = p.kind /\ o.from = p.from /\ o.to = p.to /\ o.ref = p.ref
               /\ p.kind = "rollback" => o.target = p.target

(* A patch and a row change depend on the words of the request and on the  *)
(* tables alone.                                                           *)
LEMMA PatchOfWords ==
  ASSUME NEW p, NEW o, o.kind = p.kind, o.from = p.from, o.to = p.to, o.target = p.target
  PROVE  /\ \A doc : Patch(o, doc) = Patch(p, doc)
         /\ RowChange(o) = RowChange(p)
  BY DEF Patch, RowChange

LEMMA PatchSame ==
  ASSUME UNCHANGED versions, NEW o, NEW doc
  PROVE  Patch(o, doc)' = Patch(o, doc)
  BY DEF Patch

LEMMA RowChangeSame ==
  ASSUME UNCHANGED rows, NEW o
  PROVE  RowChange(o)' = RowChange(o)
  BY DEF RowChange, OpenRows, Dependents, AttrAt

LEMMA IdleIsOp == IdleOp \in OpRecord
  BY EmptyDocIsDoc DEF IdleOp, OpRecord

(* A request that changes hands with itself: the others are idle.          *)
LEMMA OpAdvance ==
  ASSUME EngineInv, NEW w \in Op, NEW o \in OpRecord, op' = [op EXCEPT ![w] = o], OpFits(w, o)',
         op[w].pc # "idle" \/ Held = {}, UNCHANGED <<tags, refresh>>, crashes' \in 0..MaxCrash
  PROVE  EngineTypeOK' /\ \A v \in Op : OpShape(v)'
  <1>1. op \in [Op -> OpRecord]
    BY DEF EngineInv, EngineTypeOK, OpRecord
  <1>2. op'[w] = o /\ op' \in [Op -> OpRecord] /\ \A v \in Op \ {w} : op'[v] = op[v]
    BY <1>1
  <1>3. EngineTypeOK'
    BY <1>2 DEF EngineInv, EngineTypeOK, OpRecord
  <1>4. ASSUME NEW v \in Op, v # w
        PROVE  OpShape(v)'
    <2>1. op[v].pc = "idle"
      BY <1>4 DEF EngineInv, OpShape, OpFits, Held, NoLock
    <2>2. op'[v].pc = "idle"
      BY <1>2, <1>4, <2>1
    <2> QED BY <2>2 DEF OpShape, OpFits, Active, Planned
  <1> QED BY <1>2, <1>3, <1>4 DEF OpShape

(* The ends of a request.                                                  *)
Reply(n) == [IdleOp EXCEPT !.pc = "done", !.serial = n]

LEMMA ReportFits ==
  ASSUME EngineInv, NEW w \in Op, op[w].pc # "idle", locks' = locks,
         NEW n \in Nat, n > 0 => n = current'
  PROVE  Reply(n) \in OpRecord /\ OpFits(w, Reply(n))' /\ Continues(op[w], Reply(n))
  <1>1. Reply(n) \in OpRecord /\ Reply(n).pc = "done" /\ Reply(n).serial = n
    BY EmptyDocIsDoc DEF IdleOp, OpRecord, Reply
  <1>2. locks'[w].kind = "engine" /\ Held' = {w}
    BY DEF EngineInv, OpShape, OpFits, Held
  <1>3. PICK o : o = Reply(n)
    OBVIOUS
  <1>4. OpFits(w, o)' /\ Continues(op[w], o)
    BY <1>1, <1>2, <1>3 DEF OpFits, Continues, Active, Planned
  <1> QED BY <1>1, <1>3, <1>4

LEMMA EndFits ==
  ASSUME EngineInv, NEW w \in Op, op[w].pc # "idle"
  PROVE  /\ OpFits(w, IdleOp)' /\ Continues(op[w], IdleOp)
         /\ UNCHANGED locks => LET o == [IdleOp EXCEPT !.pc = "dead"]
                               IN  o \in OpRecord /\ OpFits(w, o)' /\ Continues(op[w], o)
  <1> DEFINE o == [IdleOp EXCEPT !.pc = "dead"]
  <1>1. o \in OpRecord /\ o.pc = "dead" /\ IdleOp.pc = "idle"
    BY EmptyDocIsDoc DEF IdleOp, OpRecord
  <1>2. UNCHANGED locks => locks'[w].kind = "engine" /\ Held' = {w}
    BY DEF EngineInv, OpShape, OpFits, Held
  <1>3. OpFits(w, IdleOp)' /\ Continues(op[w], IdleOp)
    BY <1>1 DEF OpFits, Continues, Active, Planned
  <1> HIDE DEF o
  <1>4. UNCHANGED locks => OpFits(w, o)' /\ Continues(op[w], o)
    BY <1>1, <1>2 DEF OpFits, Continues, Active, Planned
  <1> QED BY <1>1, <1>3, <1>4 DEF o

(* A request that is taken up holds the only lock.                         *)
LEMMA BeginFits ==
  ASSUME EngineInv, NEW w \in Op, Begin(w)
  PROVE  /\ Held = {} /\ op[w].pc = "idle" /\ UNCHANGED <<versions, current, rows, tags, refresh, crashes>>
         /\ \E o \in OpRecord : op' = [op EXCEPT ![w] = o] /\ OpFits(w, o)'
  <1>1. /\ Held = {} /\ op[w].pc = "idle" /\ UNCHANGED <<versions, current, rows, tags, refresh, crashes>>
        /\ locks' = [locks EXCEPT ![w] = [kind |-> "engine", source |-> 0]]
    BY DEF Begin, AcquireStateEngineLock, At
  <1>2. w \in LockId /\ locks \in [LockId -> LockRow \cup {NoLock}]
    BY EngineAssumption DEF EngineInv, StoreInv, StoreTypeOK
  <1>3. locks'[w].kind = "engine" /\ Held' = {w}
    BY <1>1, <1>2 DEF Held, NoLock
  <1>4. ASSUME NEW o \in OpRecord, o.pc = "locked", Worded(o), op' = [op EXCEPT ![w] = o]
        PROVE  \E q \in OpRecord : op' = [op EXCEPT ![w] = q] /\ OpFits(w, q)'
    <2>1. Worded(o)'
      BY <1>1, <1>4 DEF Worded
    <2>2. OpFits(w, o)'
      BY <1>3, <1>4, <2>1 DEF OpFits, Planned
    <2> QED BY <1>4, <2>2
  <1>5. ASSUME NEW a \in Addr, Set(w, [IdleOp EXCEPT !.pc = "locked", !.kind = "remove", !.from = a])
        PROVE  \E q \in OpRecord : op' = [op EXCEPT ![w] = q] /\ OpFits(w, q)'
    <2> DEFINE o == [IdleOp EXCEPT !.pc = "locked", !.kind = "remove", !.from = a]
    <2>1. o \in OpRecord /\ o.pc = "locked" /\ o.kind = "remove" /\ o.from = a
      BY EmptyDocIsDoc DEF IdleOp, OpRecord
    <2>2. op' = [op EXCEPT ![w] = o]
      BY <1>5 DEF Set
    <2> HIDE DEF o
    <2> QED BY <1>4, <2>1, <2>2 DEF Worded, Mutation
  <1>6. ASSUME NEW a \in Addr, NEW b \in Addr, a # b,
               Set(w, [IdleOp EXCEPT !.pc = "locked", !.kind = "move", !.from = a, !.to = b])
        PROVE  \E q \in OpRecord : op' = [op EXCEPT ![w] = q] /\ OpFits(w, q)'
    <2> DEFINE o == [IdleOp EXCEPT !.pc = "locked", !.kind = "move", !.from = a, !.to = b]
    <2>1. o \in OpRecord /\ o.pc = "locked" /\ o.kind = "move" /\ o.from = a /\ o.to = b
      BY EmptyDocIsDoc DEF IdleOp, OpRecord
    <2>2. op' = [op EXCEPT ![w] = o]
      BY <1>6 DEF Set
    <2> HIDE DEF o
    <2> QED BY <1>4, <1>6, <2>1, <2>2 DEF Worded, Mutation
  <1>7. ASSUME NEW a \in Addr, NEW ref \in Refs,
               Set(w, [IdleOp EXCEPT !.pc = "locked", !.kind = "replay", !.from = a, !.ref = ref])
        PROVE  \E q \in OpRecord : op' = [op EXCEPT ![w] = q] /\ OpFits(w, q)'
    <2> DEFINE o == [IdleOp EXCEPT !.pc = "locked", !.kind = "replay", !.from = a, !.ref = ref]
    <2>1. o \in OpRecord /\ o.pc = "locked" /\ o.kind = "replay" /\ o.from = a /\ o.ref = ref
      BY EmptyDocIsDoc DEF IdleOp, OpRecord
    <2>2. op' = [op EXCEPT ![w] = o]
      BY <1>7 DEF Set
    <2> HIDE DEF o
    <2> QED BY <1>4, <2>1, <2>2 DEF Worded, Mutation
  <1>8. ASSUME NEW s \in DOMAIN versions,
               Set(w, [IdleOp EXCEPT !.pc = "locked", !.kind = "rollback", !.target = s])
        PROVE  \E q \in OpRecord : op' = [op EXCEPT ![w] = q] /\ OpFits(w, q)'
    <2> DEFINE o == [IdleOp EXCEPT !.pc = "locked", !.kind = "rollback", !.target = s]
    <2>0. s \in Nat
      BY DEF EngineInv, StoreInv, StoreTypeOK
    <2>1. o \in OpRecord /\ o.pc = "locked" /\ o.kind = "rollback" /\ o.target = s
      BY <2>0, EmptyDocIsDoc DEF IdleOp, OpRecord
    <2>2. op' = [op EXCEPT ![w] = o]
      BY <1>8 DEF Set
    <2> HIDE DEF o
    <2> QED BY <1>4, <2>1, <2>2 DEF Worded, Mutation
  <1>9. CASE Set(w, [IdleOp EXCEPT !.pc = "locked", !.kind = "apply"])
    <2> DEFINE o == [IdleOp EXCEPT !.pc = "locked", !.kind = "apply"]
    <2>1. o \in OpRecord /\ o.pc = "locked" /\ o.kind = "apply"
      BY EmptyDocIsDoc DEF IdleOp, OpRecord
    <2>2. op' = [op EXCEPT ![w] = o]
      BY <1>9 DEF Set
    <2> HIDE DEF o
    <2> QED BY <1>1, <1>4, <2>1, <2>2 DEF Worded, Mutation
  <1>10. \E q \in OpRecord : op' = [op EXCEPT ![w] = q] /\ OpFits(w, q)'
    BY <1>5, <1>6, <1>7, <1>8, <1>9 DEF Begin
  <1> QED BY <1>1, <1>10


(* A request that goes on without writing.                                 *)
LEMMA ReadFits ==
  ASSUME EngineInv, NEW w \in Op, Preview(w) \/ ReadDoc(w) \/ ReadRows(w) \/ ReadTrunk(w) \/ OpFails(w)
  PROVE  /\ op[w].pc # "idle" /\ UNCHANGED <<storeVars, tags, refresh, crashes>>
         /\ \E o \in OpRecord : op' = [op EXCEPT ![w] = o] /\ OpFits(w, o)' /\ Continues(op[w], o)
  <1> DEFINE Fine == \E o \in OpRecord : op' = [op EXCEPT ![w] = o] /\ OpFits(w, o)' /\ Continues(op[w], o)
  <1>1. /\ op[w].pc # "idle" /\ UNCHANGED <<versions, current, rows, locks, exclusive, tags, refresh, crashes>>
        /\ Active(op[w])
    BY DEF Preview, ReadDoc, ReadRows, ReadTrunk, OpFails, At, Active, storeVars
  <1>2. PICK p : p = op[w]
    OBVIOUS
  <1>3. /\ p \in OpRecord /\ OpFits(w, p) /\ Worded(p)
        /\ Active(p) /\ StoreInv /\ StoreTypeOK
    BY <1>1, <1>2 DEF EngineInv, EngineTypeOK, OpRecord, OpShape, OpFits, StoreInv
  <1>4. ASSUME Done(w) PROVE Fine
    <2>1. Reply(0) \in OpRecord /\ OpFits(w, Reply(0))' /\ Continues(op[w], Reply(0))
      BY <1>1, ReportFits
    <2>2. op' = [op EXCEPT ![w] = Reply(0)]
      BY <1>4 DEF Done, Report, Set, Reply
    <2> QED BY <2>1, <2>2
  <1>5. locks'[w].kind = "engine" /\ Held' = {w}
    BY <1>1, <1>2, <1>3 DEF OpFits, Held
  <1>6. ASSUME NEW o, Worded(o) PROVE Worded(o)'
    BY <1>1, <1>6 DEF Worded
  <1>7. ASSUME NEW o, Worded(o), Pinned(o) PROVE Pinned(o)'
    <2>1. o.kind = "replay" => Resolve(o.ref)' = Resolve(o.ref)
      BY <1>1, <1>7, ResolveSame DEF Worded
    <2> QED BY <1>1, <1>7, <2>1 DEF Pinned
  <1>8. CASE Preview(w)
    <2> DEFINE q == Targeted(p)
               e == [q EXCEPT !.pc = "previewed"]
    <2>1. p.pc = "locked" /\ p.kind \in Mutation /\ (NoOp(q) => Done(w)) /\ (~ NoOp(q) => op' = [op EXCEPT ![w] = e])
      BY <1>2, <1>8 DEF Preview, At, Set, Mutation
    <2>2. CASE ~ NoOp(q)
      <3>1. current # NoVersion /\ (p.kind = "replay" => q.target # NoVersion)
            /\ q.kind = p.kind
        BY <1>3, <2>2 DEF NoOp, Targeted, OpRecord
      <3>2. p.kind = "replay" => /\ q = [p EXCEPT !.target = Resolve(p.ref)] /\ q.target = Resolve(p.ref)
                                 /\ Resolve(p.ref) \in DOMAIN versions /\ Resolve(p.ref) \in Nat
        BY <1>3, <3>1, ResolveFacts DEF Targeted, OpRecord
      <3>3. p.kind # "replay" => q = p
        BY DEF Targeted
      <3>4. q \in OpRecord /\ q.from = p.from /\ q.to = p.to /\ q.ref = p.ref /\ (p.kind # "replay" => q.target = p.target)
        BY <1>3, <3>2, <3>3 DEF OpRecord
      <3> HIDE DEF q
      <3>a. PICK o : o = e
        OBVIOUS
      <3>5. o \in OpRecord /\ o.pc = "previewed" /\ o.kind = p.kind /\ o.from = p.from /\ o.to = p.to
            /\ o.ref = p.ref /\ o.target = q.target
        BY <3>1, <3>4, <3>a DEF OpRecord
      <3> HIDE DEF e
      <3>6. Worded(o)
        BY <1>3, <2>1, <3>5 DEF Worded, Mutation
      <3>7. Pinned(o)
        BY <2>1, <3>1, <3>2, <3>5 DEF Pinned
      <3>8. OpFits(w, o)'
        BY <1>5, <1>6, <1>7, <3>5, <3>6, <3>7 DEF OpFits, Active, Planned
      <3>9. Continues(op[w], o)
        BY <1>2, <1>3, <2>1, <3>4, <3>5 DEF Continues, Mutation
      <3> QED BY <1>1, <2>1, <2>2, <3>a, <3>5, <3>8, <3>9 DEF storeVars
    <2> QED BY <1>1, <1>4, <2>1, <2>2 DEF storeVars
  <1>9. CASE ReadDoc(w)
    <2> DEFINE doc   == versions[current]
               again == Targeted(p)
               e     == [p EXCEPT !.pc = "patched", !.doc = Patch(again, doc)]
               stop  == \/ p.kind \in {"remove", "move"} /\ ~ HasInstance(doc, p.from)
                        \/ p.kind = "move" /\ HasInstance(doc, p.to)
                        \/ p.kind = "replay" /\ again.target = NoVersion
    <2>1. p.pc = "previewed" /\ (stop => Done(w)) /\ (~ stop => op' = [op EXCEPT ![w] = e])
      BY <1>2, <1>9 DEF ReadDoc, At, Set
    <2>2. Pinned(p)
      BY <1>3, <2>1 DEF OpFits, Planned
    <2>3. again = p
      BY <1>3, <2>1, <2>2 DEF Targeted, Pinned, OpRecord
    <2>4. doc \in Doc
      BY <1>3, <2>2 DEF Pinned, StoreInv, StoreTypeOK, HistoryGapFree
    <2>5. Patch(p, doc) \in Doc
      BY <1>3, <2>2, <2>4, PatchCells
    <2>6. CASE ~ stop
      <3>a. PICK o : o = e
        OBVIOUS
      <3>1. /\ o \in OpRecord /\ o.pc = "patched" /\ o.kind = p.kind /\ o.from = p.from /\ o.to = p.to
            /\ o.ref = p.ref /\ o.target = p.target /\ o.doc = Patch(p, doc)
        BY <3>a, <1>3, <2>3, <2>5 DEF OpRecord
      <3>2. p.kind = "move" => ~ HasInstance(doc, p.to)
        BY <2>6
      <3> HIDE DEF e
      <3>3. Worded(o) /\ Pinned(o)
        BY <1>3, <2>1, <2>2, <3>1 DEF Worded, Pinned
      <3>4. o.doc = Patch(o, doc)
        BY <3>1, PatchOfWords
      <3>5. o.doc = Patch(o, versions[current])'
        BY <1>1, <3>4, PatchSame
      <3>6. (o.kind = "move" => ~ HasInstance(versions[current], o.to))'
        BY <1>1, <3>1, <3>2 DEF HasInstance
      <3>7. OpFits(w, o)'
        BY <1>5, <1>6, <1>7, <3>1, <3>3, <3>5, <3>6 DEF OpFits, Active, Planned
      <3>8. Continues(op[w], o)
        BY <1>2, <1>3, <3>1 DEF Continues
      <3> QED BY <1>1, <2>1, <2>6, <3>a, <3>1, <3>7, <3>8 DEF storeVars
    <2> QED BY <1>1, <1>4, <2>1, <2>6 DEF storeVars
  <1>10. CASE ReadRows(w)
    <2> DEFINE e    == [p EXCEPT !.pc = "ready", !.close = RowChange(p).close, !.reopen = RowChange(p).reopen]
               stop == \/ p.kind # "replay" /\ OpenRows(p.from) = {}
                       \/ p.kind = "move" /\ OpenRows(p.to) # {}
    <2>1. p.pc = "patched" /\ (stop => Done(w)) /\ (~ stop => op' = [op EXCEPT ![w] = e])
      BY <1>2, <1>10 DEF ReadRows, At, Set
    <2>2. /\ Pinned(p) /\ p.doc = Patch(p, versions[current])
          /\ p.kind = "move" => ~ HasInstance(versions[current], p.to)
      BY <1>3, <2>1 DEF OpFits, Planned
    <2>3. /\ RowChange(p).close \subseteq rows /\ rows \subseteq ResourceRow
          /\ RowChange(p).reopen \subseteq [addr : Addr, attr : Attr]
      BY <1>3, <2>2, RowChangeFitsPatch DEF EngineInv, StoreTypeOK
    <2>4. CASE ~ stop
      <3>a. PICK o : o = e
        OBVIOUS
      <3>1. /\ o \in OpRecord /\ o.pc = "ready" /\ o.kind = p.kind /\ o.from = p.from /\ o.to = p.to
            /\ o.ref = p.ref /\ o.target = p.target /\ o.doc = p.doc
            /\ o.close = RowChange(p).close /\ o.reopen = RowChange(p).reopen
        BY <3>a, <1>3, <2>3 DEF OpRecord
      <3> HIDE DEF e
      <3>2. Worded(o) /\ Pinned(o)
        BY <1>3, <2>1, <2>2, <3>1 DEF Worded, Pinned
      <3>3. RowChange(o) = RowChange(p) /\ o.doc = Patch(o, versions[current])
        BY <2>2, <3>1, PatchOfWords
      <3>4. o.doc = Patch(o, versions[current])'
        BY <1>1, <3>3, PatchSame
      <3>5. RowChange(o)' = RowChange(o)
        BY <1>1, RowChangeSame
      <3>6. (o.kind = "move" => ~ HasInstance(versions[current], o.to))'
        BY <1>1, <2>2, <3>1 DEF HasInstance
      <3>7. OpFits(w, o)'
        BY <1>5, <1>6, <1>7, <3>1, <3>2, <3>3, <3>4, <3>5, <3>6 DEF OpFits, Active, Planned
      <3>8. Continues(op[w], o)
        BY <1>2, <1>3, <3>1 DEF Continues
      <3> QED BY <1>1, <2>1, <2>4, <3>a, <3>1, <3>7, <3>8 DEF storeVars
    <2> QED BY <1>1, <1>4, <2>1, <2>4 DEF storeVars
  <1>11. CASE ReadTrunk(w)
    <2> DEFINE e == [p EXCEPT !.pc = "fresh", !.fresh = current]
    <2>1. p.kind = "apply" /\ (current = NoVersion => Done(w)) /\ (current # NoVersion => op' = [op EXCEPT ![w] = e])
      BY <1>2, <1>11 DEF ReadTrunk, At, Set
    <2>2. CASE current # NoVersion
      <3>a. PICK o : o = e
        OBVIOUS
      <3>1. /\ o \in OpRecord /\ o.pc = "fresh" /\ o.kind = p.kind /\ o.from = p.from /\ o.to = p.to
            /\ o.ref = p.ref /\ o.target = p.target /\ o.fresh = current
        BY <3>a, <1>3, <2>2 DEF OpRecord, StoreTypeOK
      <3> HIDE DEF e
      <3>2. Worded(o)
        BY <1>3, <2>1, <3>1 DEF Worded
      <3>3. OpFits(w, o)'
        BY <1>1, <1>5, <1>6, <2>2, <3>1, <3>2 DEF OpFits, Active, Planned
      <3>4. Continues(op[w], o)
        BY <1>2, <1>3, <3>1 DEF Continues
      <3> QED BY <1>1, <2>1, <2>2, <3>a, <3>1, <3>3, <3>4 DEF storeVars
    <2> QED BY <1>1, <1>4, <2>1, <2>2 DEF storeVars
  <1>12. CASE OpFails(w)
    BY <1>1, <1>4, <1>12 DEF OpFails, storeVars
  <1> QED BY <1>8, <1>9, <1>10, <1>11, <1>12


(* A request that commits reports the version it committed.                *)
LEMMA WriteReports ==
  ASSUME EngineInv, NEW w \in Op, Mutate(w) \/ Rollback(w) \/ CommitDelta(w)
  PROVE  /\ Active(op[w]) /\ UNCHANGED <<locks, exclusive, tags, refresh, crashes>>
         /\ current' \in Nat /\ op' = [op EXCEPT ![w] = Reply(current')]
         /\ Mutate(w) \/ StoreNext
  <1>1. NextSerial \in Nat
    BY NextSerialPositive DEF EngineInv, StoreInv
  <1>2. CASE Mutate(w)
    BY <1>1, <1>2 DEF Mutate, InsertVersion, Report, Set, Reply, At, Active
  <1>3. CASE Rollback(w)
    <2>1. op[w].target \in DOMAIN versions
      BY <1>3 DEF EngineInv, OpShape, OpFits, Rollback, At, Active, Worded
    <2>2. StoreNext
      BY <1>3, <2>1 DEF Rollback, StoreNext, WriteNext
    <2> QED BY <1>1, <1>3, <2>2 DEF Rollback, ReplayVersion, CommitDoc, InsertVersion, Report, Set, Reply, At, Active
  <1>4. CASE CommitDelta(w)
    <2>1. PICK doc \in PostedDoc, changed \in SUBSET Addr : WriteStateEngineDeltaForApply(doc, changed, {})
      BY <1>4 DEF CommitDelta
    <2>2. StoreNext
      <3>1. doc \in Doc /\ {} \in SUBSET OutName
        BY EngineAssumption
      <3> QED BY <2>1, <3>1 DEF StoreNext, WriteNext
    <2>3. current' = NextSerial /\ UNCHANGED <<locks, exclusive>>
      BY <2>1 DEF WriteStateEngineDeltaForApply, CommitSelected, InsertVersion
    <2>4. op[w].fresh = current /\ current # NoVersion
      BY <1>4 DEF EngineInv, OpShape, OpFits, CommitDelta, At
    <2>5. NextSerial = current + 1
      <3>1. DOMAIN versions # {} /\ Max(DOMAIN versions) = current
        BY <2>4, MaxIsCurrent DEF EngineInv, StoreInv, HistoryGapFree
      <3> QED BY <3>1 DEF NextSerial
    <2> QED BY <1>1, <1>4, <2>2, <2>3, <2>4, <2>5 DEF CommitDelta, Report, Set, Reply, At, Active
  <1> QED BY <1>2, <1>3, <1>4

(* Everything a request does once it was taken up.                         *)
RequestStep(w) ==
  \/ Preview(w) \/ ReadDoc(w) \/ ReadRows(w) \/ Mutate(w) \/ Rollback(w) \/ ReadTrunk(w)
  \/ CommitDelta(w) \/ OpFails(w) \/ Finish(w) \/ Crash(w)

LEMMA RequestAdvances ==
  ASSUME EngineInv, NEW w \in Op, RequestStep(w)
  PROVE  /\ EngineInv'
         /\ UNCHANGED <<versions, current, rows>> \/ Committed
         /\ UNCHANGED tags
         /\ op[w].pc # "idle" /\ Continues(op[w], op'[w])
         /\ \A v \in Op \ {w} : op'[v] = op[v]
  <1>0. StoreInv /\ BaselineStored /\ GenesisEmpty /\ op \in [Op -> OpRecord] /\ crashes \in 0..MaxCrash
    BY DEF EngineInv, EngineTypeOK, OpRecord
  <1>1. ASSUME NEW o \in OpRecord, op' = [op EXCEPT ![w] = o], OpFits(w, o)', Continues(op[w], o),
               op[w].pc # "idle", UNCHANGED <<tags, refresh>>, crashes' \in 0..MaxCrash,
               StoreInv', BaselineStored', GenesisEmpty',
               UNCHANGED <<versions, current, rows>> \/ Committed
        PROVE  /\ EngineInv'
               /\ UNCHANGED <<versions, current, rows>> \/ Committed
               /\ UNCHANGED tags
               /\ op[w].pc # "idle" /\ Continues(op[w], op'[w])
               /\ \A v \in Op \ {w} : op'[v] = op[v]
    <2>1. EngineTypeOK' /\ \A v \in Op : OpShape(v)'
      BY <1>1, OpAdvance
    <2>2. op'[w] = o /\ \A v \in Op \ {w} : op'[v] = op[v]
      BY <1>0, <1>1
    <2> QED BY <1>1, <2>1, <2>2 DEF EngineInv
  <1>2. CASE Preview(w) \/ ReadDoc(w) \/ ReadRows(w) \/ ReadTrunk(w) \/ OpFails(w)
    <2>1. /\ op[w].pc # "idle" /\ UNCHANGED <<storeVars, tags, refresh, crashes>>
          /\ \E o \in OpRecord : op' = [op EXCEPT ![w] = o] /\ OpFits(w, o)' /\ Continues(op[w], o)
      BY <1>2, ReadFits
    <2>2. StoreInv' /\ BaselineStored' /\ GenesisEmpty' /\ UNCHANGED <<versions, current, rows>>
      <3>1. UNCHANGED storeVars
        BY <2>1
      <3>2. [StoreNext]_storeVars
        BY <3>1
      <3> QED BY <1>0, <3>1, <3>2, StoreCommits DEF storeVars
    <2>3. UNCHANGED <<tags, refresh>> /\ crashes' \in 0..MaxCrash
      BY <1>0, <2>1
    <2> QED BY <1>1, <2>1, <2>2, <2>3
  <1>3. CASE Mutate(w) \/ Rollback(w) \/ CommitDelta(w)
    <2>1. /\ Active(op[w]) /\ UNCHANGED <<locks, exclusive, tags, refresh, crashes>>
          /\ current' \in Nat /\ op' = [op EXCEPT ![w] = Reply(current')]
          /\ Mutate(w) \/ StoreNext
      BY <1>3, WriteReports
    <2>2. PICK n : n = current'
      OBVIOUS
    <2>3. op[w].pc # "idle"
      BY <2>1 DEF Active
    <2>4. Reply(n) \in OpRecord /\ OpFits(w, Reply(n))' /\ Continues(op[w], Reply(n))
      BY <2>1, <2>2, <2>3, ReportFits
    <2>5. /\ StoreInv' /\ BaselineStored' /\ GenesisEmpty'
          /\ UNCHANGED <<versions, current, rows>> \/ Committed
      BY <1>0, <2>1, MutateCommits, StoreCommits
    <2>6. UNCHANGED <<tags, refresh>> /\ crashes' \in 0..MaxCrash
      BY <1>0, <2>1
    <2> QED BY <1>1, <2>1, <2>2, <2>3, <2>4, <2>5, <2>6
  <1>4. CASE Finish(w)
    <2>1. op[w].pc # "idle" /\ ReleaseStateEngineLock(w) /\ op' = [op EXCEPT ![w] = IdleOp]
          /\ UNCHANGED <<tags, refresh, crashes>>
      BY <1>4 DEF Finish, At, Set
    <2>2. [StoreNext]_storeVars /\ UNCHANGED <<versions, current, rows>>
      BY <2>1, EngineAssumption DEF StoreNext, LockNext, ReleaseStateEngineLock
    <2>3. StoreInv' /\ BaselineStored' /\ GenesisEmpty'
      BY <1>0, <2>2, StoreCommits
    <2>4. OpFits(w, IdleOp)' /\ Continues(op[w], IdleOp)
      BY <2>1, EndFits
    <2> QED BY <1>0, <1>1, <2>1, <2>2, <2>3, <2>4, IdleIsOp
  <1>5. CASE Crash(w)
    <2> DEFINE o == [IdleOp EXCEPT !.pc = "dead"]
    <2>1. op[w].pc # "idle" /\ op' = [op EXCEPT ![w] = o] /\ UNCHANGED <<storeVars, tags, refresh>>
          /\ crashes' \in 0..MaxCrash
      BY <1>0, <1>5, EngineAssumption DEF Crash, Set
    <2>2. UNCHANGED locks
      BY <2>1 DEF storeVars
    <2>3. o \in OpRecord /\ OpFits(w, o)' /\ Continues(op[w], o)
      BY <2>1, <2>2, EndFits
    <2>4. StoreInv' /\ BaselineStored' /\ GenesisEmpty' /\ UNCHANGED <<versions, current, rows>>
      <3>1. UNCHANGED storeVars
        BY <2>1
      <3>2. [StoreNext]_storeVars
        BY <3>1
      <3> QED BY <1>0, <3>1, <3>2, StoreCommits DEF storeVars
    <2> HIDE DEF o
    <2> QED BY <1>1, <2>1, <2>3, <2>4 DEF o
  <1> QED BY <1>2, <1>3, <1>4, <1>5 DEF RequestStep

(* A request taken up keeps the invariant.                                 *)
LEMMA BeginKeeps ==
  ASSUME EngineInv, NEW w \in Op, Begin(w)
  PROVE  /\ EngineInv' /\ UNCHANGED <<versions, current, rows, tags>> /\ op[w].pc = "idle"
         /\ \A v \in Op \ {w} : op'[v] = op[v]
  <1>1. /\ Held = {} /\ op[w].pc = "idle" /\ UNCHANGED <<versions, current, rows, tags, refresh, crashes>>
        /\ \E o \in OpRecord : op' = [op EXCEPT ![w] = o] /\ OpFits(w, o)'
    BY BeginFits
  <1>2. StoreInv /\ BaselineStored /\ GenesisEmpty /\ op \in [Op -> OpRecord] /\ crashes \in 0..MaxCrash
    BY DEF EngineInv, EngineTypeOK, OpRecord
  <1>3. EngineTypeOK' /\ \A v \in Op : OpShape(v)'
    BY <1>1, <1>2, OpAdvance
  <1>4. [StoreNext]_storeVars
    BY EngineAssumption DEF Begin, StoreNext, LockNext
  <1>5. StoreInv' /\ BaselineStored' /\ GenesisEmpty'
    BY <1>2, <1>4, StoreCommits
  <1> QED BY <1>1, <1>2, <1>3, <1>5 DEF EngineInv

-----------------------------------------------------------------------------
(* Tags and Terraform                                                      *)

(* A tag moves unless a replay is about to resolve it a second time.       *)
LEMMA TaggingKeeps ==
  ASSUME EngineInv, NEW t \in Tag, ~ Resolving(t), Tagging(t)
  PROVE  /\ EngineInv' /\ UNCHANGED <<storeVars, op>>
         /\ \A s \in Tag \ {t} : tags'[s] = tags[s]
  <1>1. /\ UNCHANGED <<versions, current, rows, locks, exclusive, op, refresh, crashes>>
        /\ \E s \in Nat \cup {NoVersion} : tags' = [tags EXCEPT ![t] = s]
    <2>1. CASE UnsetTag(t)
      BY <2>1 DEF UnsetTag, storeVars
    <2>2. ASSUME NEW ref \in Refs, SetTag(t, ref)
          PROVE  /\ UNCHANGED <<versions, current, rows, locks, exclusive, op, refresh, crashes>>
                 /\ \E s \in Nat \cup {NoVersion} : tags' = [tags EXCEPT ![t] = s]
      BY <2>2, ResolveFacts DEF SetTag, storeVars, EngineInv, StoreInv
    <2> QED BY <2>1, <2>2 DEF Tagging
  <1>2. tags \in [Tag -> Nat \cup {NoVersion}] /\ op \in [Op -> OpRecord]
    BY DEF EngineInv, EngineTypeOK, OpRecord
  <1>3. \A s \in Tag \ {t} : tags'[s] = tags[s]
    BY <1>1, <1>2
  <1>4. EngineTypeOK'
    BY <1>1, <1>2 DEF EngineInv, EngineTypeOK
  <1>5. StoreInv' /\ BaselineStored' /\ GenesisEmpty' /\ UNCHANGED storeVars
    <2>1. UNCHANGED storeVars
      BY <1>1 DEF storeVars
    <2>2. [StoreNext]_storeVars
      BY <2>1
    <2> QED BY <2>1, <2>2, StoreCommits DEF EngineInv
  <1>6. ASSUME NEW w \in Op PROVE OpShape(w)'
    <2>1. PICK o : o = op[w]
      OBVIOUS
    <2>2. OpFits(w, o) /\ op'[w] = o
      BY <1>1, <2>1 DEF EngineInv, OpShape
    <2>3. Worded(o) => Worded(o)'
      BY <1>1 DEF Worded
    <2>4. Planned(o) => Pinned(o)'
      <3> SUFFICES ASSUME Planned(o) PROVE Pinned(o)'
        OBVIOUS
      <3>1. Pinned(o) /\ Worded(o)
        BY <2>2 DEF OpFits, Active, Planned
      <3>2. ASSUME o.kind = "replay", o.pc = "previewed" \/ o.ref.kind # "tag"
            PROVE  Resolve(o.ref)' = Resolve(o.ref)
        <4>1. o.ref \in Refs
          BY <3>1, <3>2 DEF Worded
        <4>2. o.ref.kind = "tag" => o.ref.tag # t
          BY <2>1, <3>2 DEF Resolving, At
        <4>3. o.ref.kind = "tag" => tags'[o.ref.tag] = tags[o.ref.tag]
          BY <1>3, <4>1, <4>2, EngineAssumption
        <4> QED BY <1>1, <4>1, <4>3, ResolveSame
      <3> QED BY <1>1, <3>1, <3>2 DEF Pinned
    <2>5. (o.doc = Patch(o, versions[current]))' <=> o.doc = Patch(o, versions[current])
      BY <1>1, PatchSame
    <2>6. RowChange(o)' = RowChange(o)
      BY <1>1, RowChangeSame
    <2>7. OpFits(w, o)'
      BY <1>1, <2>2, <2>3, <2>4, <2>5, <2>6 DEF OpFits, Active, Planned, HasInstance, Held
    <2> QED BY <2>2, <2>7 DEF OpShape
  <1> QED BY <1>1, <1>3, <1>4, <1>5, <1>6 DEF EngineInv


(* Plain Terraform stays out while a request holds the lock; all it may    *)
(* then still bring about is the genesis of a state without a version.     *)
LEMMA TerraformKeeps ==
  ASSUME EngineInv, Terraform
  PROVE  /\ EngineInv' /\ UNCHANGED <<op, tags>>
         /\ UNCHANGED <<versions, current, rows>> \/ Committed
  <1>0. /\ StoreInv /\ BaselineStored /\ GenesisEmpty /\ StoreTypeOK /\ HistoryGapFree
        /\ UNCHANGED <<op, tags, refresh, crashes>>
    BY DEF EngineInv, StoreInv, Terraform
  <1>1. StoreNext
    BY <1>0, EngineAssumption, EmptyDocIsDoc DEF Terraform, StoreNext, LockNext, WriteNext, TfLock
  <1>2. StoreInv' /\ BaselineStored' /\ GenesisEmpty' /\ (UNCHANGED <<versions, current, rows>> \/ Committed)
    BY <1>0, <1>1, StoreCommits
  <1>3. EngineTypeOK'
    BY <1>0 DEF EngineInv, EngineTypeOK
  <1>4. ASSUME NEW w \in Op PROVE OpShape(w)'
    <2>1. PICK o : o = op[w]
      OBVIOUS
    <2>2. OpFits(w, o) /\ op'[w] = o
      BY <1>0, <2>1 DEF EngineInv, OpShape
    <2>3. CASE o.pc = "idle"
      BY <2>2, <2>3 DEF OpShape, OpFits, Active, Planned
    <2>4. CASE o.pc # "idle"
      <3>1. locks[w].kind = "engine" /\ Held = {w}
        BY <2>2, <2>4 DEF OpFits
      <3>2. \A l \in TfLock : l # w /\ l \in LockId /\ locks[l].kind = "none"
        BY <3>1 DEF TfLock, Held, NoLock
      <3>3. ~ \E l \in TfLock : AcquireLock(l) \/ ReleaseLock(l)
        BY <3>1, <3>2 DEF AcquireLock, ReleaseLock
      <3>4. ~ ForceReleaseLock
        <4>1. \A l \in LockId : l # w => locks[l].kind = "none"
          BY <3>1 DEF Held, NoLock
        <4> QED BY <3>1, <4>1 DEF ForceReleaseLock
      <3>5. ~ \E l \in TfLock \cup {NoLockId}, doc \in PostedDoc : WriteState(l, doc)
        BY <3>1, <3>2, EngineAssumption, StoreAssumption DEF WriteState, LockCheckPasses, TfLock
      <3>6. EnsureCurrentStateInfo
        BY <3>3, <3>4, <3>5 DEF Terraform
      <3>7. current = NoVersion /\ UNCHANGED locks /\ current' = 0 /\ DOMAIN versions \subseteq DOMAIN versions'
        BY <3>6 DEF EnsureCurrentStateInfo, CommitDoc, InsertVersion
      <3>8. ~ Planned(o) /\ o.pc # "fresh" /\ ~ (o.pc = "done" /\ o.serial > 0)
        <4>1. o.serial \in Nat
          BY <2>1 DEF EngineInv, EngineTypeOK
        <4> QED BY <2>2, <3>7, <4>1 DEF OpFits, Pinned, NoVersion
      <3>9. Worded(o) => Worded(o)'
        BY <3>7 DEF Worded
      <3> QED BY <2>2, <3>1, <3>7, <3>8, <3>9 DEF OpShape, OpFits, Active, Planned, Held
    <2> QED BY <2>3, <2>4
  <1> QED BY <1>0, <1>2, <1>3, <1>4 DEF EngineInv

(* Nothing but the commands moves.                                         *)
LEMMA QuietKeeps ==
  ASSUME EngineInv, UNCHANGED engineVars
  PROVE  EngineInv' /\ UNCHANGED <<versions, current, rows, op, tags>>
  <1>1. UNCHANGED <<versions, current, rows, locks, exclusive, op, tags, refresh, crashes>>
    BY DEF engineVars, storeVars
  <1>2. EngineTypeOK'
    BY <1>1 DEF EngineInv, EngineTypeOK
  <1>3. StoreInv' /\ BaselineStored' /\ GenesisEmpty'
    <2>1. [StoreNext]_storeVars
      BY <1>1 DEF storeVars
    <2> QED BY <2>1, StoreCommits DEF EngineInv
  <1>4. ASSUME NEW w \in Op PROVE OpShape(w)'
    <2>1. PICK o : o = op[w]
      OBVIOUS
    <2>2. OpFits(w, o) /\ op'[w] = o
      BY <1>1, <2>1 DEF EngineInv, OpShape
    <2>3. Active(o) => Worded(o)'
      BY <1>1, <2>2 DEF OpFits, Worded
    <2>4. ASSUME Planned(o) PROVE Pinned(o)'
      <3>1. Pinned(o) /\ Worded(o)
        BY <2>2, <2>4 DEF OpFits, Active, Planned
      <3>2. o.kind = "replay" => Resolve(o.ref)' = Resolve(o.ref)
        BY <1>1, <3>1, ResolveSame DEF Worded
      <3> QED BY <1>1, <3>1, <3>2 DEF Pinned
    <2>5. (o.doc = Patch(o, versions[current]))' <=> o.doc = Patch(o, versions[current])
      BY <1>1, PatchSame
    <2>6. RowChange(o)' = RowChange(o)
      BY <1>1, RowChangeSame
    <2>7. OpFits(w, o)'
      BY <1>1, <2>2, <2>3, <2>4, <2>5, <2>6 DEF OpFits, Active, Planned, HasInstance, Held
    <2> QED BY <2>2, <2>7 DEF OpShape
  <1> QED BY <1>1, <1>2, <1>3, <1>4 DEF EngineInv


-----------------------------------------------------------------------------
(* The commands                                                            *)

CliRecord ==
  [pc : {"idle", "asked", "shown", "resolving", "resolved", "sent"},
   cmd : Command \cup {NoCommand}, base : Nat, shown : Nat, diff : SUBSET Addr, cur : Nat, target : Nat]

ByTag(c)     == c.cmd.ref.kind = "tag"
ByVersion(c) == c.cmd.kind \in {"rollback", "replay"}

(* The rows alive at a version give each address its content there.        *)
LEMMA AliveContent ==
  ASSUME StoreInv, NEW s \in DOMAIN versions, NEW a \in Addr
  PROVE  {r.attr : r \in {q \in rows : q.addr = a /\ Alive(q, s)}}
           = IF versions[s].res[a].attr = NoAttr THEN {} ELSE {versions[s].res[a].attr}
  <1> DEFINE alive == {q \in rows : q.addr = a /\ Alive(q, s)}
  <1>1. s \in Nat /\ rows \subseteq ResourceRow
    BY DEF StoreInv, StoreTypeOK
  <1>2. \A q \in rows : Alive(q, s) <=> Covers(q, s)
    BY <1>1 DEF Alive, Covers, ResourceRow, IsOpen, Open
  <1>3. \A q \in alive : q.attr = versions[s].res[a].attr /\ q.attr # NoAttr
    BY <1>1, <1>2, DocAssumption DEF StoreInv, RowsMatchHistory, ResourceRow
  <1>4. versions[s].res[a].attr # NoAttr => \E q \in alive : TRUE
    BY <1>2 DEF StoreInv, RowsMatchHistory
  <1> HIDE DEF alive
  <1>5. {r.attr : r \in alive} = IF versions[s].res[a].attr = NoAttr THEN {} ELSE {versions[s].res[a].attr}
    BY <1>3, <1>4
  <1> QED BY <1>5 DEF alive

LEMMA DiffIsChanges ==
  ASSUME StoreInv, NEW s \in DOMAIN versions, NEW t \in DOMAIN versions
  PROVE  DiffVersionAddresses(s, t) = Changes(versions[s], versions[t])
  <1>1. ASSUME NEW a \in Addr
        PROVE  {r.attr : r \in {q \in rows : q.addr = a /\ Alive(q, s)}}
                 # {r.attr : r \in {q \in rows : q.addr = a /\ Alive(q, t)}}
               <=> versions[s].res[a].attr # versions[t].res[a].attr
    <2>1. PICK x, y : x = versions[s].res[a].attr /\ y = versions[t].res[a].attr
      OBVIOUS
    <2> DEFINE X == IF x = NoAttr THEN {} ELSE {x}
               Y == IF y = NoAttr THEN {} ELSE {y}
    <2>2. X # Y <=> x # y
      <3>1. CASE x = y
        BY <3>1
      <3>2. CASE x # y
        <4>1. CASE x # NoAttr
          BY <3>2, <4>1, x \in X /\ x \notin Y
        <4>2. CASE x = NoAttr
          BY <3>2, <4>2, y \in Y /\ y \notin X
        <4> QED BY <4>1, <4>2
      <3> QED BY <3>1, <3>2
    <2> HIDE DEF X, Y
    <2>3. /\ X = {r.attr : r \in {q \in rows : q.addr = a /\ Alive(q, s)}}
          /\ Y = {r.attr : r \in {q \in rows : q.addr = a /\ Alive(q, t)}}
      BY <2>1, AliveContent DEF X, Y
    <2> QED BY <2>1, <2>2, <2>3
  <1> QED BY <1>1 DEF DiffVersionAddresses, Changes

(* A reference that still means what it meant at the preview.              *)
Settled(c) == ByVersion(c) /\ (c.cmd.ref.kind = "serial" \/ (current = c.base /\ ~ ByTag(c)))

(* What the preview found of two versions, and what a strict one insisted  *)
(* on; no later commit changes it.                                         *)
Shown(c) ==
  /\ c.base \in DOMAIN versions /\ c.shown \in DOMAIN versions
  /\ c.cmd.kind = "rollback" => c.diff = Changes(versions[c.base], versions[c.shown])
  /\ Settled(c) => c.shown = Resolve(c.cmd.ref)
  /\ c.cmd.strict => /\ versions[c.shown].res[c.cmd.from].attr # NoAttr
                     /\ \A a \in Addr : ~ DependsOn(versions[c.base].res[a].attr, c.cmd.from)

(* A command and its request.                                              *)
CliFits(c, o) ==
  /\ c.pc # "idle" => /\ c.cmd \in Command /\ current # NoVersion
                      /\ c.base <= current /\ c.base \in DOMAIN versions
  /\ c.pc \in {"shown", "resolving", "resolved", "sent"} => Shown(c)
  /\ c.pc \in {"resolved", "sent"} /\ c.cmd.kind = "rollback" =>
       /\ c.target \in DOMAIN versions
       /\ Settled(c) => c.target = c.shown
  /\ Active(o) /\ o.kind # "apply" => c.pc = "sent" /\ Carries(o, c)

(* The inductive invariant.                                                *)
CommandInv ==
  /\ EngineInv
  /\ cli \in [Op -> CliRecord]
  /\ \A w \in Op : CliFits(cli[w], op[w])

LEMMA CommandFacts ==
  ASSUME NEW cmd \in Command
  PROVE  /\ cmd.kind \in {"rollback", "replay", "remove", "move"} /\ cmd.strict \in BOOLEAN
         /\ cmd.kind \in {"rollback", "replay"} => cmd.ref \in Refs
         /\ cmd.kind \notin {"rollback", "replay"} => cmd.ref = NoRef
         /\ cmd.strict => cmd.kind = "replay"
  BY DEF Command

(* A serial in use means the same for ever.                                *)
LEMMA SerialStays ==
  ASSUME StoreTypeOK, Committed, NEW ref, ref.kind = "serial", Resolve(ref) \in DOMAIN versions
  PROVE  Resolve(ref)' = Resolve(ref)
  <1>1. Resolve(ref) = IF {s \in DOMAIN versions : s = ref.n} = {} THEN NoVersion
                       ELSE CHOOSE s \in {s \in DOMAIN versions : s = ref.n} : TRUE
    BY DEF Resolve
  <1>2. Resolve(ref)' = IF {s \in DOMAIN versions' : s = ref.n} = {} THEN NoVersion
                        ELSE CHOOSE s \in {s \in DOMAIN versions' : s = ref.n} : TRUE
    BY DEF Resolve
  <1>3. NoVersion \notin DOMAIN versions
    BY DEF StoreTypeOK, NoVersion
  <1>4. ref.n \in DOMAIN versions /\ ref.n \in DOMAIN versions'
    BY <1>1, <1>3 DEF Committed
  <1>5. {s \in DOMAIN versions : s = ref.n} = {ref.n} /\ {s \in DOMAIN versions' : s = ref.n} = {ref.n}
    BY <1>4
  <1> QED BY <1>1, <1>2, <1>5

(* What a preview found stays so whatever is committed.                    *)
LEMMA ShownKept ==
  ASSUME StoreTypeOK, NEW c, c.cmd \in Command, Shown(c),
         UNCHANGED <<versions, current>> \/ (Committed /\ current' # c.base)
  PROVE  Shown(c)'
  <1>1. /\ c.base \in DOMAIN versions' /\ versions'[c.base] = versions[c.base]
        /\ c.shown \in DOMAIN versions' /\ versions'[c.shown] = versions[c.shown]
    BY DEF Shown, Committed
  <1>2. ASSUME Settled(c)' PROVE c.shown = Resolve(c.cmd.ref)'
    <2>1. Settled(c) /\ c.shown = Resolve(c.cmd.ref)
      BY <1>2 DEF Settled, Shown, ByVersion, ByTag
    <2>2. CASE UNCHANGED <<versions, current>>
      <3>1. c.cmd.ref.kind # "tag" /\ c.cmd.ref \in Refs
        BY <2>1, CommandFacts DEF Settled, ByVersion, ByTag
      <3> QED BY <2>1, <2>2, <3>1, ResolveSame
    <2>3. CASE Committed /\ current' # c.base
      <3>1. c.cmd.ref.kind = "serial"
        BY <1>2, <2>3 DEF Settled
      <3> QED BY <2>1, <2>3, <3>1, SerialStays DEF Shown
    <2> QED BY <2>2, <2>3
  <1> QED BY <1>1, <1>2 DEF Shown, Changes

(* Whatever happens to the state and to the request leaves a command as it *)
(* should be.                                                              *)
LEMMA CliFrame ==
  ASSUME StoreTypeOK, NEW c \in CliRecord, NEW p, NEW o, CliFits(c, p), Continues(p, o),
         UNCHANGED <<versions, current, rows>> \/ Committed
  PROVE  CliFits(c, o)'
  <1>1. Active(o) /\ o.kind # "apply" => c.pc = "sent" /\ Carries(o, c)
    BY DEF CliFits, Continues, Carries
  <1>2. CASE UNCHANGED <<versions, current, rows>>
    BY <1>1, <1>2, ShownKept DEF CliFits, Settled
  <1>3. CASE Committed
    <2>1. c.base \in Nat /\ current \in Nat \cup {NoVersion}
      BY DEF CliRecord, StoreTypeOK
    <2>2. c.pc # "idle" => /\ current' # NoVersion /\ c.base <= current' /\ current' # c.base
                           /\ c.base \in DOMAIN versions'
      BY <1>3, <2>1 DEF CliFits, Committed, NoVersion
    <2>3. c.target \in DOMAIN versions => c.target \in DOMAIN versions'
      BY <1>3 DEF Committed
    <2>4. c.pc # "idle" => c.cmd \in Command
      BY DEF CliFits
    <2>5. c.pc \in {"resolved", "sent"} /\ c.cmd.kind = "rollback" => c.target \in DOMAIN versions'
      BY <2>3 DEF CliFits
    <2>6. c.pc \in {"shown", "resolving", "resolved", "sent"} => Shown(c)'
      BY <1>3, <2>2, <2>4, ShownKept DEF CliFits
    <2>7. c.pc # "idle" /\ Settled(c)' => Settled(c)
      BY <2>2 DEF Settled
    <2> QED BY <1>1, <2>2, <2>4, <2>5, <2>6, <2>7 DEF CliFits
  <1> QED BY <1>2, <1>3


LEMMA NoSessionFacts ==
  /\ NoSession \in CliRecord /\ NoSession.pc = "idle"
  /\ \A p : ~ (Active(p) /\ p.kind # "apply") => CliFits(NoSession, p)
  <1>1. NoSession \in CliRecord /\ NoSession.pc = "idle"
    BY DEF NoSession, CliRecord
  <1> QED BY <1>1 DEF CliFits

(* One command moves, the others stay.                                     *)
LEMMA CliAdvance ==
  ASSUME CommandInv, EngineInv', UNCHANGED <<versions, current, rows>> \/ Committed,
         NEW w \in Op, NEW c \in CliRecord, cli' = [cli EXCEPT ![w] = c],
         NEW o, o = op'[w], CliFits(c, o)', \A v \in Op \ {w} : op'[v] = op[v]
  PROVE  CommandInv'
  <1>1. /\ cli \in [Op -> CliRecord] /\ StoreTypeOK
        /\ \A v \in Op : CliFits(cli[v], op[v])
    BY DEF CommandInv, EngineInv, StoreInv
  <1>2. cli' \in [Op -> CliRecord] /\ cli'[w] = c /\ \A v \in Op \ {w} : cli'[v] = cli[v]
    BY <1>1
  <1>3. ASSUME NEW v \in Op \ {w} PROVE CliFits(cli[v], op[v])'
    <2>1. PICK x \in CliRecord : x = cli[v]
      BY <1>1
    <2>2. PICK p : p = op[v]
      OBVIOUS
    <2>3. CliFits(x, p) /\ Continues(p, p)
      BY <1>1, <2>1, <2>2 DEF Continues
    <2>4. CliFits(x, p)'
      BY <1>1, <2>3, CliFrame
    <2> QED BY <1>2, <2>1, <2>2, <2>4
  <1> QED BY <1>2, <1>3 DEF CommandInv

(* The commands wait while their requests go on.                           *)
LEMMA CliStays ==
  ASSUME CommandInv, EngineInv', UNCHANGED <<versions, current, rows>> \/ Committed,
         UNCHANGED cli, \A v \in Op : Continues(op[v], op'[v])
  PROVE  CommandInv'
  <1>1. /\ cli \in [Op -> CliRecord] /\ StoreTypeOK
        /\ \A v \in Op : CliFits(cli[v], op[v])
    BY DEF CommandInv, EngineInv, StoreInv
  <1>2. ASSUME NEW v \in Op PROVE CliFits(cli[v], op[v])'
    <2>1. PICK x \in CliRecord : x = cli[v]
      BY <1>1
    <2>2. PICK p : p = op[v]
      OBVIOUS
    <2>3. PICK o : o = op'[v]
      OBVIOUS
    <2>4. CliFits(x, p) /\ Continues(p, o)
      BY <1>1, <2>1, <2>2, <2>3
    <2>5. CliFits(x, o)'
      BY <1>1, <2>4, CliFrame
    <2> QED BY <2>1, <2>3, <2>5
  <1> QED BY <1>1, <1>2 DEF CommandInv

(* What the preview found is a matter of the words and the reads.          *)
LEMMA ShownOfWords ==
  ASSUME NEW x, NEW c, Shown(x), c.cmd = x.cmd, c.base = x.base, c.shown = x.shown, c.diff = x.diff
  PROVE  Shown(c)
  BY DEF Shown, Settled, ByVersion, ByTag

(* What a strict preview lets pass.                                        *)
LEMMA StrictFound ==
  ASSUME StoreInv, GenesisEmpty, NEW cmd \in Command, NEW s \in DOMAIN versions, NEW t \in DOMAIN versions,
         cmd.strict, ~ StrictRejects(cmd, s, t)
  PROVE  /\ versions[t].res[cmd.from].attr # NoAttr
         /\ \A a \in Addr : ~ DependsOn(versions[s].res[a].attr, cmd.from)
  <1>1. CurrentDependents(s, cmd.from) = {} /\ AttrAt(cmd.from, t) # NoAttr
    BY DEF StrictRejects
  <1>2. cmd.from \in Addr
    BY DEF Command
  <1>3. versions[t].res[cmd.from].attr # NoAttr
    BY <1>1, <1>2, AttrAtVersion
  <1>4. ASSUME NEW a \in Addr, DependsOn(versions[s].res[a].attr, cmd.from)
        PROVE  FALSE
    <2>1. PICK x : x = versions[s].res[a].attr
      OBVIOUS
    <2>2. x # NoAttr
      BY <1>2, <1>4, <2>1, DependencyAssumption
    <2>3. {r.attr : r \in {q \in rows : q.addr = a /\ Alive(q, s)}} = {x}
      BY <2>1, <2>2, AliveContent
    <2>4. PICK r \in rows : Alive(r, s) /\ r.attr = x
      BY <2>3
    <2> QED BY <1>1, <1>4, <2>1, <2>4 DEF CurrentDependents
  <1> QED BY <1>3, <1>4

(* A step of a command alone.                                              *)
LEMMA CliMoves ==
  ASSUME CommandInv, UNCHANGED engineVars, NEW w \in Op,
         NEW c \in CliRecord, cli' = [cli EXCEPT ![w] = c], CliFits(c, op[w])
  PROVE  CommandInv'
  <1>1. EngineInv' /\ UNCHANGED <<versions, current, rows, op, tags>>
    BY QuietKeeps DEF CommandInv
  <1>2. PICK p : p = op[w]
    OBVIOUS
  <1>3. Continues(p, p) /\ StoreTypeOK
    BY DEF Continues, CommandInv, EngineInv, StoreInv
  <1>4. CliFits(c, p)'
    BY <1>1, <1>2, <1>3, CliFrame
  <1> QED BY <1>1, <1>2, <1>4, CliAdvance

LEMMA CliStep ==
  ASSUME CommandInv, NEW w \in Op,
         \/ \E cmd \in Command : Ask(w, cmd)
         \/ Show(w) \/ Cancel(w) \/ ReadCurrent(w) \/ ResolveTarget(w) \/ Refused(w)
  PROVE  CommandInv'
  <1>1. UNCHANGED engineVars
    BY DEF Ask, Show, Cancel, ReadCurrent, ResolveTarget, Refused
  <1>2. PICK x \in CliRecord : x = cli[w]
    BY DEF CommandInv
  <1>3. PICK p : p = op[w]
    OBVIOUS
  <1>4. /\ CliFits(x, p) /\ StoreTypeOK /\ HistoryGapFree /\ StoreInv /\ GenesisEmpty
        /\ x.base \in Nat /\ x.cmd \in Command \cup {NoCommand} /\ current \in Nat \cup {NoVersion}
    BY <1>2, <1>3 DEF CommandInv, EngineInv, StoreInv, StoreTypeOK, CliRecord
  <1>5. ASSUME NEW c \in CliRecord, cli' = [cli EXCEPT ![w] = c], CliFits(c, p) PROVE CommandInv'
    BY <1>1, <1>3, <1>5, CliMoves
  <1>6. ASSUME Exit(w), x.pc # "sent" PROVE CommandInv'
    <2>1. ~ (Active(p) /\ p.kind # "apply")
      BY <1>4, <1>6 DEF CliFits
    <2>2. CliFits(NoSession, p) /\ NoSession \in CliRecord
      BY <2>1, NoSessionFacts
    <2> QED BY <1>5, <1>6, <2>2 DEF Exit, Session
  <1>7. ASSUME NEW cmd \in Command, Ask(w, cmd) PROVE CommandInv'
    <2> DEFINE e == [NoSession EXCEPT !.pc = "asked", !.cmd = cmd, !.base = current]
    <2>1. current # NoVersion /\ p.pc = "idle" /\ cli' = [cli EXCEPT ![w] = e]
      BY <1>3, <1>7 DEF Ask, At, Session
    <2>2. PICK c : c = e
      OBVIOUS
    <2>3. c \in CliRecord /\ c.pc = "asked" /\ c.cmd = cmd /\ c.base = current
      BY <1>4, <2>1, <2>2 DEF NoSession, CliRecord
    <2> HIDE DEF e
    <2>4. CliFits(c, p)
      BY <1>4, <2>1, <2>3 DEF CliFits, Active, HistoryGapFree
    <2> QED BY <1>5, <2>1, <2>2, <2>3, <2>4
  <1>8. CASE Show(w)
    <2> DEFINE target == IF x.cmd.kind \in {"rollback", "replay"} THEN Resolve(x.cmd.ref) ELSE x.base
               e == [x EXCEPT !.pc = "shown", !.shown = target,
                              !.diff = IF x.cmd.kind = "rollback"
                                       THEN DiffVersionAddresses(x.base, target) ELSE {}]
    <2>1. /\ x.pc = "asked" /\ (Pointless(x, target) => Exit(w))
          /\ ~ Pointless(x, target) => cli' = [cli EXCEPT ![w] = e]
      BY <1>2, <1>8 DEF Show, Cli, Session
    <2>2. CASE ~ Pointless(x, target)
      <3>1. x.cmd \in Command /\ current # NoVersion /\ x.base <= current /\ x.base \in DOMAIN versions
        BY <1>4, <2>1 DEF CliFits
      <3>2. PICK s : s = target
        OBVIOUS
      <3>3. ByVersion(x) => s = Resolve(x.cmd.ref) /\ s # NoVersion /\ s \in DOMAIN versions /\ s \in Nat
        <4>1. ByVersion(x) => s = Resolve(x.cmd.ref) /\ s # NoVersion
          BY <2>2, <3>2 DEF ByVersion, Pointless
        <4> QED BY <1>4, <4>1, ResolveFacts
      <3>4. ~ ByVersion(x) => s = x.base
        BY <3>2 DEF ByVersion
      <3>5. ~ StrictRejects(x.cmd, x.base, s)
        <4>1. CASE x.cmd.kind = "replay"
          BY <2>2, <3>2, <4>1 DEF Pointless
        <4>2. CASE x.cmd.kind # "replay"
          BY <3>1, <4>2, CommandFacts DEF StrictRejects
        <4> QED BY <4>1, <4>2
      <3>6. PICK d \in SUBSET Addr :
              d = IF x.cmd.kind = "rollback" THEN DiffVersionAddresses(x.base, s) ELSE {}
        BY DEF DiffVersionAddresses
      <3>7. PICK c : c = e
        OBVIOUS
      <3>8. c = [x EXCEPT !.pc = "shown", !.shown = s, !.diff = d]
        BY <3>2, <3>6, <3>7
      <3> HIDE DEF e, target
      <3>9. /\ c \in CliRecord /\ c.pc = "shown" /\ c.cmd = x.cmd /\ c.base = x.base /\ c.shown = s /\ c.diff = d
        BY <1>4, <3>3, <3>4, <3>8 DEF CliRecord
      <3>10. Shown(c)
        <4>1. c.base \in DOMAIN versions /\ c.shown \in DOMAIN versions
          BY <3>1, <3>3, <3>4, <3>9
        <4>2. c.cmd.kind = "rollback" => c.diff = Changes(versions[c.base], versions[c.shown])
          BY <1>4, <3>6, <3>9, <4>1, DiffIsChanges
        <4>3. Settled(c) => c.shown = Resolve(c.cmd.ref)
          BY <3>3, <3>9 DEF Settled, ByVersion
        <4>4. c.cmd.strict => /\ versions[c.shown].res[c.cmd.from].attr # NoAttr
                              /\ \A a \in Addr : ~ DependsOn(versions[c.base].res[a].attr, c.cmd.from)
          BY <1>4, <3>1, <3>5, <3>9, <4>1, StrictFound
        <4> QED BY <4>1, <4>2, <4>3, <4>4 DEF Shown
      <3>11. ~ (Active(p) /\ p.kind # "apply")
        BY <1>4, <2>1 DEF CliFits
      <3>12. CliFits(c, p)
        BY <3>1, <3>9, <3>10, <3>11 DEF CliFits
      <3> QED BY <1>5, <2>1, <2>2, <3>7, <3>9, <3>12
    <2> QED BY <1>6, <2>1, <2>2
  <1>9. CASE Cancel(w)
    BY <1>2, <1>6, <1>9 DEF Cancel
  <1>10. CASE ReadCurrent(w)
    <2> DEFINE e == [x EXCEPT !.pc = "resolving", !.cur = current]
    <2>1. x.pc = "shown" /\ cli' = [cli EXCEPT ![w] = e]
      BY <1>2, <1>10 DEF ReadCurrent, Cli, Session
    <2>2. current \in Nat
      BY <1>4, <2>1 DEF CliFits
    <2>3. PICK c : c = e
      OBVIOUS
    <2>4. /\ c \in CliRecord /\ c.pc = "resolving" /\ c.cmd = x.cmd /\ c.base = x.base
          /\ c.shown = x.shown /\ c.diff = x.diff
      BY <2>2, <2>3 DEF CliRecord
    <2> HIDE DEF e
    <2>5. Shown(x) => Shown(c)
      BY <2>4, ShownOfWords
    <2>6. CliFits(c, p)
      BY <1>4, <2>1, <2>4, <2>5 DEF CliFits
    <2> QED BY <1>5, <2>1, <2>3, <2>4, <2>6
  <1>11. CASE ResolveTarget(w)
    <2> DEFINE target == Resolve(x.cmd.ref)
               e == [x EXCEPT !.pc = "resolved", !.target = target]
               stop == target \in {NoVersion, x.cur}
    <2>1. x.pc = "resolving" /\ (stop => Exit(w)) /\ (~ stop => cli' = [cli EXCEPT ![w] = e])
      BY <1>2, <1>11 DEF ResolveTarget, Cli, Session
    <2>2. CASE ~ stop
      <3>1. PICK s : s = target
        OBVIOUS
      <3>2. s \in DOMAIN versions /\ s \in Nat /\ s = Resolve(x.cmd.ref)
        BY <1>4, <2>2, <3>1, ResolveFacts
      <3>3. PICK c : c = e
        OBVIOUS
      <3>4. c = [x EXCEPT !.pc = "resolved", !.target = s]
        BY <3>1, <3>3
      <3> HIDE DEF e, target, stop
      <3>5. /\ c \in CliRecord /\ c.pc = "resolved" /\ c.cmd = x.cmd /\ c.base = x.base
            /\ c.shown = x.shown /\ c.diff = x.diff /\ c.target = s
        BY <3>2, <3>4 DEF CliRecord
      <3>6. Shown(x) => Shown(c)
        BY <3>5, ShownOfWords
      <3>7. Settled(c) => c.target = c.shown
        BY <1>4, <2>1, <3>2, <3>5 DEF CliFits, Shown, Settled, ByVersion, ByTag
      <3>8. CliFits(c, p)
        BY <1>4, <2>1, <3>2, <3>5, <3>6, <3>7 DEF CliFits
      <3> QED BY <1>5, <2>1, <2>2, <3>3, <3>5, <3>8
    <2> QED BY <1>6, <2>1, <2>2
  <1>12. CASE Refused(w)
    BY <1>2, <1>6, <1>12 DEF Refused, Cli
  <1> QED BY <1>7, <1>8, <1>9, <1>10, <1>11, <1>12


(* A command that sends its request, and a request of kl apply.            *)
LEMMA CliSends ==
  ASSUME CommandInv, NEW w \in Op, Send(w) \/ BeginApply(w)
  PROVE  CommandInv'
  <1>1. Begin(w)
    BY DEF Send, BeginApply
  <1>2. /\ EngineInv' /\ UNCHANGED <<versions, current, rows, tags>> /\ op[w].pc = "idle"
        /\ \A v \in Op \ {w} : op'[v] = op[v]
    BY <1>1, BeginKeeps DEF CommandInv
  <1>3. PICK x \in CliRecord : x = cli[w]
    BY DEF CommandInv
  <1>4. PICK o : o = op'[w]
    OBVIOUS
  <1>5. CliFits(x, op[w]) /\ StoreTypeOK /\ cli \in [Op -> CliRecord]
    BY <1>3 DEF CommandInv, EngineInv, StoreInv
  <1>6. CASE Send(w)
    <2> DEFINE e == [x EXCEPT !.pc = "sent"]
    <2>1. /\ x.pc = IF x.cmd.kind = "rollback" THEN "resolved" ELSE "shown"
          /\ Carries(o, x) /\ cli' = [cli EXCEPT ![w] = e]
      BY <1>3, <1>4, <1>6 DEF Send, Cli, Session
    <2>2. PICK c : c = e
      OBVIOUS
    <2>3. /\ c \in CliRecord /\ c.pc = "sent" /\ c.cmd = x.cmd /\ c.base = x.base
          /\ c.shown = x.shown /\ c.diff = x.diff /\ c.target = x.target
      BY <2>2 DEF CliRecord
    <2> HIDE DEF e
    <2>4. Shown(x) => Shown(c)
      BY <2>3, ShownOfWords
    <2>5. Carries(o, c)
      BY <2>1, <2>3 DEF Carries
    <2>6. CliFits(c, o)
      BY <1>5, <2>1, <2>3, <2>4, <2>5 DEF CliFits, Settled, ByVersion, ByTag
    <2>7. Continues(o, o)
      BY DEF Continues
    <2>8. CliFits(c, o)'
      BY <1>2, <1>5, <2>3, <2>6, <2>7, CliFrame
    <2> QED BY <1>2, <1>4, <2>1, <2>2, <2>3, <2>8, CliAdvance
  <1>7. CASE BeginApply(w)
    <2>1. o.kind = "apply" /\ cli' = cli
      BY <1>4, <1>7 DEF BeginApply
    <2>2. CliFits(x, o)
      BY <1>5, <2>1 DEF CliFits
    <2>3. Continues(o, o) /\ cli' = [cli EXCEPT ![w] = x]
      BY <1>3, <1>5, <2>1 DEF Continues
    <2>4. CliFits(x, o)'
      BY <1>2, <1>5, <2>2, <2>3, CliFrame
    <2> QED BY <1>2, <1>4, <2>3, <2>4, CliAdvance
  <1> QED BY <1>6, <1>7

(* The answer to a command, or the end of whoever waited for it.           *)
LEMMA CliEnds ==
  ASSUME CommandInv, NEW w \in Op, Answered(w) \/ Lost(w)
  PROVE  CommandInv'
  <1>1. RequestStep(w) /\ cli' = [cli EXCEPT ![w] = NoSession]
    BY DEF Answered, Lost, RequestStep, Exit, Session
  <1>2. /\ EngineInv' /\ (UNCHANGED <<versions, current, rows>> \/ Committed)
        /\ \A v \in Op \ {w} : op'[v] = op[v]
    BY <1>1, RequestAdvances DEF CommandInv
  <1>3. op \in [Op -> OpRecord]
    BY DEF CommandInv, EngineInv, EngineTypeOK, OpRecord
  <1>4. PICK o : o = op'[w]
    OBVIOUS
  <1>5. ~ Active(o)
    BY <1>3, <1>4 DEF Answered, Lost, Finish, Crash, Set, IdleOp, Active
  <1>6. CliFits(NoSession, o)'
    BY <1>5, NoSessionFacts DEF CliFits
  <1> QED BY <1>1, <1>2, <1>4, <1>6, NoSessionFacts, CliAdvance

LEMMA CommandStep ==
  ASSUME CommandInv, [CommandNext]_commandVars
  PROVE  CommandInv'
  <1>0. \A v \in Op : op'[v] = op[v] => Continues(op[v], op'[v])
    BY DEF Continues
  <1>1. ASSUME NEW w \in Op, ServerStep(w) PROVE CommandInv'
    <2>1. RequestStep(w) /\ UNCHANGED cli
      BY <1>1 DEF ServerStep, RequestStep
    <2>2. /\ EngineInv' /\ (UNCHANGED <<versions, current, rows>> \/ Committed)
          /\ Continues(op[w], op'[w]) /\ \A v \in Op \ {w} : op'[v] = op[v]
      BY <2>1, RequestAdvances DEF CommandInv
    <2>3. \A v \in Op : Continues(op[v], op'[v])
      BY <1>0, <2>2
    <2> QED BY <2>1, <2>2, <2>3, CliStays
  <1>2. ASSUME NEW t \in Tag, ~ Resolving(t), Tagging(t), UNCHANGED cli PROVE CommandInv'
    <2>1. EngineInv' /\ UNCHANGED <<storeVars, op>>
      BY <1>2, TaggingKeeps DEF CommandInv
    <2> QED BY <1>0, <1>2, <2>1, CliStays DEF storeVars
  <1>3. CASE Terraform /\ UNCHANGED cli
    <2>1. EngineInv' /\ UNCHANGED <<op, tags>> /\ (UNCHANGED <<versions, current, rows>> \/ Committed)
      BY <1>3, TerraformKeeps DEF CommandInv
    <2> QED BY <1>0, <1>3, <2>1, CliStays
  <1>4. CASE UNCHANGED commandVars
    <2>1. UNCHANGED engineVars /\ UNCHANGED cli
      BY <1>4 DEF commandVars
    <2>2. EngineInv' /\ UNCHANGED <<versions, current, rows, op, tags>>
      BY <2>1, QuietKeeps DEF CommandInv
    <2> QED BY <1>0, <2>1, <2>2, CliStays
  <1>5. ASSUME NEW w \in Op,
               \/ \E cmd \in Command : Ask(w, cmd)
               \/ Show(w) \/ Cancel(w) \/ ReadCurrent(w) \/ ResolveTarget(w) \/ Send(w) \/ Refused(w)
               \/ BeginApply(w) \/ ServerStep(w) \/ Answered(w) \/ Lost(w)
        PROVE  CommandInv'
    BY <1>1, <1>5, CliStep, CliSends, CliEnds
  <1> QED BY <1>2, <1>3, <1>4, <1>5 DEF CommandNext

LEMMA CommandInvInit == CommandInit => CommandInv
  <1> SUFFICES ASSUME CommandInit PROVE CommandInv
    OBVIOUS
  <1>1. /\ StoreInit /\ op = [w \in Op |-> IdleOp] /\ tags = [t \in Tag |-> NoVersion]
        /\ refresh = NoRefresh /\ crashes = 0 /\ cli = [w \in Op |-> NoSession]
    BY DEF CommandInit, EngineInit
  <1>2. StoreInv /\ BaselineStored /\ GenesisEmpty
    BY <1>1, StoreInvInit DEF StoreInit, GenesisEmpty
  <1>3. EngineTypeOK
    BY <1>1, IdleIsOp, EngineAssumption DEF EngineTypeOK, OpRecord, NoRefresh
  <1>4. IdleOp.pc = "idle"
    BY DEF IdleOp
  <1>5. \A w \in Op : OpShape(w)
    BY <1>1, <1>4 DEF OpShape, OpFits, Active, Planned
  <1>6. \A w \in Op : CliFits(NoSession, IdleOp)
    BY <1>4, NoSessionFacts DEF Active
  <1> QED BY <1>1, <1>2, <1>3, <1>5, <1>6, NoSessionFacts DEF CommandInv, EngineInv

(* Commands, requests and the state they write keep what the rest needs:   *)
(* a request that holds the coarse lock works on what is still current,    *)
(* and what a preview found of two versions stays true of them.            *)
THEOREM CommandsSafe == CommandSpec => []CommandInv
  <1>1. CommandInv /\ [CommandNext]_commandVars => CommandInv'
    BY CommandStep
  <1> QED BY <1>1, CommandInvInit, PTL DEF CommandSpec

(* The serial a state-engine request reports is that of the version it     *)
(* committed, also where it is computed from the trunk it read.            *)
THEOREM ReportsAreOurs == CommandSpec => []ReportedSerialIsOurs
  <1>1. CommandInv => ReportedSerialIsOurs
    BY DEF CommandInv, EngineInv, OpShape, OpFits, ReportedSerialIsOurs
  <1> QED BY <1>1, CommandsSafe, PTL

(* The rows tell the whole history through every patch, replay, rollback   *)
(* and delta commit, though a mutation closes and opens rows it read in an *)
(* earlier transaction.                                                    *)
THEOREM MutationsKeepHistory == CommandSpec => []RowsMatchHistory
  <1>1. CommandInv => RowsMatchHistory
    BY DEF CommandInv, EngineInv, StoreInv
  <1> QED BY <1>1, CommandsSafe, PTL

-----------------------------------------------------------------------------
(* What a mutation commits                                                 *)

(* A remove, move or replay commits its patch of the version that is       *)
(* current when it commits, two steps after it read the document.          *)
THEOREM MutationsPatch == CommandSpec => MutationsPatchTrunk
  <1>1. CommandInv /\ [CommandNext]_commandVars =>
          [\A w \in Op : Mutate(w) => versions'[current'] = Patch(op[w], versions[current])]_engineVars
    BY MutateCommits DEF CommandInv
  <1> QED BY <1>1, CommandsSafe, PTL DEF CommandSpec, MutationsPatchTrunk

(* A reference that means another version did not settle.                  *)
LEMMA MovedOrSettled ==
  ASSUME NEW c, c.cmd \in Command, ByVersion(c), NEW target, Settled(c) => target = c.shown
  PROVE  target = c.shown \/ Moved(c, target)
  <1>1. c.cmd.ref.kind \in {"serial", "back", "tag"}
    BY CommandFacts, EngineAssumption DEF ByVersion
  <1> QED BY <1>1 DEF Settled, Moved, ByTag

(* What a strict replay was told, and what it finds.                       *)
LEMMA StrictMutation ==
  ASSUME CommandInv, NEW w \in Op, Mutate(w), cli[w].cmd.strict
  PROVE  /\ HasInstance(versions'[current'], op[w].from) \/ Moved(cli[w], op[w].target)
         /\ \A a \in Addr : DependsOn(versions[current].res[a].attr, op[w].from) =>
                              a \in Changes(versions[cli[w].base], versions[current])
  <1>1. PICK o : o = op[w]
    OBVIOUS
  <1>2. PICK c : c = cli[w]
    OBVIOUS
  <1>3. /\ StoreInv /\ GenesisEmpty /\ OpFits(w, o) /\ CliFits(c, o) /\ o.pc = "ready"
        /\ versions'[current'] = Patch(o, versions[current])
    BY <1>1, <1>2, MutateCommits DEF CommandInv, EngineInv, OpShape, Mutate, At
  <1>4. Worded(o) /\ Pinned(o)
    BY <1>3 DEF OpFits, Active, Planned
  <1>5. c.pc = "sent" /\ Carries(o, c) /\ c.cmd \in Command
    BY <1>3, <1>4 DEF CliFits, Active, Pinned, Mutation
  <1>6. o.kind = "replay" /\ o.from = c.cmd.from /\ o.ref = c.cmd.ref /\ c.cmd.kind = "replay"
    BY <1>2, <1>5, CommandFacts DEF Carries
  <1>7. Shown(c)
    BY <1>3, <1>5 DEF CliFits
  <1>8. o.target \in DOMAIN versions /\ o.from \in Addr
    BY <1>4, <1>6 DEF Pinned, Worded, Mutation
  <1>9. o.target = c.shown \/ Moved(c, o.target)
    <2>1. Settled(c) => o.target = c.shown
      BY <1>4, <1>6, <1>7 DEF Settled, ByTag, Shown, Pinned
    <2> QED BY <1>5, <1>6, <2>1, MovedOrSettled DEF ByVersion
  <1>10. ASSUME o.target = c.shown PROVE HasInstance(versions'[current'], o.from)
    <2>1. versions[current] \in Doc /\ current \in DOMAIN versions
      BY <1>3, <1>4, <1>8, CurrentRows DEF Pinned
    <2>2. Patch(o, versions[current]).res[o.from] = versions[o.target].res[o.from]
      BY <1>3, <1>4, <1>6, <2>1, PatchCells
    <2>3. versions[o.target].res[o.from].attr # NoAttr
      BY <1>2, <1>6, <1>7, <1>10 DEF Shown
    <2> QED BY <1>3, <2>2, <2>3 DEF HasInstance, Absent
  <1>11. ASSUME NEW a \in Addr, DependsOn(versions[current].res[a].attr, o.from)
         PROVE  a \in Changes(versions[c.base], versions[current])
    <2>1. ~ DependsOn(versions[c.base].res[a].attr, o.from)
      BY <1>2, <1>6, <1>7 DEF Shown
    <2> QED BY <1>11, <2>1 DEF Changes
  <1> QED BY <1>1, <1>2, <1>9, <1>10, <1>11

(* A strict replay leaves the instance in place unless its reference moved *)
(* since the preview, and whoever depends on what it changes was committed *)
(* since the preview, for any number of commits, tags and failures in      *)
(* between.                                                                *)
THEOREM StrictReplaysKeepPromise == CommandSpec => StrictKept
  <1>1. CommandInv /\ [CommandNext]_commandVars =>
          [\A w \in Op : (Mutate(w) /\ cli[w].cmd.strict) =>
             /\ HasInstance(versions'[current'], op[w].from) \/ Moved(cli[w], op[w].target)
             /\ \A a \in Addr : DependsOn(versions[current].res[a].attr, op[w].from) =>
                                  a \in Changes(versions[cli[w].base], versions[current])]_commandVars
    BY StrictMutation
  <1> QED BY <1>1, CommandsSafe, PTL DEF CommandSpec, StrictKept

-----------------------------------------------------------------------------
(* What a rollback shows                                                   *)

LEMMA RollbackFits ==
  ASSUME CommandInv, NEW w \in Op, Rollback(w)
  PROVE  \/ Moved(cli[w], op[w].target)
         \/ /\ versions'[current'] = versions[cli[w].shown]
            /\ \A a \in Addr : \/ a \in Changes(versions[current], versions'[current']) <=> a \in cli[w].diff
                               \/ a \in Changes(versions[cli[w].base], versions[current])
  <1>1. PICK o : o = op[w]
    OBVIOUS
  <1>2. PICK c : c = cli[w]
    OBVIOUS
  <1>3. /\ OpFits(w, o) /\ CliFits(c, o) /\ o.pc = "locked" /\ o.kind = "rollback"
        /\ current' = NextSerial /\ versions'[NextSerial] = versions[o.target]
    BY <1>1, <1>2 DEF CommandInv, EngineInv, OpShape, Rollback, At, ReplayVersion, CommitDoc, InsertVersion
  <1>4. c.pc = "sent" /\ c.cmd \in Command /\ c.cmd.kind = "rollback" /\ o.target = c.target
    BY <1>3 DEF CliFits, Active, Carries
  <1>5. Shown(c) /\ (Settled(c) => o.target = c.shown)
    BY <1>3, <1>4 DEF CliFits
  <1>6. o.target = c.shown \/ Moved(c, o.target)
    BY <1>4, <1>5, MovedOrSettled DEF ByVersion
  <1>7. ASSUME o.target = c.shown, NEW a \in Addr, a \notin Changes(versions[c.base], versions[current])
        PROVE  a \in Changes(versions[current], versions[c.shown]) <=> a \in c.diff
    <2>1. c.diff = Changes(versions[c.base], versions[c.shown])
      BY <1>4, <1>5 DEF Shown
    <2> QED BY <1>7, <2>1 DEF Changes
  <1> QED BY <1>1, <1>2, <1>3, <1>6, <1>7

(* A rollback writes the version shown unless its reference moved since,   *)
(* and where nobody committed a change since the preview it changes the    *)
(* addresses listed and no other.                                          *)
THEOREM RollbacksAsConfirmed == CommandSpec => RollbackAsShown
  <1> DEFINE AsShown == \A w \in Op : Rollback(w) =>
               \/ Moved(cli[w], op[w].target)
               \/ /\ versions'[current'] = versions[cli[w].shown]
                  /\ \A a \in Addr :
                       \/ a \in Changes(versions[current], versions'[current']) <=> a \in cli[w].diff
                       \/ a \in Changes(versions[cli[w].base], versions[current])
  <1>1. CommandInv /\ [CommandNext]_commandVars => [AsShown]_commandVars
    BY RollbackFits
  <1>2. RollbackAsShown <=> [][AsShown]_commandVars
    BY DEF RollbackAsShown
  <1> HIDE DEF AsShown
  <1> QED BY <1>1, <1>2, CommandsSafe, PTL DEF CommandSpec
=============================================================================
