-------------------------- MODULE StateStoreProofs --------------------------
(* Proofs about the tables of pkg/store: StateStore, for every set of      *)
(* addresses, contents, outputs, lineages and lock ids and every bound on  *)
(* the serials; and, independent of it, Reservations and Globs.            *)
EXTENDS StateStore, Reservations, Globs, TLAPS

(* The inductive invariant.                                                *)
StoreInv ==
  /\ StoreTypeOK
  /\ HistoryGapFree
  /\ LifecyclesDisjoint
  /\ RowsMatchHistory

(* The serials a commit can land on.                                       *)
Fresh(n) == n \in Nat /\ IF current = NoVersion THEN n \in {0, 1} ELSE n = current + 1

-----------------------------------------------------------------------------
(* Serials                                                                 *)

LEMMA MaxIsCurrent ==
  ASSUME StoreTypeOK, HistoryGapFree, current # NoVersion
  PROVE  Max(DOMAIN versions) = current
  <1> DEFINE D == DOMAIN versions
  <1>1. current \in D /\ \A s \in D : s <= current
    BY DEF HistoryGapFree
  <1>2. \A s \in D : s \in Nat
    BY DEF StoreTypeOK
  <1>3. \E x \in D : \A y \in D : x >= y
    BY <1>1, <1>2
  <1>4. Max(D) \in D /\ \A y \in D : Max(D) >= y
    BY <1>3 DEF Max
  <1> QED BY <1>1, <1>2, <1>4

LEMMA NextSerialFresh ==
  ASSUME StoreTypeOK, HistoryGapFree
  PROVE  Fresh(NextSerial)
  <1>1. CASE current = NoVersion
    BY <1>1 DEF HistoryGapFree, NextSerial, Fresh
  <1>2. CASE current # NoVersion
    <2>1. DOMAIN versions # {} /\ current \in Nat
      BY <1>2 DEF HistoryGapFree, StoreTypeOK
    <2> QED BY <1>2, <2>1, MaxIsCurrent DEF NextSerial, Fresh
  <1> QED BY <1>1, <1>2

(* A serial computed from an old trunk is free only if it is one past the  *)
(* current trunk: the compare-and-swap of the apply path.                  *)
LEMMA CallerSerialFresh ==
  ASSUME StoreTypeOK, HistoryGapFree, NEW n \in CallerSerial, n \notin DOMAIN versions
  PROVE  Fresh(n)
  <1>1. PICK s \in DOMAIN versions : n = s + 1
    BY DEF CallerSerial
  <1>2. s \in Nat /\ current # NoVersion /\ current \in Nat /\ s <= current
    BY <1>1 DEF StoreTypeOK, HistoryGapFree
  <1>3. ~ (n \in 1..current)
    BY <1>2 DEF HistoryGapFree
  <1> QED BY <1>1, <1>2, <1>3 DEF Fresh

LEMMA InsertKeepsHistory ==
  ASSUME StoreTypeOK, HistoryGapFree, NEW n, Fresh(n), NEW doc \in Doc, InsertVersion(n, doc)
  PROVE  /\ HistoryGapFree'
         /\ DOMAIN versions' \subseteq Nat
         /\ versions' \in [DOMAIN versions' -> Doc]
         /\ current' = n /\ n \in Nat
         /\ DOMAIN versions' = DOMAIN versions \cup {n}
         /\ n \notin DOMAIN versions
         /\ \A s \in DOMAIN versions : versions'[s] = versions[s] /\ s < n
         /\ versions'[n] = doc
  <1>1. /\ n \in Nat /\ n \notin DOMAIN versions /\ current' = n
        /\ DOMAIN versions' = DOMAIN versions \cup {n}
        /\ versions' = [s \in DOMAIN versions \cup {n} |-> IF s = n THEN doc ELSE versions[s]]
    BY DEF InsertVersion, Fresh
  <1>2. \A s \in DOMAIN versions : s \in Nat /\ s < n
    BY DEF Fresh, HistoryGapFree, StoreTypeOK
  <1>3. DOMAIN versions' \subseteq Nat /\ versions' \in [DOMAIN versions' -> Doc]
    BY <1>1, <1>2 DEF StoreTypeOK
  <1>4. n # NoVersion
    BY <1>1 DEF NoVersion
  <1>5. \A s \in 1..n : s \in DOMAIN versions \cup {n}
    BY <1>1 DEF Fresh, HistoryGapFree, StoreTypeOK, NoVersion
  <1>6. HistoryGapFree'
    BY <1>1, <1>2, <1>4, <1>5 DEF HistoryGapFree
  <1> QED BY <1>1, <1>2, <1>3, <1>6

-----------------------------------------------------------------------------
(* Lifecycle rows                                                          *)

(* The open row of an address, if any, is unique and carries the content   *)
(* of the current document.                                                *)
LEMMA OpenRowUnique ==
  ASSUME StoreTypeOK, LifecyclesDisjoint, NEW a \in Addr
  PROVE  /\ \A q, r \in OpenRows(a) : q = r
         /\ \A r \in OpenRows(a) : OpenAttr(a) = r.attr /\ r.attr \in Attr
         /\ OpenRows(a) = {} => OpenAttr(a) = NoAttr
         /\ OpenAttr(a) \in Attr \cup {NoAttr}
         /\ OpenAttr(a) # NoAttr => OpenRows(a) # {}
  <1>1. \A q, r \in OpenRows(a) : q = r
    BY DEF OpenRows, LifecyclesDisjoint, Before
  <1>2. \A r \in OpenRows(a) : r.attr \in Attr
    BY DEF OpenRows, StoreTypeOK, ResourceRow
  <1>3. OpenRows(a) = {} => OpenAttr(a) = NoAttr
    BY DEF OpenAttr
  <1>4. ASSUME NEW r \in OpenRows(a) PROVE OpenAttr(a) = r.attr
    <2>1. (CHOOSE q \in OpenRows(a) : TRUE) \in OpenRows(a)
      BY <1>4
    <2>2. (CHOOSE q \in OpenRows(a) : TRUE) = r
      BY <2>1, <1>1
    <2> QED BY <2>2, <1>4 DEF OpenAttr
  <1> QED BY <1>1, <1>2, <1>3, <1>4

(* A change of rows: the open rows at the addresses dr are closed and the  *)
(* instances the document has there are opened.  A delta is one, at the    *)
(* addresses that drifted.                                                 *)
RowsReplaced(n, res, dr) ==
  {CloseRow(r, dr, n) : r \in rows} \cup {NewRow(a, res, n) : a \in {b \in dr : res[b].attr # NoAttr}}

LEMMA DeltaReplaces ==
  ASSUME NEW n, NEW res, NEW sel
  PROVE  ResourceDelta(n, res, sel) = RowsReplaced(n, res, Drifted(res, sel))
  BY DEF ResourceDelta, RowsReplaced

(* The parts of a change: old rows keep everything but delete_serial, and  *)
(* that changes only for open rows of those addresses; new rows start at   *)
(* the new serial.                                                         *)
LEMMA DeltaRows ==
  ASSUME StoreTypeOK, NEW n \in Nat, NEW res \in [Addr -> Cell], NEW dr \in SUBSET Addr,
         rows' = RowsReplaced(n, res, dr)
  PROVE  /\ \A r \in rows : CloseRow(r, dr, n) \in rows'
         /\ \A a \in dr : res[a].attr # NoAttr => NewRow(a, res, n) \in rows'
         /\ \A r \in rows' : \/ \E q \in rows : r = CloseRow(q, dr, n)
                             \/ \E a \in dr : res[a].attr # NoAttr /\ r = NewRow(a, res, n)
         /\ rows' \subseteq ResourceRow
  <1>1. dr \subseteq Addr
    OBVIOUS
  <1>2. \A r \in ResourceRow : CloseRow(r, dr, n) \in ResourceRow
    BY DEF CloseRow, ResourceRow
  <1>3. \A a \in Addr : res[a].attr # NoAttr => res[a].attr \in Attr
    BY DEF Cell, Absent
  <1>4. \A a \in Addr : res[a].attr # NoAttr => NewRow(a, res, n) \in ResourceRow
    BY <1>3 DEF NewRow, ResourceRow
  <1>5. /\ \A r \in rows : CloseRow(r, dr, n) \in rows'
        /\ \A a \in dr : res[a].attr # NoAttr => NewRow(a, res, n) \in rows'
        /\ \A r \in rows' : \/ \E q \in rows : r = CloseRow(q, dr, n)
                            \/ \E a \in dr : res[a].attr # NoAttr /\ r = NewRow(a, res, n)
    BY DEF RowsReplaced
  <1>6. rows' \subseteq ResourceRow
    <2> SUFFICES ASSUME NEW r \in rows' PROVE r \in ResourceRow
      OBVIOUS
    <2>1. CASE \E q \in rows : r = CloseRow(q, dr, n)
      BY <2>1, <1>2 DEF StoreTypeOK
    <2>2. CASE \E a \in dr : res[a].attr # NoAttr /\ r = NewRow(a, res, n)
      BY <2>2, <1>1, <1>4
    <2> QED BY <2>1, <2>2, <1>5
  <1> QED BY <1>5, <1>6

(* What closing does to one row: nothing but setting delete_serial, and    *)
(* no version older than the new serial sees a difference.                 *)
LEMMA CloseRowFacts ==
  ASSUME NEW q \in ResourceRow, NEW drifted, NEW n \in Nat
  PROVE  LET r == CloseRow(q, drifted, n)
         IN  /\ r.addr = q.addr /\ r.attr = q.attr /\ r.create = q.create
             /\ IsOpen(r) <=> IsOpen(q) /\ q.addr \notin drifted
             /\ IsOpen(r) => r = q
             /\ ~ IsOpen(q) => r = q
             /\ (~ IsOpen(r) /\ IsOpen(q)) => r.delete = n
             /\ \A v \in Nat : v < n => (Covers(r, v) <=> Covers(q, v))
  <1>1. n # Open
    BY DEF Open
  <1>2. CASE IsOpen(q) /\ q.addr \in drifted
    BY <1>1, <1>2 DEF CloseRow, IsOpen, ResourceRow, Covers
  <1>3. CASE ~ (IsOpen(q) /\ q.addr \in drifted)
    BY <1>3 DEF CloseRow
  <1> QED BY <1>2, <1>3

LEMMA FreshAboveRows ==
  ASSUME StoreTypeOK, HistoryGapFree, LifecyclesDisjoint, NEW n, Fresh(n)
  PROVE  \A r \in rows : r.create < n /\ (~ IsOpen(r) => r.delete < n /\ r.delete \in Nat)
  <1>1. current < n /\ current \in Int /\ n \in Nat
    BY DEF Fresh, StoreTypeOK, NoVersion
  <1>2. \A r \in rows : r.create \in Nat /\ (~ IsOpen(r) => r.delete \in Nat)
    BY DEF StoreTypeOK, ResourceRow, IsOpen
  <1> QED BY <1>1, <1>2 DEF LifecyclesDisjoint

(* A change at a fresh serial keeps the lifecycles of every address apart.  *)
LEMMA DeltaKeepsDisjoint ==
  ASSUME StoreTypeOK, HistoryGapFree, LifecyclesDisjoint, NEW n, Fresh(n),
         NEW res \in [Addr -> Cell], NEW dr \in SUBSET Addr,
         rows' = RowsReplaced(n, res, dr), current' = n
  PROVE  LifecyclesDisjoint'
  <1> DEFINE cl(q) == CloseRow(q, dr, n)
             Old(r) == \E q \in rows : r = cl(q)
             New(r) == \E a \in dr : res[a].attr # NoAttr /\ r = NewRow(a, res, n)
  <1>0. n \in Nat
    BY DEF Fresh
  <1>1. \A r \in rows' : Old(r) \/ New(r)
    BY DeltaRows, <1>0
  <1>2. \A q \in rows : /\ q \in ResourceRow /\ q.create < n
                        /\ ~ IsOpen(q) => q.delete < n /\ q.delete \in Nat
    BY FreshAboveRows DEF StoreTypeOK
  <1>3. \A a \in dr : LET r == NewRow(a, res, n)
                       IN r.addr = a /\ r.create = n /\ IsOpen(r)
    BY DEF NewRow, IsOpen
  <1>4. ASSUME NEW q \in rows
        PROVE  LET r == cl(q) IN /\ r.addr = q.addr /\ r.create = q.create
                                 /\ IsOpen(r) <=> IsOpen(q) /\ q.addr \notin dr
                                 /\ ~ IsOpen(q) => r = q
                                 /\ (~ IsOpen(r) /\ IsOpen(q)) => r.delete = n
    BY <1>0, <1>2, <1>4, CloseRowFacts
  <1> HIDE DEF cl
  <1>5. ASSUME NEW r \in rows'
        PROVE  r.create <= n /\ (~ IsOpen(r) => r.create < r.delete /\ r.delete <= n)
    <2>1. CASE New(r)
      BY <2>1, <1>0, <1>3
    <2>2. CASE Old(r)
      <3>1. PICK q \in rows : r = cl(q)
        BY <2>2
      <3>2. q.create < n /\ q.create \in Nat
        BY <1>2 DEF ResourceRow
      <3>3. CASE IsOpen(q)
        BY <3>1, <3>2, <3>3, <1>0, <1>4
      <3>4. CASE ~ IsOpen(q)
        <4>1. q.create < q.delete
          BY <3>4 DEF LifecyclesDisjoint
        <4> QED BY <3>1, <3>2, <3>4, <4>1, <1>0, <1>2, <1>4
      <3> QED BY <3>3, <3>4
    <2> QED BY <2>1, <2>2, <1>1
  <1>6. ASSUME NEW q \in rows, NEW a \in dr, q.addr = a
        PROVE  Before(cl(q), NewRow(a, res, n))
    <2>1. ~ IsOpen(cl(q))
      BY <1>4, <1>6
    <2>2. cl(q).delete <= n
      BY <1>0, <1>2, <1>4, <2>1
    <2> QED BY <2>1, <2>2, <1>3 DEF Before
  <1>7. ASSUME NEW q \in rows, NEW r \in rows, Before(q, r)
        PROVE  Before(cl(q), cl(r))
    BY <1>4, <1>7 DEF Before
  <1>8. ASSUME NEW q \in rows', NEW r \in rows', q.addr = r.addr, q # r
        PROVE  Before(q, r) \/ Before(r, q)
    <2>1. CASE Old(q) /\ Old(r)
      <3>1. PICK q0 \in rows, r0 \in rows : q = cl(q0) /\ r = cl(r0)
        BY <2>1
      <3>2. q0.addr = r0.addr /\ q0 # r0
        BY <3>1, <1>4, <1>8
      <3>3. Before(q0, r0) \/ Before(r0, q0)
        BY <3>2 DEF LifecyclesDisjoint
      <3> QED BY <3>1, <3>3, <1>7
    <2>2. CASE Old(q) /\ New(r)
      BY <2>2, <1>3, <1>4, <1>6, <1>8
    <2>3. CASE New(q) /\ Old(r)
      BY <2>3, <1>3, <1>4, <1>6, <1>8
    <2>4. CASE New(q) /\ New(r)
      BY <2>4, <1>3, <1>8
    <2> QED BY <2>1, <2>2, <2>3, <2>4, <1>1
  <1> QED BY <1>5, <1>8 DEF LifecyclesDisjoint

(* A change at a fresh serial leaves every older version readable from the  *)
(* rows and makes the new one readable.                                    *)
LEMMA DeltaKeepsHistory ==
  ASSUME StoreInv, NEW n, Fresh(n), NEW doc \in Doc, InsertVersion(n, doc),
         NEW res \in [Addr -> Cell], NEW dr \in SUBSET Addr,
         rows' = RowsReplaced(n, res, dr),
         \A a \in Addr : doc.res[a].attr = IF a \in dr THEN res[a].attr ELSE OpenAttr(a)
  PROVE  RowsMatchHistory'
  <1> DEFINE cl(q) == CloseRow(q, dr, n)
  <1> USE DEF StoreInv
  <1>0. /\ n \in Nat
        /\ DOMAIN versions' = DOMAIN versions \cup {n}
        /\ \A v \in DOMAIN versions : versions'[v] = versions[v] /\ v < n /\ v \in Nat
        /\ versions'[n] = doc
    BY InsertKeepsHistory DEF StoreTypeOK
  <1>1. \A r \in rows' : \/ \E q \in rows : r = cl(q)
                         \/ \E a \in dr : res[a].attr # NoAttr /\ r = NewRow(a, res, n)
    BY DeltaRows, <1>0
  <1>2. \A q \in rows : cl(q) \in rows'
    BY DeltaRows, <1>0
  <1>3. \A a \in dr : res[a].attr # NoAttr => NewRow(a, res, n) \in rows'
    BY DeltaRows, <1>0
  <1>4. \A q \in rows : /\ q \in ResourceRow /\ q.create < n /\ q.create \in Nat
                        /\ ~ IsOpen(q) => q.delete < n /\ q.delete \in Nat
    BY FreshAboveRows DEF StoreTypeOK, ResourceRow
  <1>5. ASSUME NEW q \in rows
        PROVE  LET r == cl(q)
               IN /\ r.addr = q.addr /\ r.attr = q.attr /\ r.create = q.create
                  /\ IsOpen(r) <=> IsOpen(q) /\ q.addr \notin dr
                  /\ ~ IsOpen(q) => r = q
                  /\ (~ IsOpen(r) /\ IsOpen(q)) => r.delete = n
                  /\ \A v \in Nat : v < n => (Covers(r, v) <=> Covers(q, v))
    BY <1>0, <1>4, <1>5, CloseRowFacts
  <1>6. \A a \in dr : LET r == NewRow(a, res, n)
                       IN r.addr = a /\ r.attr = res[a].attr /\ r.create = n /\ IsOpen(r)
    BY DEF NewRow, IsOpen
  <1> HIDE DEF cl
  (* An older version: the covering rows are the same, with the same content. *)
  <1>9. ASSUME NEW v \in DOMAIN versions, NEW a \in Addr
        PROVE  /\ \A r \in rows' : (r.addr = a /\ Covers(r, v)) => r.attr = versions'[v].res[a].attr
               /\ versions'[v].res[a].attr # NoAttr => \E r \in rows' : r.addr = a /\ Covers(r, v)
    <2>1. v \in Nat /\ v < n /\ versions'[v] = versions[v]
      BY <1>0
    <2>2. ASSUME NEW r \in rows', r.addr = a, Covers(r, v)
          PROVE  r.attr = versions[v].res[a].attr
      <3>1. CASE \E q \in rows : r = cl(q)
        <4>1. PICK q \in rows : r = cl(q)
          BY <3>1
        <4>2. q.addr = a /\ Covers(q, v) /\ r.attr = q.attr
          BY <4>1, <1>5, <2>1, <2>2
        <4> QED BY <4>2 DEF RowsMatchHistory
      <3>2. CASE \E b \in dr : res[b].attr # NoAttr /\ r = NewRow(b, res, n)
        BY <3>2, <2>1, <2>2, <1>0, <1>6 DEF Covers
      <3> QED BY <3>1, <3>2, <1>1
    <2>3. ASSUME versions[v].res[a].attr # NoAttr
          PROVE  \E r \in rows' : r.addr = a /\ Covers(r, v)
      <3>1. PICK q \in rows : q.addr = a /\ Covers(q, v)
        BY <2>3 DEF RowsMatchHistory
      <3> QED BY <3>1, <2>1, <1>2, <1>5
    <2> QED BY <2>1, <2>2, <2>3
  (* The new version: the covering rows are the open ones. *)
  <1>10. ASSUME NEW a \in Addr
         PROVE  /\ \A r \in rows' : (r.addr = a /\ Covers(r, n)) => r.attr = doc.res[a].attr
                /\ doc.res[a].attr # NoAttr => \E r \in rows' : r.addr = a /\ Covers(r, n)
    <2>0. doc.res[a].attr = IF a \in dr THEN res[a].attr ELSE OpenAttr(a)
      OBVIOUS
    <2>1. ASSUME NEW r \in rows', r.addr = a, Covers(r, n)
          PROVE  r.attr = doc.res[a].attr
      <3>1. CASE \E q \in rows : r = cl(q)
        <4>1. PICK q \in rows : r = cl(q)
          BY <3>1
        <4>2. IsOpen(r)
          BY <4>1, <2>1, <1>0, <1>4, <1>5 DEF Covers
        <4>3. IsOpen(q) /\ q.addr = a /\ a \notin dr /\ r.attr = q.attr
          BY <4>1, <4>2, <2>1, <1>5
        <4>4. q \in OpenRows(a)
          BY <4>3 DEF OpenRows
        <4> QED BY <4>3, <4>4, <2>0, OpenRowUnique
      <3>2. CASE \E b \in dr : res[b].attr # NoAttr /\ r = NewRow(b, res, n)
        BY <3>2, <2>0, <2>1, <1>6
      <3> QED BY <3>1, <3>2, <1>1
    <2>2. ASSUME doc.res[a].attr # NoAttr
          PROVE  \E r \in rows' : r.addr = a /\ Covers(r, n)
      <3>1. CASE a \in dr
        <4>1. NewRow(a, res, n) \in rows'
          BY <3>1, <2>0, <2>2, <1>3
        <4>2. Covers(NewRow(a, res, n), n)
          BY <3>1, <1>0, <1>6 DEF Covers
        <4> QED BY <4>1, <4>2, <3>1, <1>6
      <3>2. CASE a \notin dr
        <4>1. OpenAttr(a) # NoAttr
          BY <3>2, <2>0, <2>2
        <4>2. PICK q \in rows : q.addr = a /\ IsOpen(q)
          BY <4>1, OpenRowUnique DEF OpenRows
        <4>3. IsOpen(cl(q)) /\ cl(q).addr = a /\ cl(q).create = q.create
          BY <4>2, <3>2, <1>5
        <4>4. Covers(cl(q), n)
          BY <4>3, <1>0, <1>4 DEF Covers
        <4> QED BY <4>3, <4>4, <1>2
      <3> QED BY <3>1, <3>2
    <2> QED BY <2>1, <2>2
  <1> QED BY <1>0, <1>9, <1>10 DEF RowsMatchHistory

-----------------------------------------------------------------------------
(* Documents stay documents                                                *)

LEMMA EmptyDocIsDoc == EmptyDoc \in Doc
  BY DEF EmptyDoc, Doc, Cell

LEMMA MergeIsDoc ==
  ASSUME NEW base \in Doc, NEW trunk \in Doc, NEW proposed \in Doc
  PROVE  MergeStates(base, trunk, proposed) \in Doc
  BY DEF MergeStates, Doc

LEMMA RebuiltIsDoc ==
  ASSUME StoreTypeOK, LifecyclesDisjoint, NEW doc \in Doc, NEW sel \in SUBSET Addr
  PROVE  /\ [doc EXCEPT !.res = RebuiltRes(doc.res, sel)] \in Doc
         /\ \A a \in Addr : [doc EXCEPT !.res = RebuiltRes(doc.res, sel)].res[a].attr
                              = IF a \in sel THEN doc.res[a].attr ELSE OpenAttr(a)
  <1>1. \A a \in Addr : OpenAttr(a) \in Attr \cup {NoAttr}
    BY OpenRowUnique
  <1>2. \A a \in Addr : doc.res[a].attr \in Attr \cup {NoAttr}
    BY DEF Doc, Cell, Absent
  <1>3. \A t \in Attr \cup {NoAttr} : [attr |-> t, meta |-> NoMeta] \in Cell
    BY DocAssumption DEF Cell, Absent
  <1>4. RebuiltRes(doc.res, sel) \in [Addr -> Cell]
    BY <1>1, <1>2, <1>3 DEF RebuiltRes
  <1>5. \A a \in Addr : RebuiltRes(doc.res, sel)[a].attr
                          = IF a \in sel THEN doc.res[a].attr ELSE OpenAttr(a)
    BY DEF RebuiltRes
  <1> QED BY <1>4, <1>5 DEF Doc

(* A version and a change of rows that agree: the document holds its own   *)
(* content at the addresses whose rows change, and elsewhere what the rows *)
(* held.                                                                   *)
LEMMA ReplaceKeepsInv ==
  ASSUME StoreInv, NEW n, Fresh(n), NEW doc \in Doc, InsertVersion(n, doc),
         NEW res \in [Addr -> Cell], NEW dr \in SUBSET Addr, rows' = RowsReplaced(n, res, dr),
         \A a \in Addr : doc.res[a].attr = IF a \in dr THEN res[a].attr ELSE OpenAttr(a),
         locks' \in [LockId -> LockRow \cup {NoLock}], exclusive' \in BOOLEAN
  PROVE  StoreInv'
  <1> USE DEF StoreInv
  <1>1. n \in Nat /\ current' = n
    BY DEF Fresh, InsertVersion
  <1>2. HistoryGapFree' /\ DOMAIN versions' \subseteq Nat /\ versions' \in [DOMAIN versions' -> Doc]
    BY InsertKeepsHistory
  <1>3. rows' \subseteq ResourceRow
    BY <1>1, DeltaRows
  <1>4. LifecyclesDisjoint'
    BY <1>1, DeltaKeepsDisjoint
  <1>5. RowsMatchHistory'
    BY DeltaKeepsHistory
  <1> QED BY <1>1, <1>2, <1>3, <1>4, <1>5 DEF StoreTypeOK

(* The two commit tails at a fresh serial.                                 *)
LEMMA CommitDocKeepsInv ==
  ASSUME StoreInv, NEW n, Fresh(n), NEW doc \in Doc, CommitDoc(n, doc),
         locks' \in [LockId -> LockRow \cup {NoLock}], exclusive' \in BOOLEAN
  PROVE  StoreInv'
  <1> DEFINE dr == Drifted(doc.res, Addr)
  <1>1. InsertVersion(n, doc) /\ rows' = RowsReplaced(n, doc.res, dr)
    BY DeltaReplaces DEF CommitDoc
  <1>2. doc.res \in [Addr -> Cell] /\ dr \in SUBSET Addr
    BY DEF Doc, Drifted
  <1>3. \A a \in Addr : doc.res[a].attr = IF a \in dr THEN doc.res[a].attr ELSE OpenAttr(a)
    BY DEF Drifted
  <1> HIDE DEF dr
  <1> QED BY <1>1, <1>2, <1>3, ReplaceKeepsInv

LEMMA CommitSelectedKeepsInv ==
  ASSUME StoreInv, NEW n, Fresh(n), NEW doc \in Doc, NEW sel \in SUBSET Addr,
         CommitSelected(n, doc, sel),
         locks' \in [LockId -> LockRow \cup {NoLock}], exclusive' \in BOOLEAN
  PROVE  StoreInv'
  <1> DEFINE stored == [doc EXCEPT !.res = RebuiltRes(doc.res, sel)]
             dr     == Drifted(doc.res, sel)
  <1>1. InsertVersion(n, stored) /\ rows' = RowsReplaced(n, doc.res, dr)
    BY DeltaReplaces DEF CommitSelected
  <1>2. doc.res \in [Addr -> Cell] /\ dr \in SUBSET Addr
    BY DEF Doc, Drifted
  <1>3. /\ stored \in Doc
        /\ \A a \in Addr : stored.res[a].attr = IF a \in sel THEN doc.res[a].attr ELSE OpenAttr(a)
    BY RebuiltIsDoc DEF StoreInv
  <1> HIDE DEF stored
  <1>4. \A a \in Addr : stored.res[a].attr = IF a \in dr THEN doc.res[a].attr ELSE OpenAttr(a)
    BY <1>3 DEF Drifted
  <1> HIDE DEF dr
  <1> QED BY <1>1, <1>2, <1>3, <1>4, ReplaceKeepsInv

-----------------------------------------------------------------------------
(* Every write is one of the two tails at a fresh serial with a document.  *)
StoreWrite ==
  \E n \in Nat, doc \in Doc, sel \in SUBSET Addr :
    /\ Fresh(n)
    /\ \/ CommitDoc(n, doc) /\ (n = 0 => doc = EmptyDoc)
       \/ CommitSelected(n, doc, sel) /\ n # 0

LEMMA NextSerialPositive ==
  ASSUME StoreTypeOK, HistoryGapFree
  PROVE  NextSerial \in Nat /\ NextSerial # 0
  <1>1. CASE current = NoVersion
    BY <1>1 DEF HistoryGapFree, NextSerial
  <1>2. CASE current # NoVersion
    <2>1. DOMAIN versions # {} /\ current \in Nat
      BY <1>2 DEF HistoryGapFree, StoreTypeOK
    <2> QED BY <1>2, <2>1, MaxIsCurrent DEF NextSerial
  <1> QED BY <1>1, <1>2

LEMMA WriteIsStoreWrite ==
  ASSUME StoreInv, WriteNext, BaselineStored
  PROVE  /\ StoreWrite
         /\ exclusive' = exclusive
         /\ locks' \in [LockId -> LockRow \cup {NoLock}]
         /\ \/ locks' = locks
            \/ \E l \in Held : locks' = [locks EXCEPT ![l].source = current']
  <1> USE DEF StoreInv
  <1>0. /\ Fresh(NextSerial) /\ NextSerial \in Nat /\ NextSerial # 0
        /\ \A s \in DOMAIN versions : versions[s] \in Doc
        /\ current # NoVersion => current \in DOMAIN versions
    BY NextSerialFresh, NextSerialPositive DEF StoreTypeOK, HistoryGapFree
  <1>a. \A n, doc, sel : CommitDoc(n, doc) \/ CommitSelected(n, doc, sel) => current' = n
    BY DEF CommitDoc, CommitSelected, InsertVersion
  <1>b. locks \in [LockId -> LockRow \cup {NoLock}]
    BY DEF StoreTypeOK
  <1>1. CASE EnsureCurrentStateInfo
    <2>1. Fresh(0)
      BY <1>1 DEF EnsureCurrentStateInfo, Fresh
    <2>2. CommitDoc(0, EmptyDoc) /\ locks' = locks /\ exclusive' = exclusive
      BY <1>1 DEF EnsureCurrentStateInfo
    <2>3. 0 \in Nat /\ Addr \in SUBSET Addr /\ EmptyDoc \in Doc
      BY EmptyDocIsDoc
    <2>4. StoreWrite
      BY <2>1, <2>2, <2>3 DEF StoreWrite
    <2> QED BY <2>2, <2>4, <1>b
  <1>2. ASSUME NEW doc \in Doc, NEW lid \in LockId \cup {NoLockId}, WriteState(lid, doc)
        PROVE  /\ StoreWrite
               /\ exclusive' = exclusive
               /\ locks' \in [LockId -> LockRow \cup {NoLock}]
               /\ \/ locks' = locks
                  \/ \E l \in Held : locks' = [locks EXCEPT ![l].source = current']
    <2>1. DocToStore(lid, doc) \in Doc
      <3>1. CASE ~ exclusive /\ MustMerge(lid)
        <4>1. lid \in LockId /\ locks[lid].source \in DOMAIN versions
          BY <3>1 DEF MustMerge, Held, BaselineStored
        <4>2. current \in DOMAIN versions
          BY <4>1, <1>0 DEF HistoryGapFree
        <4> QED BY <3>1, <4>1, <4>2, <1>0, MergeIsDoc DEF DocToStore
      <3> QED BY <3>1, <1>2 DEF DocToStore
    <2>2. CommitDoc(NextSerial, DocToStore(lid, doc)) /\ exclusive' = exclusive
      BY <1>2 DEF WriteState
    <2>3. StoreWrite
      BY <2>1, <2>2, <1>0 DEF StoreWrite
    <2>4. CASE lid \in Held
      <3>1. locks' = [locks EXCEPT ![lid].source = NextSerial] /\ current' = NextSerial
        BY <1>2, <2>2, <2>4, <1>a DEF WriteState
      <3>2. locks[lid] \in LockRow /\ lid \in LockId
        BY <2>4, <1>b DEF Held
      <3>3. [locks[lid] EXCEPT !.source = NextSerial] \in LockRow
        BY <3>2, <1>0 DEF LockRow
      <3>4. locks' \in [LockId -> LockRow \cup {NoLock}]
        BY <3>1, <3>2, <3>3, <1>b
      <3> QED BY <2>2, <2>3, <2>4, <3>1, <3>4
    <2>5. CASE lid \notin Held
      BY <1>2, <1>b, <2>2, <2>3, <2>5 DEF WriteState
    <2> QED BY <2>4, <2>5
  <1>3. ASSUME NEW doc \in Doc, NEW n \in CallerSerial, WriteStateForApply(n, doc)
        PROVE  StoreWrite /\ exclusive' = exclusive /\ locks' = locks
    <2>1. n \notin DOMAIN versions /\ CommitDoc(n, doc)
      BY <1>3 DEF WriteStateForApply, CommitDoc, InsertVersion
    <2>2. Fresh(n) /\ n \in Nat /\ n # 0
      BY <2>1, CallerSerialFresh DEF Fresh, CallerSerial, StoreTypeOK
    <2> QED BY <1>3, <2>1, <2>2 DEF WriteStateForApply, StoreWrite
  <1>4. ASSUME NEW doc \in Doc, NEW n \in CallerSerial, NEW sel \in SUBSET Addr,
               WriteStateDeltaForApply(n, doc, sel)
        PROVE  StoreWrite /\ exclusive' = exclusive /\ locks' = locks
    <2>1. n \notin DOMAIN versions /\ CommitSelected(n, doc, sel)
      BY <1>4 DEF WriteStateDeltaForApply, CommitSelected, InsertVersion
    <2>2. Fresh(n) /\ n \in Nat /\ n # 0
      BY <2>1, CallerSerialFresh DEF Fresh, CallerSerial, StoreTypeOK
    <2> QED BY <1>4, <2>1, <2>2 DEF WriteStateDeltaForApply, StoreWrite
  <1>5. ASSUME NEW doc \in Doc, NEW sel \in SUBSET Addr, NEW outs \in SUBSET OutName,
               WriteStateEngineDeltaForApply(doc, sel, outs)
        PROVE  StoreWrite /\ exclusive' = exclusive /\ locks' = locks
    <2>1. MergeOutputDelta(doc, outs) \in [OutName -> OutVal \cup {NoOut}]
      BY <1>0 DEF MergeOutputDelta, Doc
    <2>2. [doc EXCEPT !.out = MergeOutputDelta(doc, outs)] \in Doc
      BY <2>1 DEF Doc
    <2> QED BY <1>5, <2>2, <1>0 DEF WriteStateEngineDeltaForApply, StoreWrite
  <1>6. ASSUME NEW s \in DOMAIN versions, ReplayVersion(s)
        PROVE  StoreWrite /\ exclusive' = exclusive /\ locks' = locks
    BY <1>6, <1>0 DEF ReplayVersion, StoreWrite
  <1> QED BY <1>1, <1>2, <1>3, <1>4, <1>5, <1>6, <1>b DEF WriteNext

(* Lock steps leave versions and rows alone.                               *)
LEMMA LockStep ==
  ASSUME StoreTypeOK, LockNext
  PROVE  /\ UNCHANGED <<versions, current, rows>>
         /\ locks' \in [LockId -> LockRow \cup {NoLock}]
         /\ exclusive' \in BOOLEAN
         /\ \A l \in LockId : locks'[l].source \in {0, TrunkSerial, locks[l].source}
  <1> USE DEF StoreTypeOK
  <1>1. TrunkSerial \in Nat
    BY DEF TrunkSerial, NoVersion
  <1>2. ASSUME NEW l \in LockId, AcquireLock(l) \/ AcquireStateEngineLock(l)
        PROVE  /\ UNCHANGED <<versions, current, rows, exclusive>>
               /\ locks' \in [LockId -> LockRow \cup {NoLock}]
               /\ \A m \in LockId : locks'[m].source \in {0, TrunkSerial, locks[m].source}
    <2>1. \A k \in {"http", "engine"}, v \in {0, TrunkSerial} : [kind |-> k, source |-> v] \in LockRow
      BY <1>1 DEF LockRow
    <2> QED BY <1>2, <2>1 DEF AcquireLock, AcquireStateEngineLock
  <1>3. ASSUME NEW l \in LockId, ReleaseLock(l) \/ ReleaseStateEngineLock(l)
        PROVE  /\ UNCHANGED <<versions, current, rows, exclusive>>
               /\ locks' \in [LockId -> LockRow \cup {NoLock}]
               /\ \A m \in LockId : locks'[m].source \in {0, TrunkSerial, locks[m].source}
    BY <1>3 DEF ReleaseLock, ReleaseStateEngineLock, NoLock
  <1>4. CASE ForceReleaseLock
    BY <1>4 DEF ForceReleaseLock, NoLock
  <1>5. ASSUME NEW on \in BOOLEAN, SetStateExclusiveLocks(on)
        PROVE  UNCHANGED <<versions, current, rows, locks>> /\ exclusive' \in BOOLEAN
    BY <1>5 DEF SetStateExclusiveLocks
  <1> QED BY <1>2, <1>3, <1>4, <1>5 DEF LockNext

(* Baselines are 0 or serials of stored versions, and versions stay.       *)
LEMMA BaselineStep ==
  ASSUME StoreInv, BaselineStored, [StoreNext]_storeVars
  PROVE  BaselineStored'
  <1> USE DEF StoreInv
  <1>1. CASE LockNext
    <2>1. TrunkSerial = 0 \/ TrunkSerial \in DOMAIN versions
      BY DEF TrunkSerial, HistoryGapFree
    <2> QED BY <1>1, <2>1, LockStep DEF BaselineStored
  <1>2. CASE WriteNext
    <2>1. DOMAIN versions \subseteq DOMAIN versions' /\ current' \in DOMAIN versions'
      BY <1>2, WriteIsStoreWrite DEF StoreWrite, CommitDoc, CommitSelected, InsertVersion
    <2>2. \/ locks' = locks
          \/ \E l \in Held : locks' = [locks EXCEPT ![l].source = current']
      BY <1>2, WriteIsStoreWrite
    <2>3. CASE locks' = locks
      BY <2>1, <2>3 DEF BaselineStored
    <2>4. CASE \E l \in Held : locks' = [locks EXCEPT ![l].source = current']
      <3>1. PICK l \in Held : locks' = [locks EXCEPT ![l].source = current']
        BY <2>4
      <3>2. \A m \in LockId : locks'[m].source = IF m = l THEN current' ELSE locks[m].source
        <4>1. l \in LockId /\ locks[l] \in LockRow
          BY DEF Held, StoreTypeOK
        <4>2. locks' = [locks EXCEPT ![l] = [locks[l] EXCEPT !.source = current']]
          BY <3>1
        <4>3. locks'[l] = [locks[l] EXCEPT !.source = current']
          BY <4>1, <4>2 DEF StoreTypeOK
        <4>4. locks'[l].source = current'
          BY <4>1, <4>3 DEF LockRow
        <4>5. \A m \in LockId \ {l} : locks'[m] = locks[m]
          BY <4>2 DEF StoreTypeOK
        <4> QED BY <4>4, <4>5
      <3> QED BY <2>1, <3>2 DEF BaselineStored
    <2> QED BY <2>2, <2>3, <2>4
  <1>3. CASE UNCHANGED storeVars
    BY <1>3 DEF storeVars, BaselineStored
  <1> QED BY <1>1, <1>2, <1>3 DEF StoreNext

LEMMA StoreInvInit == StoreInit => StoreInv /\ BaselineStored
  BY DEF StoreInit, StoreInv, StoreTypeOK, HistoryGapFree, LifecyclesDisjoint,
         RowsMatchHistory, BaselineStored, NoVersion, NoLock

LEMMA StoreInvStep ==
  ASSUME StoreInv, BaselineStored, [StoreNext]_storeVars
  PROVE  StoreInv'
  <1>1. CASE LockNext
    <2>1. StoreTypeOK'
      BY <1>1, LockStep DEF StoreInv, StoreTypeOK
    <2>2. UNCHANGED <<versions, current, rows>>
      BY <1>1, LockStep DEF StoreInv
    <2>3. HistoryGapFree' /\ LifecyclesDisjoint' /\ RowsMatchHistory'
      BY <2>2 DEF StoreInv, HistoryGapFree, LifecyclesDisjoint, RowsMatchHistory
    <2> QED BY <2>1, <2>3 DEF StoreInv
  <1>2. CASE WriteNext
    <2>1. /\ locks' \in [LockId -> LockRow \cup {NoLock}] /\ exclusive' \in BOOLEAN
          /\ StoreWrite
      BY <1>2, WriteIsStoreWrite DEF StoreInv, StoreTypeOK
    <2>2. PICK n \in Nat, doc \in Doc, sel \in SUBSET Addr :
                 Fresh(n) /\ (CommitDoc(n, doc) \/ CommitSelected(n, doc, sel))
      BY <2>1 DEF StoreWrite
    <2> QED BY <2>1, <2>2, CommitDocKeepsInv, CommitSelectedKeepsInv
  <1>3. CASE UNCHANGED storeVars
    BY <1>3 DEF storeVars, StoreInv, StoreTypeOK, HistoryGapFree, LifecyclesDisjoint, RowsMatchHistory
  <1> QED BY <1>1, <1>2, <1>3 DEF StoreNext

(* The store's tables are well formed, its history is gap-free, lifecycle  *)
(* ranges never overlap and the rows reproduce every version, whatever     *)
(* mixture of POSTs, merges, apply commits, selected-row commits and       *)
(* rollbacks is executed, under any locks.                                 *)
THEOREM StoreHistoryFaithful ==
  StoreSpec => [](StoreTypeOK /\ HistoryGapFree /\ LifecyclesDisjoint /\ RowsMatchHistory)
<1>1. StoreInv /\ BaselineStored /\ [StoreNext]_storeVars => (StoreInv /\ BaselineStored)'
  BY StoreInvStep, BaselineStep
<1>2. StoreInv => StoreTypeOK /\ HistoryGapFree /\ LifecyclesDisjoint /\ RowsMatchHistory
  BY DEF StoreInv
<1> QED BY <1>1, <1>2, StoreInvInit, PTL DEF StoreSpec

(* The base of a three-way merge always exists.                            *)
THEOREM MergeBaseExists == StoreSpec => []BaselineStored
<1>1. StoreInv /\ BaselineStored /\ [StoreNext]_storeVars => (StoreInv /\ BaselineStored)'
  BY StoreInvStep, BaselineStep
<1> QED BY <1>1, StoreInvInit, PTL DEF StoreSpec

-----------------------------------------------------------------------------
(* Refinement of the version log                                           *)

(* A commit at a fresh serial is an append, or the creation of the genesis.*)
LEMMA WriteAppends ==
  ASSUME StoreInv, BaselineStored, WriteNext
  PROVE  Log!LogNext
  <1>1. PICK n \in Nat, doc \in Doc, sel \in SUBSET Addr :
               /\ Fresh(n)
               /\ \/ CommitDoc(n, doc) /\ (n = 0 => doc = EmptyDoc)
                  \/ CommitSelected(n, doc, sel) /\ n # 0
    BY WriteIsStoreWrite DEF StoreWrite
  <1>2. PICK stored \in Doc : InsertVersion(n, stored) /\ (n = 0 => stored = EmptyDoc)
    <2>1. CASE CommitDoc(n, doc) /\ (n = 0 => doc = EmptyDoc)
      BY <1>1, <2>1 DEF CommitDoc
    <2>2. CASE CommitSelected(n, doc, sel) /\ n # 0
      BY <1>1, <2>2, RebuiltIsDoc DEF CommitSelected, StoreInv
    <2> QED BY <1>1, <2>1, <2>2
  <1>3. Log!Extend(n, stored)
    BY <1>2 DEF InsertVersion, Log!Extend
  <1>4. CASE n = 0
    BY <1>1, <1>2, <1>3, <1>4 DEF Fresh, NoVersion, StoreInv, StoreTypeOK, Log!LogNext, Log!CreateGenesis
  <1>5. CASE n # 0
    BY <1>1, <1>3, <1>5 DEF Fresh, NoVersion, Log!LogNext, Log!Append
  <1> QED BY <1>4, <1>5

(* The store is an append-only log with a genesis: a reader of versions    *)
(* and current sees only appends of the next serial, never a rewrite, a    *)
(* gap or a head that moves back.                                          *)
THEOREM StoreImplementsVersionLog == StoreSpec => VersionLogSpec
<1>1. StoreInit => Log!LogInit
  BY DEF StoreInit, Log!LogInit, NoVersion
<1>2. StoreInv /\ BaselineStored /\ [StoreNext]_storeVars => [Log!LogNext]_<<versions, current>>
  <2>1. ASSUME StoreInv, LockNext PROVE UNCHANGED <<versions, current>>
    BY <2>1, LockStep DEF StoreInv
  <2> QED BY <2>1, WriteAppends DEF StoreNext, storeVars
<1>3. StoreInv /\ BaselineStored /\ [StoreNext]_storeVars => (StoreInv /\ BaselineStored)'
  BY StoreInvStep, BaselineStep
<1> QED BY <1>1, <1>2, <1>3, StoreInvInit, PTL DEF StoreSpec, VersionLogSpec, Log!LogSpec

-----------------------------------------------------------------------------
(* Lock exclusion                                                          *)

(* A write keeps every lock's kind and the set of held locks.              *)
LEMMA WriteKeepsKinds ==
  ASSUME StoreInv, BaselineStored, WriteNext
  PROVE  \A m \in LockId : locks'[m].kind = locks[m].kind
  <1>1. CASE locks' = locks
    BY <1>1
  <1>2. CASE \E l \in Held : locks' = [locks EXCEPT ![l].source = current']
    <2>1. PICK l \in Held : locks' = [locks EXCEPT ![l] = [locks[l] EXCEPT !.source = current']]
      BY <1>2
    <2>2. l \in LockId /\ locks[l] \in LockRow /\ locks \in [LockId -> LockRow \cup {NoLock}]
      BY DEF Held, StoreInv, StoreTypeOK
    <2>3. locks'[l] = [locks[l] EXCEPT !.source = current']
      BY <2>1, <2>2
    <2>4. locks'[l].kind = locks[l].kind
      BY <2>2, <2>3 DEF LockRow
    <2>5. \A m \in LockId \ {l} : locks'[m] = locks[m]
      BY <2>1, <2>2
    <2> QED BY <2>4, <2>5
  <1> QED BY <1>1, <1>2, WriteIsStoreWrite

(* The kind tells a held lock from a free one.                             *)
LEMMA HeldByKind ==
  ASSUME StoreTypeOK, NEW m \in LockId
  PROVE  locks[m] # NoLock <=> locks[m].kind # "none"
  BY DEF StoreTypeOK, LockRow, NoLock

(* A state-engine write excludes every plain Terraform lock, whatever the  *)
(* lock mode and however the mode is toggled while locks are held.         *)
THEOREM EngineLockExcludes == StoreSpec => []EngineLockAlone
<1>1. StoreInit => EngineLockAlone
  BY DEF StoreInit, EngineLockAlone, NoLock
<1>2. ASSUME StoreInv, BaselineStored, EngineLockAlone, [StoreNext]_storeVars
      PROVE  EngineLockAlone'
  <2> USE <1>2 DEF StoreInv
  <2>0. locks \in [LockId -> LockRow \cup {NoLock}] /\ StoreTypeOK /\ StoreTypeOK'
    BY StoreInvStep DEF StoreTypeOK
  <2>1. CASE WriteNext
    BY <2>0, <2>1, WriteKeepsKinds, HeldByKind DEF EngineLockAlone, NoLock, StoreTypeOK, LockRow
  <2>2. ASSUME NEW l \in LockId, AcquireLock(l) PROVE EngineLockAlone'
    <3>1. \A m \in LockId : locks[m].kind # "engine"
      BY <2>2 DEF AcquireLock, Held, EngineLockAlone, NoLock
    <3>2. \A m \in LockId : locks'[m].kind # "engine"
      BY <2>0, <2>2, <3>1 DEF AcquireLock
    <3> QED BY <3>2 DEF EngineLockAlone
  <2>3. ASSUME NEW l \in LockId, AcquireStateEngineLock(l) PROVE EngineLockAlone'
    <3>1. \A m \in LockId \ {l} : locks'[m] = NoLock
      BY <2>0, <2>3 DEF AcquireStateEngineLock, Held
    <3> QED BY <3>1 DEF EngineLockAlone, NoLock
  <2>4. ASSUME NEW l \in LockId, ReleaseLock(l) \/ ReleaseStateEngineLock(l) PROVE EngineLockAlone'
    <3>1. \A m \in LockId : locks'[m] \in {locks[m], NoLock}
      BY <2>0, <2>4 DEF ReleaseLock, ReleaseStateEngineLock
    <3> QED BY <3>1 DEF EngineLockAlone, NoLock
  <2>5. CASE ForceReleaseLock
    <3>1. \A m \in LockId : locks'[m] \in {locks[m], NoLock}
      BY <2>0, <2>5 DEF ForceReleaseLock
    <3> QED BY <3>1 DEF EngineLockAlone, NoLock
  <2>6. ASSUME NEW on \in BOOLEAN, SetStateExclusiveLocks(on) PROVE EngineLockAlone'
    BY <2>6 DEF SetStateExclusiveLocks, EngineLockAlone
  <2>7. CASE UNCHANGED storeVars
    BY <2>7 DEF storeVars, EngineLockAlone
  <2> QED BY <2>1, <2>2, <2>3, <2>4, <2>5, <2>6, <2>7 DEF StoreNext, LockNext
<1>3. StoreInv /\ BaselineStored /\ [StoreNext]_storeVars => (StoreInv /\ BaselineStored)'
  BY StoreInvStep, BaselineStep
<1> QED BY <1>1, <1>2, <1>3, StoreInvInit, PTL DEF StoreSpec

-----------------------------------------------------------------------------
(* The reservation table, for every set of applies and globs, every        *)
(* symmetric overlap relation and every maximal lease.                     *)

(* A row and the absent row differ in their mode.                          *)
LEMMA RowIsNotNoRow ==
  ASSUME NEW r \in Row \cup {NoRow}
  PROVE  /\ r \in [mode : Mode \cup {"none"}, ttl : Expired..MaxLease]
         /\ r # NoRow <=> r.mode # "none"
         /\ r # NoRow <=> r \in Row
  BY MaxLeaseAssumption DEF Row, NoRow, Mode, Expired

(* Time keeps the mode of a row, and so whether there is one.              *)
LEMMA TickRowType ==
  ASSUME NEW r \in Row \cup {NoRow}
  PROVE  /\ TickRow(r) \in Row \cup {NoRow}
         /\ TickRow(r).mode = r.mode
         /\ TickRow(r) = NoRow <=> r = NoRow
  <1>1. CASE r = NoRow
    BY <1>1, MaxLeaseAssumption DEF TickRow, NoRow, Expired
  <1>2. CASE r \in Row
    <2>1. TickRow(r) \in Row /\ TickRow(r).mode = r.mode
      BY <1>2, MaxLeaseAssumption DEF TickRow, Row, Expired, Mode
    <2>2. TickRow(r) # NoRow /\ r # NoRow
      BY <2>1, <1>2 DEF Row, NoRow, Mode
    <2> QED BY <2>1, <2>2
  <1> QED BY <1>1, <1>2

(* Init and every step keep the table well formed.                         *)
THEOREM ReservationsTypeCorrect == ReservationsSpec => []ReservationsTypeOK
<1>1. ReservationsInit => ReservationsTypeOK
  BY DEF ReservationsInit, ReservationsTypeOK
<1>2. ReservationsTypeOK /\ [ReservationsNext]_resv => ReservationsTypeOK'
  <2> SUFFICES ASSUME ReservationsTypeOK, [ReservationsNext]_resv
               PROVE  ReservationsTypeOK'
    OBVIOUS
  <2> USE DEF ReservationsTypeOK
  <2>1. ASSUME NEW a \in Apply, NEW want \in Want, NEW lease \in Lease,
               AcquireReservations(a, want, lease)
        PROVE  ReservationsTypeOK'
    <3>1. \A g \in Glob : want[g] # "none" => [mode |-> want[g], ttl |-> lease] \in Row
      BY MaxLeaseAssumption DEF Want, Lease, Row, Expired
    <3> QED BY <2>1, <3>1 DEF AcquireReservations, AcquireEffect
  <2>2. ASSUME NEW a \in Apply, NEW lease \in Lease, RenewReservations(a, lease)
        PROVE  ReservationsTypeOK'
    <3>1. \A g \in Glob : Renewable(a, g) => [resv[a][g] EXCEPT !.ttl = lease] \in Row
      BY MaxLeaseAssumption DEF Renewable, Present, Lease, Row, Expired, NoRow
    <3> QED BY <2>2, <3>1 DEF RenewReservations
  <2>3. ASSUME NEW a \in Apply, ReleaseReservations(a)
        PROVE  ReservationsTypeOK'
    BY <2>3 DEF ReleaseReservations
  <2>4. CASE Tick
    BY <2>4, TickRowType DEF Tick
  <2>5. CASE UNCHANGED resv
    BY <2>5
  <2> QED BY <2>1, <2>2, <2>3, <2>4, <2>5 DEF ReservationsNext
<1> QED BY <1>1, <1>2, PTL DEF ReservationsSpec

(* The step of the exclusion proof that matters: after a successful        *)
(* acquire, a row of another apply survived the purge and was found        *)
(* compatible with every wanted glob it intersects.                        *)
LEMMA AcquireKeepsExclusion ==
  ASSUME ReservationsTypeOK, NoConflictingRows,
         NEW c \in Apply, NEW want \in Want, NEW lease \in Lease,
         AcquireReservations(c, want, lease)
  PROVE  NoConflictingRows'
  <1> DEFINE new(b, g) == IF b = c /\ want[g] # "none" THEN [mode |-> want[g], ttl |-> lease]
                          ELSE IF Purgeable(b, g) THEN NoRow
                          ELSE resv[b][g]
  <1>1. \A b \in Apply, g \in Glob : resv'[b][g] = new(b, g)
    BY DEF AcquireReservations, AcquireEffect
  <1> SUFFICES ASSUME NEW a \in Apply, NEW b \in Apply, NEW g \in Glob, NEW h \in Glob,
                      a # b, Present(a, g)', Present(b, h)', Intersects(g, h)
               PROVE  resv'[a][g].mode = "read" /\ resv'[b][h].mode = "read"
    BY DEF NoConflictingRows
  <1>0. /\ new(a, g) # NoRow /\ new(b, h) # NoRow
        /\ resv'[a][g] = new(a, g) /\ resv'[b][h] = new(b, h)
    BY <1>1 DEF Present
  <1>2. ASSUME NEW d \in Apply, NEW e \in Glob, d # c, new(d, e) # NoRow,
               NEW f \in Glob, want[f] # "none", Intersects(f, e)
        PROVE  want[f] = "read" /\ resv[d][e].mode = "read" /\ new(d, e) = resv[d][e]
    <2>1. new(d, e) = resv[d][e] /\ Live(d, e)
      BY <1>2 DEF Purgeable, Live, Present
    <2>2. <<d, e>> \notin Blockers(c, want)
      BY DEF AcquireReservations
    <2>3. ~ ModesConflict(want[f], resv[d][e].mode)
      BY <2>1, <2>2, <1>2 DEF Blockers
    <2> QED BY <2>1, <2>3 DEF ModesConflict
  <1>3. CASE a = c /\ want[g] # "none"
    <2>1. want[g] = "read" /\ resv[b][h].mode = "read" /\ new(b, h) = resv[b][h]
      BY <1>2, <1>3, <1>0
    <2> QED BY <2>1, <1>3, <1>0
  <1>4. CASE b = c /\ want[h] # "none"
    <2>1. Intersects(h, g)
      BY IntersectsSymmetric
    <2>2. want[h] = "read" /\ resv[a][g].mode = "read" /\ new(a, g) = resv[a][g]
      BY <1>2, <1>4, <2>1, <1>0
    <2> QED BY <2>2, <1>4, <1>0
  <1>5. CASE ~ (a = c /\ want[g] # "none") /\ ~ (b = c /\ want[h] # "none")
    <2>1. new(a, g) = resv[a][g] /\ new(b, h) = resv[b][h]
      BY <1>5, <1>0
    <2> QED BY <2>1, <1>0 DEF NoConflictingRows, Present
  <1> QED BY <1>3, <1>4, <1>5

(* Two applies never hold intersecting rows unless both only read, for any *)
(* number of applies and globs and any interleaving of acquire, renew,     *)
(* release and the passage of time.                                        *)
THEOREM ReservationsExclusive == ReservationsSpec => []NoConflictingRows
<1>1. ReservationsInit => NoConflictingRows
  BY DEF ReservationsInit, NoConflictingRows, Present
<1>2. /\ ReservationsTypeOK
      /\ NoConflictingRows
      /\ [ReservationsNext]_resv
      => NoConflictingRows'
  <2> SUFFICES ASSUME ReservationsTypeOK, NoConflictingRows, [ReservationsNext]_resv
               PROVE  NoConflictingRows'
    OBVIOUS
  <2>0. ASSUME \A a \in Apply, g \in Glob :
                 Present(a, g)' => Present(a, g) /\ resv'[a][g].mode = resv[a][g].mode
        PROVE  NoConflictingRows'
    BY <2>0 DEF NoConflictingRows
  <2>1. ASSUME NEW a \in Apply, NEW want \in Want, NEW lease \in Lease,
               AcquireReservations(a, want, lease)
        PROVE  NoConflictingRows'
    BY <2>1, AcquireKeepsExclusion
  <2>2. ASSUME NEW a \in Apply, NEW lease \in Lease, RenewReservations(a, lease)
        PROVE  NoConflictingRows'
    <3>1. ASSUME NEW b \in Apply, NEW g \in Glob, Present(b, g)'
          PROVE  Present(b, g) /\ resv'[b][g].mode = resv[b][g].mode
      <4>1. CASE b = a /\ Renewable(a, g)
        BY <4>1, <2>2 DEF RenewReservations, Renewable, ReservationsTypeOK, Present, Row, NoRow
      <4>2. CASE ~ (b = a /\ Renewable(a, g))
        <5>1. resv'[b][g] = resv[b][g]
          BY <4>2, <2>2 DEF RenewReservations, ReservationsTypeOK
        <5> QED BY <5>1, <3>1 DEF Present
      <4> QED BY <4>1, <4>2
    <3> QED BY <3>1, <2>0
  <2>3. ASSUME NEW a \in Apply, ReleaseReservations(a)
        PROVE  NoConflictingRows'
    <3>1. \A b \in Apply, g \in Glob :
            Present(b, g)' => Present(b, g) /\ resv'[b][g] = resv[b][g]
      BY <2>3 DEF ReleaseReservations, ReservationsTypeOK, Present
    <3> QED BY <3>1, <2>0
  <2>4. CASE Tick
    <3>1. \A b \in Apply, g \in Glob :
            Present(b, g)' => Present(b, g) /\ resv'[b][g].mode = resv[b][g].mode
      BY <2>4, TickRowType DEF Tick, ReservationsTypeOK, Present
    <3> QED BY <3>1, <2>0
  <2>5. CASE UNCHANGED resv
    BY <2>5 DEF NoConflictingRows, Present
  <2> QED BY <2>1, <2>2, <2>3, <2>4, <2>5 DEF ReservationsNext
<1> QED BY <1>1, <1>2, ReservationsTypeCorrect, PTL DEF ReservationsSpec

(* No step takes an unexpired row away from an apply, except the release   *)
(* of all its rows.                                                        *)
THEOREM ReservationsHonourLeases == ReservationsSpec => LeasesHonoured
<1>1. ReservationsTypeOK /\ [ReservationsNext]_resv => [LeaseHonoured]_resv
  <2> SUFFICES ASSUME ReservationsTypeOK, ReservationsNext,
                      NEW a \in Apply, NEW g \in Glob, Live(a, g), ~ Present(a, g)'
               PROVE  \A h \in Glob : ~ Present(a, h)'
    BY DEF LeaseHonoured
  <2>1. ASSUME NEW b \in Apply, NEW want \in Want, NEW lease \in Lease,
               AcquireReservations(b, want, lease)
        PROVE  FALSE
    <3>1. ~ Purgeable(a, g) /\ resv[a][g] # NoRow
      BY DEF Live, Purgeable, Present
    <3>2. want[g] # "none" => [mode |-> want[g], ttl |-> lease] # NoRow
      BY DEF NoRow
    <3> QED BY <2>1, <3>1, <3>2 DEF AcquireReservations, AcquireEffect, Present
  <2>2. ASSUME NEW b \in Apply, NEW lease \in Lease, RenewReservations(b, lease)
        PROVE  FALSE
    <3>1. Renewable(a, g) => [resv[a][g] EXCEPT !.ttl = lease] # NoRow
      BY RowIsNotNoRow DEF Renewable, Present, ReservationsTypeOK, Row, Mode, NoRow
    <3> QED BY <2>2, <3>1 DEF RenewReservations, ReservationsTypeOK, Live, Present
  <2>3. ASSUME NEW b \in Apply, ReleaseReservations(b)
        PROVE  \A h \in Glob : ~ Present(a, h)'
    BY <2>3 DEF ReleaseReservations, ReservationsTypeOK, Live, Present
  <2>4. CASE Tick
    BY <2>4, TickRowType DEF Tick, ReservationsTypeOK, Live, Present
  <2> QED BY <2>1, <2>2, <2>3, <2>4 DEF ReservationsNext
<1> QED BY <1>1, ReservationsTypeCorrect, PTL DEF ReservationsSpec, LeasesHonoured

-----------------------------------------------------------------------------
(* globsIntersect, the overlap test, for globs and addresses of any length *)

(* The globs over a set of symbols.                                        *)
GlobOver(Sym) ==
  {AllGlob} \cup {Subtree(p) : p \in Seq(Sym)} \cup {Literal(p) : p \in Seq(Sym)}

(* An address of the subtree glob "p.*" begins with p.                     *)
LEMMA SubtreeBeginsWithRoot ==
  ASSUME NEW Sym, Dot \in Sym, NEW p \in Seq(Sym), NEW addr \in Seq(Sym), UnderSubtree(addr, p)
  PROVE  HasPrefix(addr, p)
<1>1. CASE addr = p
  BY <1>1 DEF HasPrefix
<1>2. CASE HasPrefix(addr, p \o <<Dot>>)
  <2>1. Len(p \o <<Dot>>) = Len(p) + 1 /\ \A i \in 1..Len(p) : (p \o <<Dot>>)[i] = p[i]
    OBVIOUS
  <2>2. QED
    BY <1>2, <2>1 DEF HasPrefix
<1>3. QED
  BY <1>1, <1>2 DEF UnderSubtree

(* Two prefixes of one address are prefixes of one another.                *)
LEMMA PrefixesNest ==
  ASSUME NEW Sym, NEW p \in Seq(Sym), NEW q \in Seq(Sym), NEW addr \in Seq(Sym),
         HasPrefix(addr, p), HasPrefix(addr, q)
  PROVE  SubtreesOverlap(p, q)
<1>1. CASE Len(p) <= Len(q)
  BY <1>1 DEF HasPrefix, SubtreesOverlap
<1>2. CASE Len(q) <= Len(p)
  BY <1>2 DEF HasPrefix, SubtreesOverlap
<1>3. QED
  BY <1>1, <1>2

(* Every glob has a path over the symbols, and matches it.                 *)
LEMMA GlobMatchesPath ==
  ASSUME NEW Sym, NEW g \in GlobOver(Sym)
  PROVE  g.path \in Seq(Sym) /\ Matches(g, g.path)
<1>1. CASE g = AllGlob
  <2>1. <<>> \in Seq(Sym)
    OBVIOUS
  <2>2. g.kind = "all" /\ g.path = <<>>
    BY <1>1 DEF AllGlob
  <2>3. QED
    BY <2>1, <2>2 DEF Matches
<1>2. ASSUME NEW p \in Seq(Sym), g = Subtree(p)
      PROVE  g.path \in Seq(Sym) /\ Matches(g, g.path)
  BY <1>2 DEF Subtree, Matches
<1>3. ASSUME NEW p \in Seq(Sym), g = Literal(p)
      PROVE  g.path \in Seq(Sym) /\ Matches(g, g.path)
  BY <1>3 DEF Literal, Matches
<1>4. QED
  BY <1>1, <1>2, <1>3 DEF GlobOver

(* globsIntersect misses no overlap: two globs that both match some address *)
(* intersect, so the reservation table, which tests globs, protects every   *)
(* address they stand for (reservations.go, globsIntersect).                *)
THEOREM GlobsSound ==
  ASSUME NEW Sym, Dot \in Sym, NEW g \in GlobOver(Sym), NEW h \in GlobOver(Sym),
         NEW addr \in Seq(Sym), Matches(g, addr), Matches(h, addr)
  PROVE  GlobsIntersect(g, h)
<1>1. CASE g = AllGlob \/ h = AllGlob
  BY <1>1 DEF GlobsIntersect, AllGlob
<1>2. ASSUME NEW p \in Seq(Sym), g = Literal(p), NEW q \in Seq(Sym), h = Literal(q)
      PROVE  GlobsIntersect(g, h)
  BY <1>2 DEF Matches, GlobsIntersect, Literal
<1>3. ASSUME NEW p \in Seq(Sym), g = Subtree(p), NEW q \in Seq(Sym), h = Literal(q)
      PROVE  GlobsIntersect(g, h)
  BY <1>3 DEF Matches, GlobsIntersect, Literal, Subtree, UnderSubtree
<1>4. ASSUME NEW p \in Seq(Sym), g = Literal(p), NEW q \in Seq(Sym), h = Subtree(q)
      PROVE  GlobsIntersect(g, h)
  BY <1>4 DEF Matches, GlobsIntersect, Literal, Subtree, UnderSubtree
<1>5. ASSUME NEW p \in Seq(Sym), g = Subtree(p), NEW q \in Seq(Sym), h = Subtree(q)
      PROVE  GlobsIntersect(g, h)
  <2>1. UnderSubtree(addr, p) /\ UnderSubtree(addr, q)
    BY <1>5 DEF Matches, Subtree, UnderSubtree
  <2>2. HasPrefix(addr, p) /\ HasPrefix(addr, q)
    BY <2>1, SubtreeBeginsWithRoot
  <2>3. SubtreesOverlap(p, q)
    BY <2>2, PrefixesNest
  <2>4. QED
    BY <1>5, <2>3 DEF GlobsIntersect, Subtree
<1>6. QED
  BY <1>1, <1>2, <1>3, <1>4, <1>5 DEF GlobOver

(* globsIntersect makes no false conflict but between two subtree globs,    *)
(* which it compares without the dot ("m.web.*" and "m.web2.*"): any other  *)
(* pair it reports shares an address.                                       *)
THEOREM GlobsPrecise ==
  ASSUME NEW Sym, Dot \in Sym, NEW g \in GlobOver(Sym), NEW h \in GlobOver(Sym),
         GlobsIntersect(g, h), ~ (g.kind = "subtree" /\ h.kind = "subtree")
  PROVE  \E addr \in Seq(Sym) : Matches(g, addr) /\ Matches(h, addr)
<1>1. g.path \in Seq(Sym) /\ h.path \in Seq(Sym)
  BY GlobMatchesPath
<1>2. Matches(g, g.path) /\ Matches(h, h.path)
  BY GlobMatchesPath
<1>3. CASE g.kind = "all"
  <2>1. Matches(g, h.path)
    BY <1>3 DEF Matches
  <2>2. QED
    BY <1>1, <1>2, <2>1
<1>4. CASE h.kind = "all"
  <2>1. Matches(h, g.path)
    BY <1>4 DEF Matches
  <2>2. QED
    BY <1>1, <1>2, <2>1
<1>5. CASE g.kind = "literal" /\ h.kind = "literal" /\ g.path = h.path
  BY <1>1, <1>2, <1>5
<1>6. CASE g.kind = "subtree" /\ h.kind = "literal" /\ UnderSubtree(h.path, g.path)
  <2>1. Matches(g, h.path)
    BY <1>6 DEF Matches, UnderSubtree
  <2>2. QED
    BY <1>1, <1>2, <2>1
<1>7. CASE g.kind = "literal" /\ h.kind = "subtree" /\ UnderSubtree(g.path, h.path)
  <2>1. Matches(h, g.path)
    BY <1>7 DEF Matches, UnderSubtree
  <2>2. QED
    BY <1>1, <1>2, <2>1
<1>8. QED
  BY <1>3, <1>4, <1>5, <1>6, <1>7 DEF GlobsIntersect
=============================================================================
